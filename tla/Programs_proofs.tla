-------------------------- MODULE Programs_proofs --------------------------
(***************************************************************************)
(* Proofs about what runs outside of the kernel's tables: the list of the  *)
(* blink library and the fish program (Blink, Fish), for screens, words,   *)
(* texts and numbers of calls of any size; the way of a command from the   *)
(* keyboard to getargs (Keys, Console), for any executables, commands and  *)
(* lengths of lines; and the loops of the C library (CLib), for memories,  *)
(* strings and numbers of any size.                                        *)
(***************************************************************************)
EXTENDS Fish, Console, FiniteSetTheorems, SequenceTheorems, WellFoundedInduction, TLAPS

----------------------------------------------------------------------------
\* Numbers: least elements and induction, both over sets.

\* A set of natural numbers that is not empty has a least element.
LEMMA LeastOf ==
  ASSUME NEW T, T \subseteq Nat, T # {}
  PROVE  \E m \in T : \A k \in T : m <= k
  <1> DEFINE R == {ss \in Nat \X Nat : ss[1] < ss[2]}
  <1>1. IsWellFoundedOn(R, Nat)
    BY NatLessThanWellFounded DEF OpToRel
  <1>2. \A x, y \in Nat : <<y, x>> \in R <=> y < x
    OBVIOUS
  <1> HIDE DEF R
  <1>3. PICK x \in T : \A y \in T : ~ (<<y, x>> \in R)
    BY <1>1, WFMin
  <1>4. ASSUME NEW y \in T PROVE x <= y
    <2>1. x \in Nat /\ y \in Nat
      OBVIOUS
    <2>2. ~(y < x)
      BY <1>2, <1>3, <2>1
    <2> QED BY <2>1, <2>2
  <1> QED BY <1>4

\* Induction: a set with 0 and with the successor of each of its numbers holds
\* all numbers.
LEMMA Induction ==
  ASSUME NEW S, 0 \in S, \A n \in Nat : n \in S => n + 1 \in S
  PROVE  Nat \subseteq S
  <1> SUFFICES ASSUME ~(Nat \subseteq S) PROVE FALSE
    OBVIOUS
  <1> DEFINE T == {n \in Nat : n \notin S}
  <1>1. PICK m \in T : \A k \in T : m <= k
    BY LeastOf
  <1>2. m # 0 /\ m - 1 \in Nat /\ m - 1 \in S
    BY <1>1
  <1> QED BY <1>1, <1>2

\* f holds a and what the steps make of it, one after the other.
IsIterate(f, T, a, step, n) ==
  f \in [0 .. n -> T] /\ f[0] = a /\ \A k \in 1 .. n : f[k] = step[k][f[k - 1]]

\* Any steps can be taken any number of times: the functions the modules define
\* by recursion on a number exist.
LEMMA Iterates ==
  ASSUME NEW T, NEW a \in T, NEW step \in [Nat -> [T -> T]], NEW n \in Nat
  PROVE  \E f : IsIterate(f, T, a, step, n)
  <1> DEFINE Good(k, f) == f[0] = a /\ \A j \in 1 .. k : f[j] = step[j][f[j - 1]]
             S == {k \in Nat : \E f \in [0 .. k -> T] : Good(k, f)}
  <1>1. 0 \in S
    <2>1. [j \in 0 .. 0 |-> a] \in [0 .. 0 -> T] /\ Good(0, [j \in 0 .. 0 |-> a])
      OBVIOUS
    <2> QED BY <2>1
  <1>2. ASSUME NEW k \in Nat, k \in S PROVE k + 1 \in S
    <2>1. PICK f \in [0 .. k -> T] : Good(k, f)
      BY <1>2
    <2> DEFINE v == step[k + 1][f[k]]
               g == [j \in 0 .. k + 1 |-> IF j = k + 1 THEN v ELSE f[j]]
    <2>2. v \in T
      BY <2>1
    <2>3. /\ g \in [0 .. k + 1 -> T] /\ g[k + 1] = v
          /\ \A j \in 0 .. k : g[j] = f[j]
      BY <2>1, <2>2
    <2> HIDE DEF g
    <2>4. g[0] = a
      BY <2>1, <2>3
    <2>5. ASSUME NEW j \in 1 .. k + 1 PROVE g[j] = step[j][g[j - 1]]
      <3>1. j - 1 \in 0 .. k /\ g[j - 1] = f[j - 1]
        BY <2>3
      <3>2. CASE j = k + 1
        BY <3>1, <3>2, <2>3
      <3>3. CASE j # k + 1
        BY <2>1, <3>1, <3>3, <2>3
      <3> QED BY <3>2, <3>3
    <2>6. Good(k + 1, g)
      BY <2>4, <2>5
    <2> HIDE DEF Good
    <2> QED BY <2>3, <2>6
  <1>3. Nat \subseteq S
    <2> HIDE DEF S
    <2> QED BY <1>1, <1>2, Induction
  <1> QED BY <1>3 DEF IsIterate

----------------------------------------------------------------------------
\* The list of the blink library.

LEMMA CellsNat == Cells \in Nat
  BY BlinkAssumption DEF Cells

\* The walk is what its recursive definition says.
LEMMA WalkFacts ==
  ASSUME NEW T, NEW head \in T, NEW next \in [T -> T]
  PROVE  /\ Walk(next, head) \in [0 .. Cells -> T]
         /\ Walk(next, head)[0] = head
         /\ \A n \in 1 .. Cells : Walk(next, head)[n] = next[Walk(next, head)[n - 1]]
  <1> USE CellsNat
  <1> DEFINE step == [k \in Nat |-> next]
             W == Walk(next, head)
             Fix(f) == f = [n \in 0 .. Cells |-> IF n = 0 THEN head ELSE next[f[n - 1]]]
  <1>1. step \in [Nat -> [T -> T]]
    OBVIOUS
  <1>2. PICK f : IsIterate(f, T, head, step, Cells)
    <2> HIDE DEF step
    <2> QED BY <1>1, Iterates
  <1>3. \A n \in 1 .. Cells : f[n] = next[f[n - 1]]
    BY <1>2 DEF IsIterate
  <1>4. Fix(f)
    BY <1>2, <1>3 DEF IsIterate
  <1>5. W = CHOOSE g : Fix(g)
    BY DEF Walk
  <1>6. Fix(W)
    BY <1>4, <1>5
  <1>7. W[0] = head /\ \A n \in 1 .. Cells : W[n] = next[W[n - 1]]
    BY <1>6
  <1>8. W \in [0 .. Cells -> T]
    <2> DEFINE S == {n \in Nat : n <= Cells => W[n] \in T}
    <2> HIDE DEF W
    <2>1. 0 \in S
      BY <1>7
    <2>2. ASSUME NEW k \in Nat, k \in S PROVE k + 1 \in S
      BY <1>7, <2>2
    <2>3. Nat \subseteq S
      <3> HIDE DEF S
      <3> QED BY <2>1, <2>2, Induction
    <2>4. \A n \in 0 .. Cells : W[n] \in T
      BY <2>3
    <2> QED BY <1>6, <2>4
  <1> QED BY <1>7, <1>8

\* L is the list: its slots, linked one after the other.
Link(L, k) == IF k \in DOMAIN L THEN L[k] ELSE NULL
IsList(L, next, head) ==
  /\ L \in Seq(Slot)
  /\ head = Link(L, 1)
  /\ \A k \in 1 .. Len(L) : next[L[k]] = Link(L, k + 1)
  /\ \A k, m \in 1 .. Len(L) : L[k] = L[m] => k = m

\* No list is longer than the pool.
LEMMA NotLonger ==
  ASSUME NEW L \in Seq(Slot), \A k, m \in 1 .. Len(L) : L[k] = L[m] => k = m
  PROVE  Len(L) <= Cells
  <1> SUFFICES ASSUME Cells < Len(L) PROVE FALSE
    BY CellsNat
  <1>1. /\ IsFiniteSet(1 .. Len(L)) /\ Cardinality(1 .. Len(L)) = Len(L)
        /\ IsFiniteSet(Slot) /\ Cardinality(Slot) = Cells
    <2>1. \A n \in Nat : IsFiniteSet(1 .. n) /\ Cardinality(1 .. n) = n
      <3>1. \A n \in Nat : /\ IsFiniteSet(1 .. n)
                           /\ Cardinality(1 .. n) = IF 1 > n THEN 0 ELSE n - 1 + 1
        BY FS_Interval
      <3>2. \A n \in Nat : (IF 1 > n THEN 0 ELSE n - 1 + 1) = n
        OBVIOUS
      <3> QED BY <3>1, <3>2
    <2> QED BY <2>1, CellsNat DEF Slot
  <1>2. L \in [1 .. Len(L) -> Slot]
    OBVIOUS
  <1>3. \E k, m \in 1 .. Len(L) : k # m /\ L[k] = L[m]
    BY <1>1, <1>2, FS_PigeonHole
  <1> QED BY <1>3

\* A linked list that meets no slot twice is what the walk finds.
LEMMA WalkIsList ==
  ASSUME NEW next \in [Slot \cup {NULL} -> Slot \cup {NULL}], NEW head, next[NULL] = NULL,
         NEW L, IsList(L, next, head)
  PROVE  Slots(Walk(next, head)) = L
  <1> USE CellsNat
  <1> DEFINE at == Walk(next, head)
             n == Len(L)
  <1>1. L \in Seq(Slot) /\ n \in Nat /\ DOMAIN L = 1 .. n /\ n <= Cells /\ NULL \notin Slot
    BY NotLonger DEF IsList, Slot, NULL
  <1>2. head \in Slot \cup {NULL}
    BY <1>1 DEF IsList, Link
  <1>3. /\ at \in [0 .. Cells -> Slot \cup {NULL}] /\ at[0] = head
        /\ \A k \in 1 .. Cells : at[k] = next[at[k - 1]]
    BY <1>2, WalkFacts
  <1> HIDE DEF at
  <1>4. \A k \in 0 .. n : at[k] = Link(L, k + 1)
    <2> DEFINE S == {k \in Nat : k <= n => at[k] = Link(L, k + 1)}
    <2>1. 0 \in S
      BY <1>3 DEF IsList
    <2>2. ASSUME NEW k \in Nat, k \in S PROVE k + 1 \in S
      <3> SUFFICES ASSUME k + 1 <= n PROVE at[k + 1] = Link(L, k + 2)
        OBVIOUS
      <3>1. at[k] = L[k + 1]
        BY <1>1, <2>2 DEF Link
      <3>2. at[k + 1] = next[at[k]]
        BY <1>1, <1>3
      <3> QED BY <1>1, <3>1, <3>2 DEF IsList
    <2>3. Nat \subseteq S
      <3> HIDE DEF S
      <3> QED BY <2>1, <2>2, Induction
    <2> QED BY <1>1, <2>3
  <1>5. (\A k \in 0 .. n - 1 : at[k] = L[k + 1] /\ at[k] # NULL) /\ at[n] = NULL
    BY <1>1, <1>4 DEF Link
  <1>6. n \in 0 .. Cells /\ EndsAt(at, n)
    BY <1>1, <1>5 DEF EndsAt
  <1>7. ASSUME NEW k \in 0 .. Cells, EndsAt(at, k) PROVE k = n
    <2>1. CASE k < n
      <3>1. k \in 0 .. n - 1 /\ k # Cells
        BY <1>1, <2>1
      <3> QED BY <1>5, <1>7, <3>1 DEF EndsAt
    <2>2. CASE k > n
      <3>1. n \in 0 .. k - 1
        BY <1>1, <2>2
      <3> QED BY <1>5, <1>7, <3>1 DEF EndsAt
    <2>3. n \in Int /\ k \in Int
      BY <1>1
    <2> HIDE DEF n
    <2> QED BY <2>1, <2>2, <2>3
  <1>8. (CHOOSE k \in 0 .. Cells : EndsAt(at, k)) = n
    BY <1>6, <1>7
  <1>9. Slots(at) = [k \in 1 .. n |-> at[k - 1]]
    BY <1>8 DEF Slots
  <1>10. \A k \in 1 .. n : at[k - 1] = L[k]
    BY <1>5
  <1> QED BY <1>1, <1>9, <1>10 DEF at

\* A list with one more slot in front.
LEMMA PushList ==
  ASSUME NEW next, NEW head, NEW L, IsList(L, next, head),
         NEW s \in Slot, \A k \in 1 .. Len(L) : L[k] # s,
         NEW next2, next2[s] = head, \A t \in Slot : t # s => next2[t] = next[t]
  PROVE  /\ IsList(<<s>> \o L, next2, s)
         /\ ToSet(<<s>> \o L) = ToSet(L) \cup {s}
  <1> DEFINE M == <<s>> \o L
             n == Len(L)
  <1>1. L \in Seq(Slot) /\ n \in Nat /\ DOMAIN L = 1 .. n
    BY DEF IsList
  <1>2. /\ M \in Seq(Slot) /\ Len(M) = n + 1 /\ DOMAIN M = 1 .. n + 1 /\ M[1] = s
        /\ \A k \in 2 .. n + 1 : M[k] = L[k - 1]
    BY <1>1
  <1> HIDE DEF M, n
  <1>3. \A k \in 1 .. n + 1 : Link(M, k + 1) = Link(L, k)
    <2> TAKE k \in 1 .. n + 1
    <2>1. CASE k = n + 1
      BY <1>1, <1>2, <2>1 DEF Link
    <2>2. CASE k # n + 1
      <3>1. k \in 1 .. n /\ k + 1 \in 2 .. n + 1 /\ k + 1 \in 1 .. n + 1 /\ (k + 1) - 1 = k
        BY <1>1, <2>2
      <3>2. M[k + 1] = L[k]
        BY <1>2, <3>1
      <3> QED BY <1>1, <1>2, <3>1, <3>2 DEF Link
    <2> QED BY <2>1, <2>2
  <1>4. \A k \in 1 .. n + 1 : next2[M[k]] = Link(M, k + 1)
    <2> TAKE k \in 1 .. n + 1
    <2>1. CASE k = 1
      BY <1>1, <1>2, <1>3, <2>1 DEF IsList
    <2>2. CASE k # 1
      <3>1. k - 1 \in 1 .. n /\ k \in 2 .. n + 1
        BY <1>1, <2>2
      <3>2. M[k] = L[k - 1] /\ L[k - 1] \in Slot /\ L[k - 1] # s
        BY <1>1, <1>2, <3>1 DEF n
      <3>3. next[L[k - 1]] = Link(L, (k - 1) + 1)
        BY <3>1 DEF IsList, n
      <3>4. (k - 1) + 1 = k
        OBVIOUS
      <3> QED BY <1>3, <3>2, <3>3, <3>4
    <2> QED BY <2>1, <2>2
  <1>5. ASSUME NEW k \in 1 .. n + 1, NEW m \in 1 .. n + 1, M[k] = M[m] PROVE k = m
    <2>1. \A j \in 2 .. n + 1 : j - 1 \in 1 .. n /\ M[j] = L[j - 1] /\ M[j] # s
      BY <1>1, <1>2 DEF n
    <2>2. CASE k # 1 /\ m # 1
      <3>1. L[k - 1] = L[m - 1] /\ k - 1 \in 1 .. n /\ m - 1 \in 1 .. n
        BY <1>1, <1>5, <2>1, <2>2
      <3>2. k - 1 = m - 1
        BY <3>1 DEF IsList, n
      <3> QED BY <1>1, <3>2
    <2>3. CASE k = 1 \/ m = 1
      BY <1>1, <1>2, <1>5, <2>1, <2>3
    <2> QED BY <2>2, <2>3
  <1>6. s = Link(M, 1)
    BY <1>1, <1>2 DEF Link
  <1>7. IsList(M, next2, s)
    BY <1>1, <1>2, <1>4, <1>5, <1>6 DEF IsList
  <1>8. ToSet(M) = ToSet(L) \cup {s}
    <2>1. ASSUME NEW k \in 1 .. n + 1 PROVE M[k] \in ToSet(L) \cup {s}
      <3>1. CASE k = 1
        BY <1>2, <3>1
      <3>2. CASE k # 1
        <4>1. k - 1 \in 1 .. n /\ M[k] = L[k - 1]
          BY <1>1, <1>2, <3>2
        <4> QED BY <1>1, <4>1 DEF ToSet
      <3> QED BY <3>1, <3>2
    <2>2. ASSUME NEW k \in 1 .. n PROVE L[k] \in ToSet(M)
      <3>1. k + 1 \in 1 .. n + 1 /\ M[k + 1] = L[(k + 1) - 1]
        BY <1>1, <1>2
      <3> QED BY <1>2, <3>1 DEF ToSet
    <2>3. s \in ToSet(M)
      BY <1>1, <1>2 DEF ToSet
    <2> QED BY <1>1, <1>2, <2>1, <2>2, <2>3 DEF ToSet
  <1> QED BY <1>7, <1>8 DEF M

\* A list without its slot k: what pointed to it points to what came after it.
Without(L, k) == [j \in 1 .. Len(L) - 1 |-> IF j < k THEN L[j] ELSE L[j + 1]]
LEMMA UnlinkList ==
  ASSUME NEW next, NEW head, NEW L, IsList(L, next, head),
         NEW k \in 1 .. Len(L), NEW next2,
         \A j \in 1 .. Len(L) :
           j # k => next2[L[j]] = IF next[L[j]] = L[k] THEN next[L[k]] ELSE next[L[j]]
  PROVE  /\ IsList(Without(L, k), next2, IF head = L[k] THEN next[L[k]] ELSE head)
         /\ ToSet(Without(L, k)) = ToSet(L) \ {L[k]}
  <1> DEFINE M == Without(L, k)
             n == Len(L)
  <1>1. L \in Seq(Slot) /\ n \in Nat /\ DOMAIN L = 1 .. n /\ k \in 1 .. n /\ NULL \notin Slot
    BY DEF IsList, Slot, NULL
  <1>2. /\ M \in Seq(Slot) /\ Len(M) = n - 1 /\ DOMAIN M = 1 .. n - 1
        /\ \A j \in 1 .. n - 1 : M[j] = IF j < k THEN L[j] ELSE L[j + 1]
    BY <1>1 DEF Without
  <1>3. \A j, m \in 1 .. n : L[j] = L[m] => j = m
    BY DEF IsList
  <1>4. \A j \in 1 .. n : L[j] \in Slot /\ next[L[j]] = Link(L, j + 1)
    BY <1>1 DEF IsList
  <1> HIDE DEF M, n
  <1>5. \A j \in 1 .. n : Link(M, j) = IF j < k THEN Link(L, j) ELSE Link(L, j + 1)
    BY <1>1, <1>2 DEF Link
  <1>6. \A j \in 1 .. n - 1 : next2[M[j]] = Link(M, j + 1)
    <2> TAKE j \in 1 .. n - 1
    <2>1. CASE j < k
      <3>1. M[j] = L[j] /\ j \in 1 .. n /\ L[j] # L[k] /\ j + 1 \in 1 .. n
        BY <1>1, <1>2, <1>3, <2>1
      <3>2. next2[M[j]] = IF Link(L, j + 1) = L[k] THEN Link(L, k + 1) ELSE Link(L, j + 1)
        BY <1>1, <1>4, <3>1
      <3>3. Link(L, j + 1) = L[j + 1]
        BY <1>1, <3>1 DEF Link
      <3>4. CASE j + 1 = k
        BY <1>1, <1>5, <3>1, <3>2, <3>3, <3>4
      <3>5. CASE j + 1 # k
        <4>1. L[j + 1] # L[k] /\ j + 1 < k
          BY <1>1, <1>3, <2>1, <3>1, <3>5
        <4> QED BY <1>5, <3>1, <3>2, <3>3, <4>1
      <3> QED BY <3>4, <3>5
    <2>2. CASE ~(j < k)
      <3>1. M[j] = L[j + 1] /\ j + 1 \in 1 .. n /\ L[j + 1] # L[k] /\ ~(j + 1 < k)
        BY <1>1, <1>2, <1>3, <2>2
      <3>2. Link(L, (j + 1) + 1) # L[k]
        <4>1. CASE (j + 1) + 1 \in 1 .. n
          BY <1>1, <1>3, <2>2, <4>1 DEF Link
        <4>2. CASE (j + 1) + 1 \notin 1 .. n
          BY <1>1, <1>4, <4>2 DEF Link
        <4> QED BY <4>1, <4>2
      <3>3. next2[M[j]] = Link(L, (j + 1) + 1)
        BY <1>1, <1>4, <3>1, <3>2
      <3> QED BY <1>5, <3>1, <3>3
    <2> QED BY <2>1, <2>2
  <1>7. ASSUME NEW j \in 1 .. n - 1, NEW m \in 1 .. n - 1, M[j] = M[m] PROVE j = m
    <2> DEFINE up(x) == IF x < k THEN x ELSE x + 1
    <2>1. \A x \in 1 .. n - 1 : up(x) \in 1 .. n /\ M[x] = L[up(x)]
      BY <1>1, <1>2
    <2>2. up(j) = up(m)
      <3> HIDE DEF up
      <3> QED BY <1>3, <1>7, <2>1
    <2> QED BY <1>1, <2>2
  <1>8. (IF head = L[k] THEN next[L[k]] ELSE head) = Link(M, 1)
    <2>1. head = L[1] /\ 1 \in 1 .. n
      BY <1>1 DEF IsList, Link
    <2>2. CASE k = 1
      BY <1>1, <1>4, <1>5, <2>1, <2>2
    <2>3. CASE k # 1
      <3>1. head # L[k] /\ 1 < k
        BY <1>1, <1>3, <2>1, <2>3
      <3> QED BY <1>1, <1>5, <2>1, <3>1 DEF Link
    <2> QED BY <2>2, <2>3
  <1>9. IsList(M, next2, IF head = L[k] THEN next[L[k]] ELSE head)
    BY <1>1, <1>2, <1>6, <1>7, <1>8 DEF IsList
  <1>10. ToSet(M) = ToSet(L) \ {L[k]}
    <2>1. ASSUME NEW j \in 1 .. n - 1 PROVE M[j] \in ToSet(L) \ {L[k]}
      <3>1. PICK m \in 1 .. n : M[j] = L[m] /\ m # k
        BY <1>1, <1>2
      <3> QED BY <1>1, <1>3, <3>1 DEF ToSet
    <2>2. ASSUME NEW m \in 1 .. n, m # k PROVE L[m] \in ToSet(M)
      <3>1. CASE m < k
        <4>1. m \in 1 .. n - 1 /\ M[m] = L[m]
          BY <1>1, <1>2, <3>1
        <4> QED BY <1>2, <4>1 DEF ToSet
      <3>2. CASE m > k
        <4>1. m - 1 \in 1 .. n - 1 /\ M[m - 1] = L[(m - 1) + 1] /\ (m - 1) + 1 = m
          BY <1>1, <1>2, <3>2
        <4> QED BY <1>2, <4>1 DEF ToSet
      <3> QED BY <1>1, <2>2, <3>1, <3>2
    <2> QED BY <1>1, <1>2, <2>1, <2>2 DEF ToSet
  <1> QED BY <1>9, <1>10 DEF M

----------------------------------------------------------------------------
\* The calls of the blink library.

Word == 0 .. WORD - 1
Chars == {Nul, Space, "0", "a", "b", "I", "M", "x", "y"}
Struct ==
  [location : Nat, on_char : Chars, off_char : Chars, on_length : Word, off_length : Word,
   countdown : Word, status : {0, 1}, next : Slot \cup {NULL}]
LibraryType == blink_array \in [Slot -> Struct] /\ mp1_list_head \in Slot \cup {NULL}

\* Some list holds exactly the structures in use.
Used == {s \in Slot : blink_array[s].location # 0}
Linked == \E L : IsList(L, After, mp1_list_head) /\ ToSet(L) = Used

\* A blink does not wait longer than its phase.
Waits(b) ==
  Signed(b.on_length) > 0 /\ Signed(b.off_length) > 0 =>
    b.countdown \in 1 .. (IF b.status = 1 THEN b.on_length ELSE b.off_length)
OnTime == \A s \in Slot : Waits(blink_array[s])

\* A blink at location 0 leaves nothing certain but the types and the countdowns.
LibraryInv == LibraryType /\ OnTime /\ (zero \/ Linked)

\* The words of the library.
LEMMA WordFacts ==
  WORD \in Nat \ {0} /\ Slot \subseteq Nat /\ NULL \notin Slot /\ 0 \in Word
  BY BlinkAssumption, CellsNat DEF Slot, NULL, Word

\* Whatever the links are, the walk gives a sequence of structures.
LEMMA ListSeq ==
  ASSUME LibraryType
  PROVE  List \in Seq(Slot) /\ Len(List) \in Nat /\ DOMAIN List = 1 .. Len(List)
  <1> USE CellsNat
  <1> DEFINE at == Walk(After, mp1_list_head)
             Z == {n \in 0 .. Cells : n = Cells \/ at[n] = NULL}
             e == CHOOSE n \in 0 .. Cells : EndsAt(at, n)
  <1>1. After \in [Slot \cup {NULL} -> Slot \cup {NULL}]
    BY WordFacts DEF After, LibraryType, Struct
  <1>2. at \in [0 .. Cells -> Slot \cup {NULL}]
    BY <1>1, WalkFacts DEF LibraryType
  <1> HIDE DEF at
  <1>3. \E m \in Z : \A n \in Z : m <= n
    <2>1. Cells \in Z /\ Z \subseteq Nat
      OBVIOUS
    <2> HIDE DEF Z
    <2> QED BY <2>1, LeastOf
  <1>4. PICK m \in Z : \A n \in Z : m <= n
    BY <1>3
  <1>5. EndsAt(at, m)
    BY <1>4 DEF EndsAt
  <1>6. e \in 0 .. Cells /\ EndsAt(at, e)
    BY <1>4, <1>5
  <1>7. List = [n \in 1 .. e |-> at[n - 1]]
    BY DEF List, Slots, at
  <1> HIDE DEF e
  <1>8. \A n \in 1 .. e : at[n - 1] \in Slot
    <2> TAKE n \in 1 .. e
    <2>1. n - 1 \in 0 .. e - 1 /\ n - 1 \in 0 .. Cells
      BY <1>6
    <2>2. at[n - 1] # NULL
      BY <1>6, <2>1 DEF EndsAt
    <2> QED BY <1>2, <2>1, <2>2
  <1> QED BY <1>6, <1>7, <1>8

\* The walk finds that list.
LEMMA ListFacts ==
  ASSUME LibraryType, Linked
  PROVE  IsList(List, After, mp1_list_head) /\ ToSet(List) = Used
  <1>1. After \in [Slot \cup {NULL} -> Slot \cup {NULL}] /\ After[NULL] = NULL
    BY WordFacts DEF After, LibraryType, Struct
  <1>2. PICK L : IsList(L, After, mp1_list_head) /\ ToSet(L) = Used
    BY DEF Linked
  <1>3. List = L
    BY <1>1, <1>2, WalkIsList DEF List
  <1> QED BY <1>2, <1>3

\* What the invariant says of the list and of its blinks.
LEMMA SoundFacts ==
  ASSUME LibraryInv
  PROVE  ListSound /\ Timely
  <1>1. List \in Seq(Slot) /\ Len(List) \in Nat /\ DOMAIN List = 1 .. Len(List)
    BY ListSeq DEF LibraryInv
  <1>2. ASSUME ~zero PROVE ListSound
    <2>1. IsList(List, After, mp1_list_head) /\ ToSet(List) = Used
      BY <1>2, ListFacts DEF LibraryInv
    <2>2. IsInjective(List)
      BY <1>1, <2>1 DEF IsList, IsInjective
    <2>3. ASSUME List # << >> PROVE blink_array[List[Len(List)]].next = NULL
      <3>1. Len(List) \in 1 .. Len(List) /\ List[Len(List)] \in Slot
        BY <1>1, <2>3
      <3>2. After[List[Len(List)]] = Link(List, Len(List) + 1)
        BY <2>1, <3>1 DEF IsList
      <3>3. Link(List, Len(List) + 1) = NULL
        BY <1>1 DEF Link
      <3> QED BY <3>1, <3>2, <3>3, WordFacts DEF After
    <2> QED BY <2>1, <2>2, <2>3 DEF ListSound, Used
  <1>3. Timely
    <2> SUFFICES ASSUME NEW k \in DOMAIN List PROVE Waits(blink_array[List[k]])
      BY DEF Timely, Waits
    <2> QED BY <1>1 DEF LibraryInv, OnTime
  <1> QED BY <1>2, <1>3 DEF ListSound

\* What mp1_find_helper finds is in the list and has the location.
LEMMA FindFacts ==
  ASSUME LibraryInv, NEW loc, mp1_find_helper(loc) # NULL
  PROVE  /\ mp1_find_helper(loc) \in Slot /\ blink_array[mp1_find_helper(loc)].location = loc
         /\ \E k \in 1 .. Len(List) : mp1_find_helper(loc) = List[k]
  <1> DEFINE I == {k \in 1 .. Len(List) : blink_array[List[k]].location = loc}
  <1>1. List \in Seq(Slot) /\ Len(List) \in Nat /\ DOMAIN List = 1 .. Len(List)
    BY ListSeq DEF LibraryInv
  <1>2. mp1_find_helper(loc) = IF (IF I # {} THEN Min(I) ELSE 0) = 0 THEN NULL
                               ELSE List[IF I # {} THEN Min(I) ELSE 0]
    BY DEF mp1_find_helper, SelectInSeq
  <1>3. I # {}
    BY <1>2
  <1>4. Min(I) \in I
    <2>1. I \subseteq Nat
      BY <1>1
    <2> HIDE DEF I
    <2>2. \E m \in I : \A k \in I : m <= k
      BY <1>3, <2>1, LeastOf
    <2> QED BY <2>2 DEF Min
  <1>5. mp1_find_helper(loc) = List[Min(I)]
    BY <1>2, <1>3
  <1>6. PICK k \in I : mp1_find_helper(loc) = List[k]
    BY <1>4, <1>5
  <1> HIDE DEF mp1_find_helper
  <1> QED BY <1>1, <1>6

\* The structure mp1_malloc gives out is free.
LEMMA MallocFacts ==
  ASSUME LibraryType, mp1_malloc # NULL
  PROVE  mp1_malloc \in Slot \ Used
  <1> DEFINE free == {s \in Slot : blink_array[s].location = 0}
  <1>1. mp1_malloc = IF free = {} THEN NULL ELSE CHOOSE s \in free : \A t \in free : s <= t
    BY DEF mp1_malloc
  <1>2. free # {}
    BY <1>1
  <1>3. \E s \in free : \A t \in free : s <= t
    BY <1>2, WordFacts, LeastOf
  <1>4. mp1_malloc \in free
    <2> HIDE DEF free
    <2> QED BY <1>1, <1>2, <1>3
  <1> QED BY <1>4 DEF Used

\* mp1_ioctl_add links the new blink in front.
LEMMA AddStep ==
  ASSUME LibraryInv, NEW b \in Struct, mp1_ioctl_add(b)
  PROVE  LibraryInv'
  <1> DEFINE s == mp1_malloc
             r == [b EXCEPT !.status = 1, !.countdown = b.on_length, !.next = mp1_list_head]
  <1>1. s \in Slot \ Used
    BY MallocFacts DEF mp1_ioctl_add, Accepted, LibraryInv
  <1>2. /\ blink_array' = [blink_array EXCEPT ![s] = r] /\ mp1_list_head' = s
        /\ zero' = (zero \/ b.location = 0)
    BY DEF mp1_ioctl_add
  <1>3. /\ r \in Struct /\ r.location = b.location /\ r.next = mp1_list_head /\ r.status = 1
        /\ r.countdown = b.on_length /\ r.on_length = b.on_length /\ r.off_length = b.off_length
    BY DEF Struct, LibraryInv, LibraryType
  <1> HIDE DEF s, r
  <1>4. LibraryType'
    BY <1>1, <1>2, <1>3 DEF LibraryInv, LibraryType
  <1>5. /\ blink_array'[s] = r /\ \A t \in Slot : t # s => blink_array'[t] = blink_array[t]
    BY <1>1, <1>2 DEF LibraryInv, LibraryType
  <1>6. b.location # 0 => Used' = Used \cup {s}
    BY <1>1, <1>3, <1>5 DEF Used
  <1>7. ASSUME ~zero' PROVE Linked'
    <2>0. ~zero /\ b.location # 0
      BY <1>2, <1>7
    <2>1. IsList(List, After, mp1_list_head) /\ ToSet(List) = Used
      BY <2>0, ListFacts DEF LibraryInv
    <2>2. \A k \in 1 .. Len(List) : List[k] # s
      BY <1>1, <2>1 DEF ToSet, IsList
    <2>3. After'[s] = mp1_list_head /\ \A t \in Slot : t # s => After'[t] = After[t]
      BY <1>1, <1>3, <1>5, WordFacts DEF After
    <2>4. IsList(<<s>> \o List, After', s) /\ ToSet(<<s>> \o List) = Used \cup {s}
      BY <1>1, <2>1, <2>2, <2>3, PushList
    <2> QED BY <1>2, <1>6, <2>0, <2>4 DEF Linked
  <1>8. Waits(r)
    BY <1>3, WordFacts DEF Waits, Struct, Word, Signed
  <1>9. OnTime'
    <2>1. \A t \in Slot : Waits(blink_array'[t])
      BY <1>1, <1>5, <1>8 DEF LibraryInv, OnTime
    <2> QED BY <2>1 DEF OnTime, Waits, Signed
  <1> QED BY <1>4, <1>7, <1>9 DEF LibraryInv

\* remove_find_prev finds the one blink of the list that points to another.
LEMMA PrevFacts ==
  ASSUME LibraryType, Linked, NEW k \in 1 .. Len(List), mp1_list_head # List[k]
  PROVE  \A j \in 1 .. Len(List) : List[j] = Prev(List[k]) <=> After[List[j]] = List[k]
  <1> DEFINE I == {j \in 1 .. Len(List) : blink_array[List[j]].next = List[k]}
  <1>1. IsList(List, After, mp1_list_head)
    BY ListFacts
  <1>2. List \in Seq(Slot) /\ Len(List) \in Nat /\ DOMAIN List = 1 .. Len(List) /\ List[k] \in Slot
    BY ListSeq
  <1>3. \A j \in 1 .. Len(List) : After[List[j]] = blink_array[List[j]].next
    BY <1>2, WordFacts DEF After
  <1>4. k - 1 \in 1 .. Len(List)
    BY <1>1, <1>2 DEF IsList, Link
  <1>5. \A j \in 1 .. Len(List) : After[List[j]] = List[k] <=> j = k - 1
    <2> TAKE j \in 1 .. Len(List)
    <2>1. After[List[j]] = Link(List, j + 1)
      BY <1>1 DEF IsList
    <2>2. CASE j + 1 \in 1 .. Len(List)
      <3>1. After[List[j]] = List[j + 1]
        BY <1>2, <2>1, <2>2 DEF Link
      <3>2. List[j + 1] = List[k] <=> j + 1 = k
        BY <1>1, <2>2 DEF IsList
      <3> QED BY <3>1, <3>2
    <2>3. CASE j + 1 \notin 1 .. Len(List)
      <3>1. After[List[j]] = NULL
        BY <1>2, <2>1, <2>3 DEF Link
      <3> QED BY <1>2, <2>3, <3>1, WordFacts
    <2> QED BY <2>2, <2>3
  <1>6. I = {k - 1}
    BY <1>3, <1>4, <1>5
  <1>7. Prev(List[k]) = List[IF I # {} THEN Min(I) ELSE 0]
    BY DEF Prev, SelectInSeq
  <1> HIDE DEF I
  <1>8. Min(I) = k - 1
    <2>1. \E m \in I : \A j \in I : m <= j
      BY <1>6
    <2>2. Min(I) \in I
      BY <2>1 DEF Min
    <2> QED BY <1>6, <2>2
  <1>9. Prev(List[k]) = List[k - 1]
    BY <1>6, <1>7, <1>8
  <1> QED BY <1>1, <1>4, <1>5, <1>9 DEF IsList

\* mp1_ioctl_remove unlinks a blink.
LEMMA RemoveStep ==
  ASSUME LibraryInv, NEW loc, mp1_ioctl_remove(loc)
  PROVE  LibraryInv'
  <1> DEFINE s == mp1_find_helper(loc)
  <1>1. s \in Slot /\ \E k \in 1 .. Len(List) : s = List[k]
    BY FindFacts DEF mp1_ioctl_remove
  <1>2. /\ blink_array' = Unlinked(s)
        /\ mp1_list_head' = IF mp1_list_head = s THEN blink_array[s].next ELSE mp1_list_head
        /\ zero' = zero
    BY DEF mp1_ioctl_remove
  <1> DEFINE points(t) == mp1_list_head # s /\ t = Prev(s)
  <1> HIDE DEF s, points
  <1>3. s \in Slot /\ blink_array \in [Slot -> Struct] /\ mp1_list_head \in Slot \cup {NULL}
    BY <1>1 DEF LibraryInv, LibraryType
  <1>4. Free \in Struct /\ Free.location = 0
    BY WordFacts DEF Free, Struct, Chars
  <1>5. /\ blink_array'[s] = Free
        /\ \A t \in Slot : t # s =>
             blink_array'[t] = IF points(t)
                               THEN [blink_array[t] EXCEPT !.next = blink_array[s].next]
                               ELSE blink_array[t]
    BY <1>2, <1>3 DEF Unlinked, points
  <1>6. \A t \in Slot : t # s =>
          /\ blink_array'[t] \in Struct
          /\ blink_array'[t].location = blink_array[t].location
          /\ blink_array'[t].on_length = blink_array[t].on_length
          /\ blink_array'[t].off_length = blink_array[t].off_length
          /\ blink_array'[t].countdown = blink_array[t].countdown
          /\ blink_array'[t].status = blink_array[t].status
          /\ blink_array'[t].next = IF points(t) THEN blink_array[s].next ELSE blink_array[t].next
    <2> TAKE t \in Slot
    <2> HAVE t # s
    <2>1. blink_array[t] \in Struct /\ blink_array[s].next \in Slot \cup {NULL}
      BY <1>3 DEF Struct
    <2>2. CASE points(t)
      <3>1. blink_array'[t] = [blink_array[t] EXCEPT !.next = blink_array[s].next]
        BY <1>5, <2>2
      <3> QED BY <2>1, <2>2, <3>1 DEF Struct
    <2>3. CASE ~points(t)
      BY <1>5, <2>1, <2>3
    <2> QED BY <2>2, <2>3
  <1>7. LibraryType'
    <2>1. \A t \in Slot : blink_array'[t] \in Struct
      BY <1>4, <1>5, <1>6
    <2>2. blink_array' = [t \in Slot |-> blink_array'[t]]
      BY <1>2 DEF Unlinked
    <2>3. mp1_list_head' \in Slot \cup {NULL}
      BY <1>2, <1>3 DEF Struct
    <2> QED BY <2>1, <2>2, <2>3 DEF LibraryType
  <1>8. Used' = Used \ {s}
    BY <1>4, <1>5, <1>6 DEF Used
  <1>9. ASSUME ~zero PROVE Linked'
    <2>1. LibraryType /\ Linked /\ IsList(List, After, mp1_list_head) /\ ToSet(List) = Used
      BY <1>9, ListFacts DEF LibraryInv
    <2>2. PICK k \in 1 .. Len(List) : s = List[k]
      BY <1>1
    <2>a. /\ After[s] = blink_array[s].next
          /\ \A t \in Slot : t # s => After'[t] = IF points(t) THEN After[s] ELSE After[t]
      BY <1>3, <1>6, WordFacts DEF After
    <2>b. \A j \in 1 .. Len(List) : points(List[j]) <=> After[List[j]] = s
      <3>1. CASE mp1_list_head # s
        BY <2>1, <2>2, <3>1, PrevFacts DEF points
      <3>2. CASE mp1_list_head = s
        <4> TAKE j \in 1 .. Len(List)
        <4>1. After[List[j]] = Link(List, j + 1) /\ s = Link(List, 1) /\ List \in Seq(Slot)
          BY <2>1, <3>2 DEF IsList
        <4>2. Link(List, j + 1) # s
          <5>1. CASE j + 1 \in 1 .. Len(List)
            <6>1. Link(List, j + 1) = List[j + 1] /\ s = List[1] /\ 1 \in 1 .. Len(List) /\ j + 1 # 1
              BY <4>1, <5>1 DEF Link
            <6> QED BY <2>1, <5>1, <6>1 DEF IsList
          <5>2. CASE j + 1 \notin 1 .. Len(List)
            BY <1>3, <4>1, <5>2, WordFacts DEF Link
          <5> QED BY <5>1, <5>2
        <4> QED BY <3>2, <4>1, <4>2 DEF points
      <3> QED BY <3>1, <3>2
    <2>3. \A j \in 1 .. Len(List) :
            j # k => After'[List[j]] = IF After[List[j]] = List[k] THEN After[List[k]]
                                       ELSE After[List[j]]
      <3> SUFFICES ASSUME NEW j \in 1 .. Len(List), j # k
                   PROVE  After'[List[j]] = IF After[List[j]] = s THEN After[s] ELSE After[List[j]]
        BY <2>2
      <3>1. List[j] \in Slot /\ List[j] # s
        BY <2>1, <2>2 DEF IsList
      <3> QED BY <2>a, <2>b, <3>1
    <2>4. /\ IsList(Without(List, k), After', IF mp1_list_head = s THEN After[s] ELSE mp1_list_head)
          /\ ToSet(Without(List, k)) = Used \ {s}
      BY <2>1, <2>2, <2>3, UnlinkList
    <2> QED BY <1>2, <1>8, <2>a, <2>2, <2>4 DEF Linked
  <1>10. OnTime'
    <2>1. Waits(Free)
      BY WordFacts DEF Waits, Free, Signed
    <2>2. \A t \in Slot : Waits(blink_array'[t])
      BY <1>5, <1>6, <2>1 DEF LibraryInv, OnTime, Waits
    <2> QED BY <2>2 DEF OnTime, Waits, Signed
  <1> QED BY <1>2, <1>7, <1>9, <1>10 DEF LibraryInv

\* The list stays as it is when the structures keep their locations and links.
LEMMA LinksKept ==
  ASSUME LibraryInv, UNCHANGED <<mp1_list_head, zero>>,
         \A t \in Slot : /\ blink_array'[t].location = blink_array[t].location
                         /\ blink_array'[t].next = blink_array[t].next
  PROVE  (zero \/ Linked)' /\ List' = List
  <1>1. ~zero => IsList(List, After, mp1_list_head) /\ ToSet(List) = Used
    BY ListFacts DEF LibraryInv
  <1>2. Used' = Used
    BY DEF Used
  <1>3. \A t \in Slot : After'[t] = After[t]
    BY DEF After
  <1>4. After' = After
    BY DEF After
  <1>5. List' = List
    BY <1>4 DEF List
  <1> QED BY <1>1, <1>2, <1>4, <1>5 DEF Linked

\* mp1_ioctl_sync copies lengths, countdown and status.
LEMMA SyncStep ==
  ASSUME LibraryInv, NEW first, NEW second, mp1_ioctl_sync(first, second)
  PROVE  LibraryInv' /\ List' = List
  <1> DEFINE f == mp1_find_helper(first)
             s == mp1_find_helper(second)
             r == Synced(blink_array[f], blink_array[s])
  <1>1. f \in Slot /\ s \in Slot
    BY FindFacts DEF mp1_ioctl_sync
  <1>2. blink_array' = [blink_array EXCEPT ![s] = r] /\ UNCHANGED <<mp1_list_head, zero>>
    BY DEF mp1_ioctl_sync
  <1> HIDE DEF f, s
  <1>3. f \in Slot /\ s \in Slot /\ blink_array \in [Slot -> Struct]
    BY <1>1 DEF LibraryInv, LibraryType
  <1>4. /\ r \in Struct /\ r.location = blink_array[s].location /\ r.next = blink_array[s].next
        /\ r.on_length = blink_array[f].on_length /\ r.off_length = blink_array[f].off_length
        /\ r.countdown = blink_array[f].countdown /\ r.status = blink_array[f].status
    BY <1>3 DEF Synced, Struct
  <1> HIDE DEF r
  <1>5. LibraryType'
    BY <1>2, <1>3, <1>4 DEF LibraryType, LibraryInv
  <1>6. blink_array'[s] = r /\ \A t \in Slot : t # s => blink_array'[t] = blink_array[t]
    BY <1>2, <1>3
  <1>7. (zero \/ Linked)' /\ List' = List
    BY <1>2, <1>4, <1>6, LinksKept
  <1>8. Waits(r)
    BY <1>1, <1>4 DEF LibraryInv, OnTime, Waits
  <1>9. \A t \in Slot : Waits(blink_array'[t])
    BY <1>6, <1>8 DEF LibraryInv, OnTime
  <1>10. OnTime'
    BY <1>9 DEF OnTime, Waits, Signed
  <1> QED BY <1>5, <1>7, <1>10 DEF LibraryInv

\* A tick keeps a blink within its phase.
LEMMA TickedFacts ==
  ASSUME NEW b \in Struct
  PROVE  /\ Ticked(b) \in Struct /\ Ticked(b).location = b.location /\ Ticked(b).next = b.next
         /\ Waits(b) => Waits(Ticked(b))
  <1>1. Decremented(b) \in Word
    BY WordFacts DEF Decremented, Struct, Word
  <1>2. Reload(b) \in Word
    BY DEF Reload, Struct
  <1>3. /\ Ticked(b) \in Struct /\ Ticked(b).location = b.location /\ Ticked(b).next = b.next
        /\ Ticked(b).on_length = b.on_length /\ Ticked(b).off_length = b.off_length
        /\ Ticked(b).countdown = IF Flips(b) THEN Reload(b) ELSE Decremented(b)
        /\ Ticked(b).status = IF Flips(b) THEN 1 - b.status ELSE b.status
    <2>1. 1 - b.status \in {0, 1}
      BY DEF Struct
    <2>2. CASE Flips(b)
      BY <1>2, <2>1, <2>2 DEF Ticked, Struct
    <2>3. CASE ~Flips(b)
      BY <1>1, <2>3 DEF Ticked, Struct
    <2> QED BY <2>2, <2>3
  <1>4. ASSUME Waits(b), Signed(b.on_length) > 0, Signed(b.off_length) > 0
        PROVE  Waits(Ticked(b))
    <2>1. /\ b.countdown \in 1 .. (IF b.status = 1 THEN b.on_length ELSE b.off_length)
          /\ b.on_length \in Word /\ b.off_length \in Word /\ b.status \in {0, 1}
      BY <1>4 DEF Waits, Struct
    <2>2. b.on_length < WORD \div 2 /\ b.off_length < WORD \div 2 /\ WORD \div 2 \in Nat
          /\ b.on_length > 0 /\ b.off_length > 0
      BY <1>4, <2>1, WordFacts DEF Signed, Word
    <2>3. b.countdown \in 1 .. WORD - 1 /\ b.countdown < WORD \div 2
      <3>1. CASE b.status = 1
        BY <2>1, <2>2, <3>1, WordFacts DEF Word
      <3>2. CASE b.status # 1
        BY <2>1, <2>2, <3>2, WordFacts DEF Word
      <3> QED BY <3>1, <3>2
    <2>4. Decremented(b) = b.countdown - 1
      BY <2>3 DEF Decremented
    <2>5. Signed(Decremented(b)) = b.countdown - 1
      BY <2>2, <2>3, <2>4 DEF Signed
    <2>6. CASE Flips(b)
      BY <1>3, <2>1, <2>2, <2>6 DEF Waits, Reload, Word
    <2>7. CASE ~Flips(b)
      <3>1. /\ Ticked(b).countdown = b.countdown - 1 /\ Ticked(b).status = b.status
            /\ b.countdown - 1 > 0
        BY <1>3, <2>3, <2>4, <2>5, <2>7 DEF Flips
      <3>2. CASE b.status = 1
        BY <1>3, <2>1, <2>2, <3>1, <3>2 DEF Waits, Word
      <3>3. CASE b.status # 1
        BY <1>3, <2>1, <2>2, <3>1, <3>3 DEF Waits, Word
      <3> QED BY <3>2, <3>3
    <2> QED BY <2>6, <2>7
  <1>5. Waits(b) => Waits(Ticked(b))
    <2> SUFFICES ASSUME Waits(b), Signed(b.on_length) > 0, Signed(b.off_length) > 0
                 PROVE  Waits(Ticked(b))
      BY <1>3 DEF Waits
    <2> QED BY <1>4
  <1> QED BY <1>3, <1>5

\* The tasklet counts down every blink of the list.
LEMMA TickStep ==
  ASSUME LibraryInv, mp1_rtc_tasklet
  PROVE  LibraryInv' /\ List' = List
  <1>1. /\ \A t \in Slot : blink_array'[t] = IF Contains(List, t) THEN Ticked(blink_array[t])
                                             ELSE blink_array[t]
        /\ blink_array' = [t \in Slot |-> blink_array'[t]] /\ UNCHANGED <<mp1_list_head, zero>>
    BY DEF mp1_rtc_tasklet
  <1>2. blink_array \in [Slot -> Struct] /\ mp1_list_head \in Slot \cup {NULL}
    BY DEF LibraryInv, LibraryType
  <1>3. \A t \in Slot : /\ blink_array'[t] \in Struct
                        /\ blink_array'[t].location = blink_array[t].location
                        /\ blink_array'[t].next = blink_array[t].next
                        /\ Waits(blink_array[t]) => Waits(blink_array'[t])
    BY <1>1, <1>2, TickedFacts
  <1>4. LibraryType'
    BY <1>1, <1>2, <1>3 DEF LibraryType
  <1>5. (zero \/ Linked)' /\ List' = List
    BY <1>1, <1>3, LinksKept
  <1>6. \A t \in Slot : Waits(blink_array'[t])
    BY <1>3 DEF LibraryInv, OnTime
  <1>7. OnTime'
    BY <1>6 DEF OnTime, Waits, Signed
  <1> QED BY <1>4, <1>5, <1>7 DEF LibraryInv

----------------------------------------------------------------------------
\* The fish program.

\* The two files, and where fish is in them.
TextType ==
  /\ file \in [Frames -> Seq({"a", "b", Space, NL})]
  /\ refused \subseteq Frames /\ c \in [Frames -> {"0", "a", "b", Space, NL}]
  /\ pos \in [Frames -> Nat] /\ \A n \in Frames : pos[n] <= Len(file[n])
  /\ row \in Nat /\ col \in Nat
  /\ struct \in Struct

\* While the third loop runs, the extra blink and the first cell of the picture
\* have the same lengths too: the next flip keeps them together.
Together ==
  LET f == mp1_find_helper(OFFSET)
      s == mp1_find_helper(EXTRA) IN
  stage = "wait3" /\ f # NULL /\ s # NULL =>
    /\ blink_array[f].countdown = blink_array[s].countdown
    /\ blink_array[f].status = blink_array[s].status
    /\ blink_array[f].on_length = blink_array[s].on_length
    /\ blink_array[f].off_length = blink_array[s].off_length

FishInv == LibraryInv /\ TextType

LEMMA FreeFacts == Free \in Struct /\ Free.location = 0
  BY WordFacts DEF Free, Struct, Chars

LEMMA FishInitial == Init => FishInv
  <1> SUFFICES ASSUME Init PROVE FishInv
    OBVIOUS
  <1>1. LibraryType
    BY FreeFacts DEF Init, LibraryInit, LibraryType
  <1>2. Used = {}
    BY FreeFacts DEF Init, LibraryInit, Used
  <1>3. Linked
    <2>1. IsList(<< >>, After, mp1_list_head)
      BY DEF IsList, Link, Init, LibraryInit
    <2>2. ToSet(<< >>) = {}
      BY DEF ToSet
    <2> QED BY <1>2, <2>1, <2>2 DEF Linked
  <1>4. OnTime
    <2>1. Waits(Free)
      BY WordFacts DEF Waits, Free, Signed
    <2>2. \A s \in Slot : blink_array[s] = Free
      BY DEF Init, LibraryInit
    <2> QED BY <2>1, <2>2 DEF OnTime
  <1>5. file \in [Frames -> Seq({"a", "b", Space, NL})]
    <2>1. ASSUME NEW g \in {"a", "b"} PROVE Text(g) \subseteq Seq({"a", "b", Space, NL})
      BY DEF Text
    <2>2. CASE stage = "any"
      <3>1. file = [n \in Frames |-> << >>]
        BY <2>2 DEF Init
      <3>2. << >> \in Seq({"a", "b", Space, NL})
        OBVIOUS
      <3> QED BY <3>1, <3>2
    <2>3. CASE stage # "any"
      <3>1. PICK f \in Text("a"), g \in Text("b") : file = [n \in Frames |-> IF n = 0 THEN f ELSE g]
        BY <2>3 DEF Init
      <3>2. f \in Seq({"a", "b", Space, NL}) /\ g \in Seq({"a", "b", Space, NL})
        BY <2>1
      <3> QED BY <3>1, <3>2
    <2> QED BY <2>2, <2>3
  <1>6. TextType
    BY <1>5, FreeFacts DEF TextType, Init
  <1> QED BY <1>1, <1>3, <1>4, <1>6 DEF FishInv, LibraryInv

\* A call of the library keeps what fish knows of its files.
LEMMA LibraryKept ==
  ASSUME LibraryInv, UNCHANGED library
  PROVE  LibraryInv'
  BY DEF library, LibraryInv, LibraryType, Linked, Used, After, OnTime, Waits, Signed

\* A step that changes only the stage.
LEMMA ReachKept ==
  ASSUME FishInv, NEW s, Reach(s)
  PROVE  FishInv'
  BY LibraryKept DEF Reach, FishInv, TextType, library

\* The characters of the files.
LEMMA CharFacts ==
  ASSUME TextType, NEW n \in Frames
  PROVE  /\ Char(n) \in {"0", "a", "b", Space, NL} /\ Shown(Char(n)) \in {"0", "a", "b", Space}
         /\ Pos(n) \in Nat /\ Pos(n) <= Len(file[n])
  <1>1. file[n] \in Seq({"a", "b", Space, NL}) /\ pos[n] \in Nat /\ pos[n] <= Len(file[n])
        /\ Len(file[n]) \in Nat /\ c[n] \in {"0", "a", "b", Space, NL}
    BY DEF TextType
  <1>2. CASE Stays(n) \/ AtEnd(n)
    BY <1>1, <1>2 DEF Char, Shown, Pos
  <1>3. CASE ~(Stays(n) \/ AtEnd(n))
    <2>1. pos[n] + 1 \in 1 .. Len(file[n])
      BY <1>1, <1>3 DEF AtEnd, Stays
    <2>2. file[n][pos[n] + 1] \in {"a", "b", Space, NL}
      BY <1>1, <2>1
    <2> QED BY <1>1, <1>3, <2>1, <2>2 DEF Char, Shown, Pos
  <1> QED BY <1>2, <1>3

\* A place in the picture is an unsigned short.
LEMMA LocationFacts ==
  ASSUME TextType
  PROVE  row * NUM_COLS \in Nat /\ Location \in Word /\ Location \in Nat
  <1>1. row * NUM_COLS \in Nat
    BY BlinkAssumption DEF TextType
  <1>2. row * NUM_COLS + col + OFFSET \in Nat
    BY <1>1, FishAssumption, CellsNat DEF TextType
  <1>3. \A n \in Nat : n % WORD \in 0 .. WORD - 1
    BY WordFacts
  <1> QED BY <1>1, <1>2, <1>3, WordFacts DEF Location, Word

\* The blinks fish and the other client make.
LEMMA MadeFacts ==
  ASSUME NEW l \in Nat, NEW on \in Chars, NEW off \in Chars, NEW m \in Word, NEW n \in Word
  PROVE  Filled(l, on, off, m, n) \in Struct /\ Filled(l, on, off, m, n).location = l
  BY FreeFacts DEF Filled, Struct

\* Every step of fish and of the other client keeps the list.
LEMMA FishStep == FishInv /\ [Next]_vars => FishInv'
  <1> SUFFICES ASSUME FishInv, [Next]_vars PROVE FishInv'
    OBVIOUS
  <1> USE DEF FishInv
  <1>1. CASE Opened \/ OpenFails
    BY <1>1, ReachKept DEF Opened, OpenFails
  <1>2. CASE FrameChar
    <2> DEFINE b == Filled(Location, Shown(Char(0)), Shown(Char(1)), LENGTH, LENGTH)
    <2>1. Location \in Nat
      BY LocationFacts
    <2>2. Shown(Char(0)) \in Chars /\ Shown(Char(1)) \in Chars /\ LENGTH \in Word
      <3>1. 0 \in Frames /\ 1 \in Frames
        BY DEF Frames
      <3>2. Shown(Char(0)) \in {"0", "a", "b", Space} /\ Shown(Char(1)) \in {"0", "a", "b", Space}
        BY <3>1, CharFacts
      <3> QED BY <3>2, FishAssumption DEF Chars, Word
    <2>3. b \in Struct
      BY <2>1, <2>2, MadeFacts
    <2>4. mp1_ioctl_add(b) \/ UNCHANGED library
      BY <1>2 DEF FrameChar
    <2> HIDE DEF b
    <2>5. LibraryInv'
      BY <2>3, <2>4, AddStep, LibraryKept
    <2>6. /\ \A n \in Frames : pos'[n] \in Nat /\ pos'[n] <= Len(file[n])
          /\ pos' \in [Frames -> Nat] /\ col' \in Nat /\ UNCHANGED <<file, refused, row, struct>>
          /\ c' \in [Frames -> {"0", "a", "b", Space, NL}]
      BY <1>2, CharFacts DEF FrameChar, Column, TextType
    <2> QED BY <2>5, <2>6 DEF TextType
  <1>3. CASE FrameRow
    <2>1. /\ \A n \in Frames : pos'[n] \in Nat /\ pos'[n] <= Len(file[n])
          /\ pos' \in [Frames -> Nat] /\ col' \in Nat /\ row' \in Nat
          /\ UNCHANGED <<file, refused, struct, library>>
          /\ c' \in [Frames -> {"0", "a", "b", Space, NL}]
      BY <1>3, CharFacts DEF FrameRow, TextType, library
    <2> QED BY <2>1, LibraryKept DEF TextType
  <1>4. ASSUME NEW k \in 1 .. 4, Wait(k) PROVE FishInv'
    <2>1. CASE Reach("hung")
      BY <2>1, ReachKept
    <2>2. CASE mp1_rtc_tasklet /\ UNCHANGED <<file, refused, pos, c, row, col, struct>>
      BY <2>2, TickStep DEF TextType
    <2> QED BY <1>4, <2>1, <2>2 DEF Wait
  <1>5. ASSUME NEW k \in 1 .. 4, Ioctl(k) PROVE FishInv'
    <2>1. Extra \in Struct
      <3>1. EXTRA \in Nat /\ EXTRA_ON \in Word /\ EXTRA_OFF \in Word
        BY FishAssumption, CellsNat DEF Word
      <3>2. "I" \in Chars /\ "M" \in Chars
        BY DEF Chars
      <3> QED BY <3>1, <3>2, MadeFacts DEF Extra
    <2>2. UNCHANGED <<file, refused, pos, c, row, col, struct>>
      BY <1>5 DEF Ioctl
    <2>3. LibraryInv'
      BY <1>5, <2>1, AddStep, SyncStep, RemoveStep, LibraryKept DEF Ioctl
    <2> QED BY <2>2, <2>3 DEF TextType
  <1>6. ASSUME NEW l \in 0 .. Cells, NEW on \in Lengths, NEW off \in Lengths, AnyAdd(l, on, off)
        PROVE  FishInv'
    <2> DEFINE b == Filled(l, "x", "y", on, off)
    <2>1. b \in Struct
      <3>1. l \in Nat /\ on \in Word /\ off \in Word
        BY FishAssumption, CellsNat DEF Word
      <3>2. "x" \in Chars /\ "y" \in Chars
        BY DEF Chars
      <3> QED BY <3>1, <3>2, MadeFacts
    <2>2. mp1_ioctl_add(b) /\ UNCHANGED <<file, refused, pos, c, row, col, struct>>
      BY <1>6 DEF AnyAdd, Called
    <2> HIDE DEF b
    <2> QED BY <2>1, <2>2, AddStep DEF TextType
  <1>7. ASSUME NEW l \in 0 .. Cells, AnyRemove(l) PROVE FishInv'
    BY <1>7, RemoveStep DEF AnyRemove, Called, TextType
  <1>8. ASSUME NEW l \in 0 .. Cells, NEW m \in 0 .. Cells, AnySync(l, m) PROVE FishInv'
    BY <1>8, SyncStep DEF AnySync, Called, TextType
  <1>9. CASE AnyTick
    BY <1>9, TickStep DEF AnyTick, Called, TextType
  <1>10. ASSUME NEW l \in 0 .. Cells, AnyFind(l) PROVE FishInv'
    <2> DEFINE t == [struct EXCEPT !.location = l]
    <2>1. t \in Struct
      <3>1. struct \in Struct /\ l \in Nat
        BY CellsNat DEF TextType
      <3> QED BY <3>1 DEF Struct
    <2>2. mp1_ioctl_find(t) \in Struct
      <3> HIDE DEF t
      <3>1. CASE mp1_find_helper(t.location) = NULL
        BY <2>1, <3>1 DEF mp1_ioctl_find
      <3>2. CASE mp1_find_helper(t.location) # NULL
        BY <3>2, FindFacts DEF mp1_ioctl_find, LibraryInv, LibraryType
      <3> QED BY <3>1, <3>2
    <2>3. struct' = mp1_ioctl_find(t) /\ UNCHANGED <<file, refused, pos, c, row, col>> /\ UNCHANGED library
      BY <1>10 DEF AnyFind, Called
    <2> HIDE DEF t
    <2> QED BY <2>2, <2>3, LibraryKept DEF TextType
  <1>11. CASE AnyAgain
    BY <1>11, AddStep DEF AnyAgain, Called, TextType
  <1>12. CASE AnyHangs
    BY <1>12, ReachKept DEF AnyHangs
  <1>13. CASE UNCHANGED vars
    BY <1>13, LibraryKept DEF vars, fish, TextType
  <1> QED BY <1>1, <1>2, <1>3, <1>4, <1>5, <1>6, <1>7, <1>8, <1>9, <1>10, <1>11, <1>12, <1>13
          DEF Next, Main, Other

\* Whatever fish and any other client of blink.S do, as long as no blink comes to
\* location 0 the list ends, meets no structure twice and holds exactly the structures
\* in use: mp1_malloc gives out no linked structure, mp1_ioctl_remove loses none.
THEOREM ListCorrect == Spec => []ListSound
  <1>1. FishInv => ListSound
    BY SoundFacts DEF FishInv
  <1> QED BY <1>1, FishInitial, FishStep, PTL DEF Spec

\* No blink waits longer than its phase, whatever comes between two ticks.
THEOREM TimelyCorrect == Spec => []Timely
  <1>1. FishInv => Timely
    BY SoundFacts DEF FishInv
  <1> QED BY <1>1, FishInitial, FishStep, PTL DEF Spec

\* What is found depends on the list and the locations only.
LEMMA FoundSame ==
  ASSUME LibraryInv, List' = List,
         \A t \in Slot : blink_array'[t].location = blink_array[t].location,
         NEW CONSTANT loc
  PROVE  mp1_find_helper(loc)' = mp1_find_helper(loc)
  <1> DEFINE I == {k \in 1 .. Len(List) : blink_array[List[k]].location = loc}
             found(J) == IF (IF J # {} THEN Min(J) ELSE 0) = 0 THEN NULL
                         ELSE List[IF J # {} THEN Min(J) ELSE 0]
             J2 == {k \in 1 .. Len(List) : blink_array'[List[k]].location = loc}
  <1>1. mp1_find_helper(loc) = found(I)
    BY DEF mp1_find_helper, SelectInSeq
  <1>2. mp1_find_helper(loc)' = found(J2)
    BY DEF mp1_find_helper, SelectInSeq
  <1>3. \A k \in 1 .. Len(List) : List[k] \in Slot
    BY ListSeq DEF LibraryInv
  <1>4. J2 = I
    BY <1>3
  <1> HIDE DEF I, J2, found
  <1> QED BY <1>1, <1>2, <1>4

\* The extra blink and the first cell of the picture stay together.
LEMMA TogetherStep == FishInv /\ Together /\ [Next]_vars => Together'
  <1> SUFFICES ASSUME FishInv, Together, [Next]_vars, stage' = "wait3" PROVE Together'
    BY DEF Together
  <1> DEFINE f == mp1_find_helper(OFFSET)
             s == mp1_find_helper(EXTRA)
  <1>1. ASSUME mp1_rtc_tasklet, stage = "wait3" PROVE Together'
    <2>1. List' = List
      BY <1>1, TickStep DEF FishInv
    <2>2. blink_array \in [Slot -> Struct]
      BY DEF FishInv, LibraryInv, LibraryType
    <2>3. \A t \in Slot : blink_array'[t] = IF Contains(List, t) THEN Ticked(blink_array[t])
                                            ELSE blink_array[t]
      BY <1>1 DEF mp1_rtc_tasklet
    <2>4. \A t \in Slot : blink_array'[t].location = blink_array[t].location
      BY <2>2, <2>3, TickedFacts
    <2>5. f' = f /\ s' = s
      BY <2>1, <2>4, FoundSame DEF FishInv
    <2>6. ASSUME f # NULL, s # NULL
          PROVE  /\ blink_array'[f].countdown = blink_array'[s].countdown
                 /\ blink_array'[f].status = blink_array'[s].status
                 /\ blink_array'[f].on_length = blink_array'[s].on_length
                 /\ blink_array'[f].off_length = blink_array'[s].off_length
      <3>1. f \in Slot /\ s \in Slot /\ Contains(List, f) /\ Contains(List, s)
        BY <2>6, FindFacts DEF FishInv, Contains
      <3>2. /\ blink_array[f].countdown = blink_array[s].countdown
            /\ blink_array[f].status = blink_array[s].status
            /\ blink_array[f].on_length = blink_array[s].on_length
            /\ blink_array[f].off_length = blink_array[s].off_length
        BY <1>1, <2>6 DEF Together
      <3> HIDE DEF f, s
      <3>3. blink_array'[f] = Ticked(blink_array[f]) /\ blink_array'[s] = Ticked(blink_array[s])
        BY <2>3, <3>1
      <3>4. blink_array[f] \in Struct /\ blink_array[s] \in Struct
        BY <2>2, <3>1
      <3>5. /\ Flips(blink_array[f]) <=> Flips(blink_array[s])
            /\ Decremented(blink_array[f]) = Decremented(blink_array[s])
            /\ Reload(blink_array[f]) = Reload(blink_array[s])
        BY <3>2 DEF Flips, Decremented, Reload
      <3>6. \A b \in Struct : /\ Ticked(b).countdown = IF Flips(b) THEN Reload(b) ELSE Decremented(b)
                              /\ Ticked(b).status = IF Flips(b) THEN 1 - b.status ELSE b.status
                              /\ Ticked(b).on_length = b.on_length
                              /\ Ticked(b).off_length = b.off_length
        BY DEF Ticked, Struct
      <3> QED BY <3>2, <3>3, <3>4, <3>5, <3>6
    <2> HIDE DEF f, s
    <2> QED BY <2>5, <2>6 DEF Together, f, s
  <1>2. ASSUME mp1_ioctl_sync(OFFSET, EXTRA) PROVE Together'
    <2>1. f \in Slot /\ s \in Slot
      BY <1>2, FindFacts DEF mp1_ioctl_sync, FishInv
    <2>2. blink_array' = [blink_array EXCEPT ![s] = Synced(blink_array[f], blink_array[s])]
      BY <1>2 DEF mp1_ioctl_sync
    <2>3. List' = List
      BY <1>2, SyncStep DEF FishInv
    <2> HIDE DEF f, s
    <2>4. f \in Slot /\ s \in Slot /\ blink_array \in [Slot -> Struct]
      BY <2>1 DEF FishInv, LibraryInv, LibraryType
    <2>5. \A t \in Slot : blink_array'[t].location = blink_array[t].location
      BY <2>2, <2>4 DEF Synced, Struct
    <2>6. f' = f /\ s' = s
      BY <2>3, <2>5, FoundSame DEF FishInv, f, s
    <2>7. /\ blink_array'[s] = Synced(blink_array[f], blink_array[s])
          /\ f # s => blink_array'[f] = blink_array[f]
      BY <2>2, <2>4
    <2>8. /\ blink_array'[f].countdown = blink_array'[s].countdown
          /\ blink_array'[f].status = blink_array'[s].status
          /\ blink_array'[f].on_length = blink_array'[s].on_length
          /\ blink_array'[f].off_length = blink_array'[s].off_length
      <3>1. CASE f = s
        BY <3>1
      <3>2. CASE f # s
        BY <2>4, <2>7, <3>2 DEF Synced, Struct
      <3> QED BY <3>1, <3>2
    <2> QED BY <2>6, <2>8 DEF Together, f, s
  <1>3. ASSUME UNCHANGED library, stage = "wait3" \/ NULL \in {f, s} PROVE Together'
    <2>1. blink_array' = blink_array /\ List' = List
      BY <1>3 DEF library, List, After
    <2>2. f' = f /\ s' = s
      BY <2>1, FoundSame DEF FishInv
    <2> HIDE DEF f, s
    <2> QED BY <1>3, <2>1, <2>2 DEF Together, f, s
  <1>4. ASSUME NEW k \in 1 .. 4, Wait(k) PROVE Together'
    <2>1. stage = "wait3" /\ mp1_rtc_tasklet
      BY <1>4 DEF Wait, Reach
    <2> QED BY <1>1, <2>1
  <1>5. ASSUME NEW k \in 1 .. 4, Ioctl(k) PROVE Together'
    <2>1. k = 2
      BY <1>5 DEF Ioctl, Loops
    <2>2. mp1_ioctl_sync(OFFSET, EXTRA) \/ (NULL \in {f, s} /\ UNCHANGED library)
      BY <1>5, <2>1 DEF Ioctl, Nothing
    <2> QED BY <1>2, <1>3, <2>2
  <1>6. ~(Opened \/ OpenFails \/ FrameChar \/ FrameRow)
    BY DEF Opened, OpenFails, FrameChar, FrameRow, Reach
  <1>7. ~Other
    BY DEF Other, AnyAdd, AnyRemove, AnyFind, AnySync, AnyTick, AnyAgain, AnyHangs, Called, MayCall,
           Reach
  <1>8. CASE UNCHANGED vars
    BY <1>3, <1>8 DEF vars, fish
  <1> QED BY <1>4, <1>5, <1>6, <1>7, <1>8 DEF Next, Main

\* Once synchronised, the extra blink keeps in step with the picture.
THEOREM InStepCorrect == Spec => []InStep
  <1>1. Init => Together
    <2>1. Init => stage \in {"start", "any"}
      BY FishAssumption DEF Init
    <2> QED BY <2>1 DEF Together
  <1>2. Together => InStep
    BY DEF Together, InStep
  <1> QED BY <1>1, <1>2, FishInitial, FishStep, TogetherStep, PTL DEF Spec

----------------------------------------------------------------------------
\* Rows and columns of a text.

\* The row goes up by one after every end of a line.
LEMMA RowFacts ==
  ASSUME NEW t, NEW n \in Nat \ {0}
  PROVE  /\ RowOf(t, n) \in Nat
         /\ RowOf(t, n + 1) = IF t[n] = NL THEN RowOf(t, n) + 1 ELSE RowOf(t, n)
  <1> DEFINE R(m) == {j \in 1 .. m - 1 : t[j] = NL}
  <1>1. IsFiniteSet(1 .. n - 1)
    BY FS_Interval
  <1>2. IsFiniteSet(R(n)) /\ Cardinality(R(n)) \in Nat
    BY <1>1, FS_Subset, FS_CardinalityType
  <1>3. RowOf(t, n) = Cardinality(R(n)) /\ RowOf(t, n + 1) = Cardinality(R(n + 1))
    BY DEF RowOf
  <1>4. R(n + 1) = (IF t[n] = NL THEN R(n) \cup {n} ELSE R(n)) /\ n \notin R(n)
    OBVIOUS
  <1> HIDE DEF R
  <1>5. Cardinality(R(n) \cup {n}) = Cardinality(R(n)) + 1
    BY <1>2, <1>4, FS_AddElement
  <1> QED BY <1>2, <1>3, <1>4, <1>5

\* Rows are counted upwards.
LEMMA RowMonotone ==
  ASSUME NEW t, NEW m \in Nat \ {0}, NEW n \in Nat \ {0}, m <= n
  PROVE  RowOf(t, m) <= RowOf(t, n)
  <1> DEFINE R(x) == {j \in 1 .. x - 1 : t[j] = NL}
  <1>1. IsFiniteSet(1 .. n - 1)
    BY FS_Interval
  <1>2. IsFiniteSet(R(n))
    BY <1>1, FS_Subset
  <1>3. R(m) \subseteq R(n)
    OBVIOUS
  <1>4. RowOf(t, n) = Cardinality(R(n)) /\ RowOf(t, m) = Cardinality(R(m))
    BY DEF RowOf
  <1> HIDE DEF R
  <1> QED BY <1>2, <1>3, <1>4, FS_Subset

\* The column goes up by one after every character of a line.
LEMMA ColFacts ==
  ASSUME NEW t, NEW n \in Nat \ {0}
  PROVE  /\ ColOf(t, n) \in Nat
         /\ ColOf(t, n + 1) = IF t[n] = NL THEN 0 ELSE ColOf(t, n) + 1
  <1> DEFINE K(m) == {j \in 1 .. m - 1 : RowOf(t, j) = RowOf(t, m) /\ t[j] # NL}
  <1>1. IsFiniteSet(1 .. n - 1)
    BY FS_Interval
  <1>2. IsFiniteSet(K(n)) /\ Cardinality(K(n)) \in Nat
    BY <1>1, FS_Subset, FS_CardinalityType
  <1>3. ColOf(t, n) = Cardinality(K(n)) /\ ColOf(t, n + 1) = Cardinality(K(n + 1))
    BY DEF ColOf
  <1>4. n \notin K(n)
    OBVIOUS
  <1>5. CASE t[n] = NL
    <2>1. \A j \in 1 .. n : RowOf(t, j) < RowOf(t, n + 1)
      <3> SUFFICES ASSUME NEW j \in 1 .. n PROVE RowOf(t, j) < RowOf(t, n + 1)
        OBVIOUS
      <3>1. RowOf(t, j) <= RowOf(t, n) /\ RowOf(t, j) \in Nat /\ RowOf(t, n) \in Nat
        BY RowMonotone, RowFacts
      <3>2. RowOf(t, n + 1) = RowOf(t, n) + 1
        BY <1>5, RowFacts
      <3> QED BY <3>1, <3>2
    <2>2. \A j \in 1 .. n : RowOf(t, j) \in Nat
      BY RowFacts
    <2>3. RowOf(t, n + 1) \in Nat
      BY RowFacts
    <2>4. K(n + 1) = {}
      BY <2>1, <2>2, <2>3
    <2> HIDE DEF K
    <2> QED BY <1>2, <1>3, <1>5, <2>4, FS_EmptySet
  <1>6. CASE t[n] # NL
    <2>1. RowOf(t, n + 1) = RowOf(t, n)
      BY <1>6, RowFacts
    <2>2. K(n + 1) = K(n) \cup {n}
      BY <1>6, <2>1
    <2> HIDE DEF K
    <2> QED BY <1>2, <1>3, <1>4, <1>6, <2>2, FS_AddElement
  <1> QED BY <1>5, <1>6

\* Columns are counted upwards in a row.
LEMMA ColMonotone ==
  ASSUME NEW t, NEW m \in Nat \ {0}, NEW n \in Nat \ {0}, m <= n, RowOf(t, m) = RowOf(t, n)
  PROVE  ColOf(t, m) <= ColOf(t, n)
  <1> DEFINE K(x) == {j \in 1 .. x - 1 : RowOf(t, j) = RowOf(t, x) /\ t[j] # NL}
  <1>1. IsFiniteSet(1 .. n - 1)
    BY FS_Interval
  <1>2. IsFiniteSet(K(n))
    BY <1>1, FS_Subset
  <1>3. K(m) \subseteq K(n)
    OBVIOUS
  <1>4. ColOf(t, n) = Cardinality(K(n)) /\ ColOf(t, m) = Cardinality(K(m))
    BY DEF ColOf
  <1> HIDE DEF K
  <1> QED BY <1>2, <1>3, <1>4, FS_Subset

\* No two characters have the same row and column.
LEMMA OnePlace ==
  ASSUME NEW t, NEW m \in Nat \ {0}, NEW n \in Nat \ {0}, t[m] # NL, t[n] # NL,
         RowOf(t, m) = RowOf(t, n), ColOf(t, m) = ColOf(t, n)
  PROVE  m = n
  <1>1. ASSUME NEW x \in Nat \ {0}, NEW y \in Nat \ {0}, t[x] # NL, x < y,
               RowOf(t, x) = RowOf(t, y)
        PROVE  ColOf(t, x) < ColOf(t, y)
    <2>1. x + 1 \in Nat \ {0} /\ x + 1 <= y
      BY <1>1
    <2>2. RowOf(t, x + 1) = RowOf(t, y) /\ ColOf(t, x + 1) = ColOf(t, x) + 1 /\ ColOf(t, x) \in Nat
      BY <1>1, RowFacts, ColFacts
    <2>3. ColOf(t, x + 1) <= ColOf(t, y) /\ ColOf(t, y) \in Nat
      BY <2>1, <2>2, ColMonotone, ColFacts
    <2> QED BY <2>2, <2>3
  <1>2. ~(ColOf(t, m) < ColOf(t, n)) /\ ~(ColOf(t, n) < ColOf(t, m))
    BY ColFacts
  <1>3. ~(m < n) /\ ~(n < m)
    BY <1>1, <1>2
  <1> QED BY <1>3

\* The picture of a text has its characters in their places, and is blank elsewhere.
LEMMA AtFacts ==
  ASSUME NEW t, NEW n \in Nat, DOMAIN t = 1 .. n
  PROVE  /\ \A j \in 1 .. n : t[j] # NL => At(t, RowOf(t, j), ColOf(t, j)) = t[j]
         /\ \A r, k : At(t, r, k) # Space =>
              \E j \in 1 .. n : t[j] # NL /\ RowOf(t, j) = r /\ ColOf(t, j) = k
  <1>1. ASSUME NEW j \in 1 .. n, t[j] # NL PROVE At(t, RowOf(t, j), ColOf(t, j)) = t[j]
    <2> DEFINE P(m) == t[m] # NL /\ RowOf(t, m) = RowOf(t, j) /\ ColOf(t, m) = ColOf(t, j)
    <2>1. \A m \in 1 .. n : P(m) => m = j
      BY <1>1, OnePlace
    <2>2. P(j) /\ j \in DOMAIN t
      BY <1>1
    <2>3. (CHOOSE m \in DOMAIN t : P(m)) = j
      BY <2>1, <2>2
    <2>4. At(t, RowOf(t, j), ColOf(t, j)) =
            IF \E m \in DOMAIN t : P(m) THEN t[CHOOSE m \in DOMAIN t : P(m)] ELSE Space
      BY DEF At
    <2> HIDE DEF P
    <2> QED BY <2>2, <2>3, <2>4
  <1>2. ASSUME NEW r, NEW k, At(t, r, k) # Space
        PROVE  \E j \in 1 .. n : t[j] # NL /\ RowOf(t, j) = r /\ ColOf(t, j) = k
    BY <1>2 DEF At
  <1> QED BY <1>1, <1>2

----------------------------------------------------------------------------
\* add_frames reads the two files side by side.

\* In reading order, row x and column y come before row r and column k.
Earlier(x, y, r, k) == x < r \/ (x = r /\ y < k)

\* Where the reading of a text stands at row r and column k: p characters have
\* been read, the last was ch, end tells whether the end was met.
Reading(t, p, ch, end, r, k) ==
  /\ \A j \in 1 .. p : t[j] # NL => Earlier(RowOf(t, j), ColOf(t, j), r, k)
  /\ ~end /\ ch # NL => RowOf(t, p + 1) = r /\ ColOf(t, p + 1) = k
  /\ ~end /\ ch = NL => RowOf(t, p + 1) = r + 1 /\ ColOf(t, p + 1) = 0
  /\ end => p = Len(t) /\ ch = NL

\* A file that cannot be read keeps fish in its row for ever.
Early == {"start", "frames"}
Waiting == {"wait1", "wait2", "wait3", "wait4"}
ReadInv ==
  /\ eof \in [Frames -> BOOLEAN]
  /\ stage \in Early /\ refused = {} =>
       \A n \in Frames : Reading(file[n], pos[n], c[n], eof[n], row, col)
  /\ refused # {} => stage \notin Waiting
  /\ stage \in Early => \A n \in refused : c[n] = "0" /\ ~eof[n]

\* A round of the inner loop looks at the character of the row and column it
\* counts, in either file, and once both rows have ended nothing of them is left.
LEMMA RoundFacts ==
  ASSUME TextType, eof \in [Frames -> BOOLEAN], NEW n \in Frames, refused = {},
         Reading(file[n], pos[n], c[n], eof[n], row, col)
  PROVE  /\ At(file[n], row, col) = Shown(Char(n))
         /\ \A j \in 1 .. Len(file[n]) :
              Char(n) = NL /\ file[n][j] # NL /\ RowOf(file[n], j) = row => ColOf(file[n], j) < col
         /\ Reading(file[n], Pos(n), Char(n), Eof(n), row, col + 1)
         /\ Char(n) \notin {Space, NL} =>
              \E j \in 1 .. Len(file[n]) :
                file[n][j] # NL /\ RowOf(file[n], j) = row /\ ColOf(file[n], j) = col
  <1> DEFINE t == file[n]
             p == pos[n]
             m == Len(file[n])
  <1>1. /\ t \in Seq({"a", "b", Space, NL}) /\ p \in Nat /\ m \in Nat /\ p <= m
        /\ DOMAIN t = 1 .. m /\ row \in Nat /\ col \in Nat /\ eof[n] \in BOOLEAN
    BY DEF TextType
  <1>2. \A j \in Nat \ {0} : RowOf(t, j) \in Nat /\ ColOf(t, j) \in Nat
    BY RowFacts, ColFacts
  <1>3. \A j \in 1 .. p : t[j] # NL => Earlier(RowOf(t, j), ColOf(t, j), row, col)
    BY DEF Reading
  <1>4. \A j \in 1 .. p : t[j] # NL => Earlier(RowOf(t, j), ColOf(t, j), row, col + 1)
    <2> SUFFICES ASSUME NEW j \in 1 .. p, t[j] # NL
                 PROVE  Earlier(RowOf(t, j), ColOf(t, j), row, col + 1)
      OBVIOUS
    <2>1. Earlier(RowOf(t, j), ColOf(t, j), row, col)
      BY <1>3
    <2>2. ColOf(t, j) \in Nat
      BY <1>1, <1>2
    <2>3. \A y \in Nat : y < col => y < col + 1
      BY <1>1
    <2> QED BY <2>1, <2>2, <2>3 DEF Earlier
  <1>5. \A j \in 1 .. p : t[j] # NL /\ RowOf(t, j) = row => ColOf(t, j) < col
    BY <1>1, <1>2, <1>3 DEF Earlier
  <1>7. \A r, k : At(t, r, k) # Space =>
          \E j \in 1 .. m : t[j] # NL /\ RowOf(t, j) = r /\ ColOf(t, j) = k
    <2> HIDE DEF t, m
    <2> QED BY <1>1, AtFacts
  <1>8. CASE c[n] = NL \/ AtEnd(n)
    <2>1. Char(n) = NL /\ Pos(n) = p /\ Shown(Char(n)) = Space
      BY <1>8 DEF Char, Pos, Shown, Stays
    <2>2. ASSUME NEW j \in 1 .. m, j > p PROVE RowOf(t, j) > row
      <3>1. p # m
        BY <1>1, <2>2
      <3>2. c[n] = NL /\ ~eof[n]
        BY <1>8, <3>1 DEF AtEnd, Reading
      <3>3. RowOf(t, p + 1) = row + 1
        BY <3>2 DEF Reading
      <3> HIDE DEF t, p, m
      <3>4. p + 1 \in Nat \ {0} /\ j \in Nat \ {0} /\ p + 1 <= j
        BY <1>1, <2>2
      <3>5. row + 1 <= RowOf(t, j)
        BY <3>3, <3>4, RowMonotone
      <3>6. RowOf(t, j) \in Nat
        BY <1>2, <3>4
      <3>7. \A x \in Nat : row + 1 <= x => x > row
        BY <1>1
      <3> QED BY <3>5, <3>6, <3>7
    <2>3. \A j \in 1 .. m : t[j] # NL /\ RowOf(t, j) = row => ColOf(t, j) < col
      <3> HIDE DEF t, p, m
      <3> SUFFICES ASSUME NEW j \in 1 .. m, t[j] # NL, RowOf(t, j) = row PROVE ColOf(t, j) < col
        OBVIOUS
      <3>1. ~(j > p)
        BY <1>1, <2>2
      <3>2. j \in 1 .. p
        BY <1>1, <3>1
      <3> QED BY <1>5, <3>2
    <2>4. At(t, row, col) = Space
      <3> HIDE DEF t, p, m
      <3>1. \A j \in 1 .. m : j \in Nat \ {0}
        BY <1>1
      <3> QED BY <1>1, <1>2, <1>7, <2>3, <3>1
    <2>5. Reading(t, p, NL, Eof(n), row, col + 1)
      <3>1. CASE c[n] = NL
        <4>1. Eof(n) <=> eof[n]
          BY <3>1 DEF Eof
        <4> QED BY <1>4, <3>1, <4>1 DEF Reading
      <3>2. CASE c[n] # NL
        <4>1. p = m /\ Eof(n)
          BY <1>8, <3>2 DEF Eof, AtEnd
        <4> QED BY <1>4, <4>1 DEF Reading
      <3> QED BY <3>1, <3>2
    <2> QED BY <2>1, <2>3, <2>4, <2>5
  <1>9. CASE c[n] # NL /\ ~AtEnd(n)
    <2>1. /\ Char(n) = t[p + 1] /\ Pos(n) = p + 1 /\ ~eof[n] /\ ~Eof(n)
          /\ RowOf(t, p + 1) = row /\ ColOf(t, p + 1) = col
      BY <1>9 DEF Char, Pos, Eof, AtEnd, Reading, Stays
    <2>2. p + 1 \in 1 .. m /\ p + 1 \in Nat \ {0} /\ t[p + 1] \in {"a", "b", Space, NL}
      BY <1>1, <1>9 DEF AtEnd
    <2> HIDE DEF t, p, m
    <2>3. CASE t[p + 1] # NL
      <3>1. RowOf(t, p + 2) = row /\ ColOf(t, p + 2) = col + 1
        <4>1. RowOf(t, (p + 1) + 1) = row /\ ColOf(t, (p + 1) + 1) = col + 1
          BY <2>1, <2>2, <2>3, RowFacts, ColFacts
        <4> QED BY <1>1, <4>1
      <3>2. \A j \in 1 .. p + 1 : t[j] # NL => Earlier(RowOf(t, j), ColOf(t, j), row, col + 1)
        <4>1. Earlier(RowOf(t, p + 1), ColOf(t, p + 1), row, col + 1)
          BY <1>1, <2>1 DEF Earlier
        <4>2. \A j \in 1 .. p + 1 : j = p + 1 \/ j \in 1 .. p
          BY <1>1
        <4> QED BY <1>4, <4>1, <4>2
      <3>3. At(t, row, col) = t[p + 1]
        BY <1>1, <2>1, <2>2, <2>3, AtFacts
      <3>4. Reading(t, p + 1, Char(n), Eof(n), row, col + 1)
        <4>1. (p + 1) + 1 = p + 2
          BY <1>1
        <4> QED BY <2>1, <2>3, <3>1, <3>2, <4>1 DEF Reading
      <3> QED BY <2>1, <2>2, <2>3, <3>3, <3>4 DEF Shown, t, m
    <2>4. CASE t[p + 1] = NL
      <3>1. RowOf(t, p + 2) = row + 1 /\ ColOf(t, p + 2) = 0
        <4>1. RowOf(t, (p + 1) + 1) = row + 1 /\ ColOf(t, (p + 1) + 1) = 0
          BY <2>1, <2>2, <2>4, RowFacts, ColFacts
        <4> QED BY <1>1, <4>1
      <3>2. ASSUME NEW j \in 1 .. m, j > p, t[j] # NL PROVE RowOf(t, j) > row
        <4>1. p + 2 \in Nat \ {0} /\ j \in Nat \ {0} /\ p + 2 <= j
          <5>1. j # p + 1
            BY <2>4, <3>2
          <5> QED BY <1>1, <3>2, <5>1
        <4>2. RowOf(t, p + 2) <= RowOf(t, j)
          BY <4>1, RowMonotone
        <4> QED BY <1>1, <1>2, <3>1, <4>1, <4>2
      <3>3. \A j \in 1 .. m : t[j] # NL /\ RowOf(t, j) = row => ColOf(t, j) < col
        <4> SUFFICES ASSUME NEW j \in 1 .. m, t[j] # NL, RowOf(t, j) = row PROVE ColOf(t, j) < col
          OBVIOUS
        <4>1. ~(j > p)
          BY <1>1, <3>2
        <4>2. j \in 1 .. p
          BY <1>1, <4>1
        <4> QED BY <1>5, <4>2
      <3>4. At(t, row, col) = Space
        <4>1. \A j \in 1 .. m : j \in Nat \ {0}
          BY <1>1
        <4> QED BY <1>1, <1>2, <1>7, <3>3, <4>1
      <3>5. \A j \in 1 .. p + 1 : t[j] # NL => Earlier(RowOf(t, j), ColOf(t, j), row, col + 1)
        <4>1. \A j \in 1 .. p + 1 : j = p + 1 \/ j \in 1 .. p
          BY <1>1
        <4> QED BY <1>4, <2>4, <4>1
      <3>6. Reading(t, p + 1, Char(n), Eof(n), row, col + 1)
        <4>1. (p + 1) + 1 = p + 2
          BY <1>1
        <4> QED BY <2>1, <2>4, <3>1, <3>5, <4>1 DEF Reading
      <3> QED BY <2>1, <2>4, <3>3, <3>4, <3>6 DEF Shown, t, m
    <2> QED BY <2>3, <2>4
  <1> QED BY <1>8, <1>9

LEMMA ReadInitial == Init => ReadInv
  <1> SUFFICES ASSUME Init PROVE ReadInv
    OBVIOUS
  <1>1. \A n \in Frames : RowOf(file[n], 1) = 0 /\ ColOf(file[n], 1) = 0
    <2> SUFFICES ASSUME NEW n \in Frames PROVE RowOf(file[n], 1) = 0 /\ ColOf(file[n], 1) = 0
      OBVIOUS
    <2>1. {j \in 1 .. 1 - 1 : file[n][j] = NL} = {}
      OBVIOUS
    <2>2. {j \in 1 .. 1 - 1 : RowOf(file[n], j) = RowOf(file[n], 1) /\ file[n][j] # NL} = {}
      OBVIOUS
    <2> QED BY <2>1, <2>2, FS_EmptySet DEF RowOf, ColOf
  <1>2. eof \in [Frames -> BOOLEAN] /\ row = 0 /\ col = 0
        /\ \A n \in Frames : pos[n] = 0 /\ c[n] # NL /\ eof[n] = FALSE
    BY DEF Init, NL
  <1>3. \A n \in Frames : Reading(file[n], pos[n], c[n], eof[n], row, col)
    BY <1>1, <1>2 DEF Reading
  <1>4. stage \notin Waiting
    BY FishAssumption DEF Init, Waiting
  <1>5. \A n \in refused : c[n] = "0" /\ ~eof[n]
    <2>1. refused \subseteq Frames
      BY DEF Init
    <2> QED BY <2>1 DEF Init
  <1> QED BY <1>2, <1>3, <1>4, <1>5 DEF ReadInv

\* What the files hold and whether they can be read stays as it is.
LEMMA FilesKept == [Next]_vars => UNCHANGED <<file, refused>>
  BY DEF Next, Main, Other, Opened, OpenFails, FrameChar, FrameRow, Wait, Ioctl, Reach,
         AnyAdd, AnyRemove, AnyFind, AnySync, AnyTick, AnyAgain, AnyHangs, Called, MayCall, vars, fish

\* A round with a file that cannot be read finds the same character again.
LEMMA RefusedFacts ==
  ASSUME NEW n \in refused, c[n] = "0", ~eof[n]
  PROVE  Char(n) = "0" /\ ~Eof(n)
  BY DEF Char, Eof, Stays, AtEnd

\* Every round of add_frames keeps the place in the files.
LEMMA ReadStep == FishInv /\ ReadInv /\ [Next]_vars => ReadInv'
  <1> SUFFICES ASSUME FishInv, ReadInv, [Next]_vars PROVE ReadInv'
    OBVIOUS
  <1>1. TextType /\ eof \in [Frames -> BOOLEAN]
    BY DEF FishInv, ReadInv
  <1>2. \A n \in Frames : Eof(n) \in BOOLEAN
    BY DEF Eof
  <1>3. CASE Opened \/ OpenFails
    BY <1>3 DEF Opened, OpenFails, ReadInv, Early, Waiting, Reach
  <1>4. CASE FrameChar
    <2>1. /\ eof' = [n \in Frames |-> Eof(n)] /\ c' = [n \in Frames |-> Char(n)]
          /\ pos' = [n \in Frames |-> Pos(n)] /\ row' = row /\ col' = col + 1 /\ file' = file
          /\ stage \in Early /\ stage' = stage /\ stage \notin Waiting
          /\ refused' = refused /\ refused \subseteq Frames
      BY <1>1, <1>4 DEF FrameChar, Column, Early, Waiting, TextType
    <2>2. refused = {} => \A n \in Frames : Reading(file[n], Pos(n), Char(n), Eof(n), row, col + 1)
      BY <1>1, <2>1, RoundFacts DEF ReadInv
    <2>3. \A n \in refused : Char(n) = "0" /\ ~Eof(n)
      BY <2>1, RefusedFacts DEF ReadInv
    <2> HIDE DEF Early, Waiting
    <2> QED BY <1>2, <2>1, <2>2, <2>3 DEF ReadInv
  <1>5. CASE FrameRow
    <2>1. /\ eof' = [n \in Frames |-> Eof(n)] /\ pos' = [n \in Frames |-> Pos(n)]
          /\ c' = [n \in Frames |-> IF Eof(n) THEN NL ELSE "0"]
          /\ row' = row + 1 /\ col' = 0 /\ file' = file
          /\ stage \in Early /\ refused' = refused /\ refused \subseteq Frames
          /\ \A n \in Frames : Char(n) = NL
      BY <1>1, <1>5 DEF FrameRow, Early, TextType
    <2>3. refused = {}
      <3>1. \A n \in refused : Char(n) = "0"
        BY <2>1, RefusedFacts DEF ReadInv
      <3> QED BY <2>1, <3>1 DEF NL
    <2>2. ASSUME NEW n \in Frames
          PROVE  Reading(file[n], Pos(n), IF Eof(n) THEN NL ELSE "0", Eof(n), row + 1, 0)
      <3>1. Reading(file[n], Pos(n), NL, Eof(n), row, col + 1)
        BY <1>1, <2>1, <2>3, RoundFacts DEF ReadInv
      <3>2. \A j \in 1 .. Pos(n) : file[n][j] # NL =>
              Earlier(RowOf(file[n], j), ColOf(file[n], j), row + 1, 0)
        <4>1. \A j \in 1 .. Pos(n) : RowOf(file[n], j) \in Nat
          BY <1>1, CharFacts, RowFacts
        <4>2. \A x \in Nat : x < row \/ x = row => x < row + 1
          BY <1>1 DEF TextType
        <4> QED BY <3>1, <4>1, <4>2 DEF Reading, Earlier
      <3>3. "0" # NL
        BY DEF NL
      <3> QED BY <3>1, <3>2, <3>3 DEF Reading
    <2> QED BY <1>2, <2>1, <2>2, <2>3 DEF ReadInv
  <1>6. CASE /\ stage' \notin Early /\ UNCHANGED <<eof, refused>>
             /\ stage \in Waiting \/ stage' \notin Waiting
    BY <1>6 DEF ReadInv
  <1>7. ASSUME NEW k \in 1 .. 4, Wait(k) \/ Ioctl(k) PROVE ReadInv'
    <2>1. stage \in Waiting /\ stage' \notin Early /\ UNCHANGED <<eof, refused>>
      BY <1>7 DEF Wait, Ioctl, Loops, Early, Waiting, Reach
    <2> QED BY <1>6, <2>1
  <1>8. CASE Other
    <2>1. stage' \in {"any", "hung"} /\ UNCHANGED <<eof, refused>>
      BY <1>8 DEF Other, AnyAdd, AnyRemove, AnyFind, AnySync, AnyTick, AnyAgain, AnyHangs, Called,
                  MayCall, Reach
    <2> QED BY <1>6, <2>1 DEF Early, Waiting
  <1>9. CASE UNCHANGED vars
    BY <1>9 DEF vars, fish, ReadInv
  <1> QED BY <1>3, <1>4, <1>5, <1>7, <1>8, <1>9 DEF Next, Main

----------------------------------------------------------------------------
\* The picture on the screen.

\* No cell of the screen has two places in the picture.
LEMMA PlaceOnce ==
  ASSUME NEW n \in Nat, NEW r \in Nat, NEW k \in 0 .. n - 1, NEW x \in Nat, NEW y \in 0 .. n - 1,
         r * n + k = x * n + y
  PROVE  r = x /\ k = y
  <1>1. ASSUME NEW a \in Nat, NEW b \in Nat, a < b PROVE a * n + n <= b * n
    <2>1. b = a + 1 + (b - a - 1) /\ b - a - 1 \in Nat
      BY <1>1
    <2>2. (b - a - 1) * n \in Nat
      BY <2>1
    <2>3. b * n = a * n + n + (b - a - 1) * n
      BY <2>1
    <2> QED BY <2>2, <2>3
  <1>2. r * n \in Nat /\ x * n \in Nat
    OBVIOUS
  <1>3. ~(r < x) /\ ~(x < r)
    BY <1>1, <1>2
  <1> QED BY <1>2, <1>3

\* Division with remainder.
LEMMA Divided ==
  ASSUME NEW n \in Nat, NEW m \in Nat \ {0}
  PROVE  (n \div m) \in Nat /\ (n % m) \in 0 .. m - 1 /\ n = (n \div m) * m + (n % m)
  <1>1. (n \div m) \in Int /\ (n % m) \in 0 .. m - 1 /\ n = m * (n \div m) + (n % m)
    OBVIOUS
  <1>2. \A q \in Int : q < 0 => m * q <= 0 - m
    <2> SUFFICES ASSUME NEW q \in Int, q < 0 PROVE m * q <= 0 - m
      OBVIOUS
    <2>1. (0 - q - 1) \in Nat
      OBVIOUS
    <2>2. m * (0 - q - 1) \in Nat
      BY <2>1
    <2>3. m * (0 - q - 1) = 0 - m * q - m
      OBVIOUS
    <2>4. m * q \in Int
      OBVIOUS
    <2> QED BY <2>2, <2>3, <2>4
  <1>3. ~((n \div m) < 0)
    BY <1>1, <1>2
  <1> QED BY <1>1, <1>3

\* The phases of LENGTH ticks follow each other without a gap.
LEMMA PhaseStep ==
  ASSUME NEW n \in Nat, NEW m \in Nat \ {0}
  PROVE  IF (n % m) = m - 1 THEN (n + 1) \div m = (n \div m) + 1 /\ (n + 1) % m = 0
         ELSE (n + 1) \div m = (n \div m) /\ (n + 1) % m = (n % m) + 1
  <1> DEFINE q == n \div m
             e == n % m
             w == n + 1
             x == w \div m
             y == w % m
  <1>1. q \in Nat /\ e \in 0 .. m - 1 /\ n = q * m + e
    BY Divided
  <1>2. x \in Nat /\ y \in 0 .. m - 1 /\ n + 1 = x * m + y
    <2>1. w \in Nat
      OBVIOUS
    <2> HIDE DEF w
    <2>2. x \in Nat /\ y \in 0 .. m - 1 /\ w = x * m + y
      BY <2>1, Divided
    <2> QED BY <2>2 DEF w
  <1> HIDE DEF q, e, x, y
  <1>3. CASE e = m - 1
    <2>1. (q + 1) * m = q * m + m
      BY <1>1
    <2>2. x * m + y = (q + 1) * m + 0 /\ q + 1 \in Nat /\ 0 \in 0 .. m - 1
      BY <1>1, <1>2, <1>3, <2>1
    <2>3. x = q + 1 /\ y = 0
      BY <1>2, <2>2, PlaceOnce
    <2> QED BY <1>3, <2>3 DEF q, e, w, x, y
  <1>4. CASE e # m - 1
    <2>1. e + 1 \in 0 .. m - 1
      BY <1>1, <1>4
    <2>2. x * m + y = q * m + (e + 1)
      BY <1>1, <1>2
    <2>3. x = q /\ y = e + 1
      BY <1>1, <1>2, <2>1, <2>2, PlaceOnce
    <2> QED BY <1>4, <2>3 DEF q, e, w, x, y
  <1> QED BY <1>3, <1>4

\* The video memory, and what a blink pokes when it flips.
Pixels == [0 .. Cells - 1 -> Chars \cup {Untouched}]
PokedChar(b) == IF b.status = 1 THEN b.off_char ELSE b.on_char

LEMMA PokedFacts ==
  ASSUME LibraryType, NEW v \in Pixels, NEW s \in Slot
  PROVE  /\ Poked(v, s) \in Pixels
         /\ \A l \in 0 .. Cells - 1 :
              Poked(v, s)[l] = IF Flips(blink_array[s]) /\ blink_array[s].location = l
                               THEN PokedChar(blink_array[s]) ELSE v[l]
  <1> DEFINE b == blink_array[s]
  <1>1. b \in Struct
    BY DEF LibraryType
  <1>2. Poked(v, s) = IF ~Flips(b) THEN v ELSE [v EXCEPT ![b.location] = PokedChar(b)]
    BY DEF Poked, PokedChar
  <1>3. PokedChar(b) \in Chars
    BY <1>1 DEF PokedChar, Struct
  <1> HIDE DEF b
  <1>4. CASE ~Flips(b)
    BY <1>2, <1>4 DEF b
  <1>5. CASE Flips(b)
    <2>1. Poked(v, s) = [v EXCEPT ![b.location] = PokedChar(b)]
      BY <1>2, <1>5
    <2>2. Poked(v, s) \in Pixels
      BY <1>3, <2>1 DEF Pixels
    <2>3. \A l \in 0 .. Cells - 1 : Poked(v, s)[l] = IF b.location = l THEN PokedChar(b) ELSE v[l]
      BY <2>1 DEF Pixels
    <2> QED BY <1>5, <2>2, <2>3 DEF b
  <1> QED BY <1>4, <1>5

\* The screens of the tasklet's loop are what their recursive definition says.
LEMMA RepaintedFacts ==
  ASSUME LibraryType, vmem \in Pixels, NEW L \in Seq(Slot)
  PROVE  /\ Repainted(L)[0] = vmem
         /\ \A n \in 1 .. Len(L) : Repainted(L)[n] = Poked(Repainted(L)[n - 1], L[n])
         /\ \A n \in 0 .. Len(L) : Repainted(L)[n] \in Pixels
  <1> DEFINE m == Len(L)
             step == [k \in Nat |-> [v \in Pixels |-> IF k \in 1 .. m THEN Poked(v, L[k]) ELSE v]]
             W == Repainted(L)
             Fix(f) == f = [n \in 0 .. m |-> IF n = 0 THEN vmem ELSE Poked(f[n - 1], L[n])]
  <1>0. m \in Nat /\ \A k \in 1 .. m : L[k] \in Slot
    OBVIOUS
  <1>1. step \in [Nat -> [Pixels -> Pixels]]
    BY <1>0, PokedFacts
  <1>2. PICK f : IsIterate(f, Pixels, vmem, step, m)
    <2> HIDE DEF step
    <2> QED BY <1>0, <1>1, Iterates
  <1>3. \A n \in 1 .. m : f[n] = Poked(f[n - 1], L[n]) /\ n - 1 \in 0 .. m
    <2>1. \A k \in 1 .. m, v \in Pixels : step[k][v] = Poked(v, L[k])
      BY <1>0
    <2> HIDE DEF step
    <2> SUFFICES ASSUME NEW n \in 1 .. m PROVE f[n] = Poked(f[n - 1], L[n]) /\ n - 1 \in 0 .. m
      OBVIOUS
    <2>2. n - 1 \in 0 .. m
      BY <1>0
    <2>3. f[n - 1] \in Pixels /\ f[n] = step[n][f[n - 1]]
      BY <1>2, <2>2 DEF IsIterate
    <2> QED BY <2>1, <2>2, <2>3
  <1>4. Fix(f)
    BY <1>0, <1>2, <1>3 DEF IsIterate
  <1>5. W = CHOOSE g : Fix(g)
    BY DEF Repainted
  <1>6. Fix(W)
    BY <1>4, <1>5
  <1>7. W[0] = vmem /\ \A n \in 1 .. m : W[n] = Poked(W[n - 1], L[n])
    BY <1>0, <1>6
  <1>8. \A n \in 0 .. m : W[n] \in Pixels
    <2> DEFINE S == {n \in Nat : n <= m => W[n] \in Pixels}
    <2> HIDE DEF W
    <2>1. 0 \in S
      BY <1>7
    <2>2. ASSUME NEW k \in Nat, k \in S PROVE k + 1 \in S
      <3> SUFFICES ASSUME k + 1 <= m PROVE W[k + 1] \in Pixels
        BY <1>0, <2>2
      <3>1. W[k] \in Pixels /\ k + 1 \in 1 .. m /\ (k + 1) - 1 = k
        BY <1>0, <2>2
      <3>2. W[k + 1] = Poked(W[k], L[k + 1])
        BY <1>7, <3>1
      <3> QED BY <1>0, <3>1, <3>2, PokedFacts
    <2>3. Nat \subseteq S
      <3> HIDE DEF S
      <3> QED BY <2>1, <2>2, Induction
    <2> QED BY <1>0, <2>3
  <1> QED BY <1>7, <1>8

\* After a tick a cell shows what one of the blinks that flip there pokes, and
\* what it showed before if none does.
Flippers(l) == {s \in Used : blink_array[s].location = l /\ Flips(blink_array[s])}

LEMMA TickScreen ==
  ASSUME LibraryInv, ~zero, vmem \in Pixels, mp1_rtc_tasklet
  PROVE  /\ vmem' \in Pixels
         /\ \A l \in 0 .. Cells - 1 :
              \/ Flippers(l) = {} /\ vmem'[l] = vmem[l]
              \/ \E s \in Flippers(l) : vmem'[l] = PokedChar(blink_array[s])
  <1> DEFINE m == Len(List)
             W == Repainted(List)
  <1>1. /\ List \in Seq(Slot) /\ m \in Nat /\ ToSet(List) = Used /\ LibraryType
        /\ \A k \in 1 .. m : List[k] \in Used /\ List[k] \in Slot
    BY ListFacts DEF LibraryInv, IsList, ToSet
  <1>2. \A s \in Used : \E k \in 1 .. m : List[k] = s
    BY <1>1 DEF ToSet
  <1>3. vmem' = W[m]
    BY DEF mp1_rtc_tasklet
  <1>4. /\ W[0] = vmem /\ \A n \in 1 .. m : W[n] = Poked(W[n - 1], List[n])
        /\ \A n \in 0 .. m : W[n] \in Pixels
    BY <1>1, RepaintedFacts
  <1> HIDE DEF W
  <1> SUFFICES ASSUME NEW l \in 0 .. Cells - 1
               PROVE  \/ Flippers(l) = {} /\ vmem'[l] = vmem[l]
                      \/ \E s \in Flippers(l) : vmem'[l] = PokedChar(blink_array[s])
    BY <1>1, <1>3, <1>4
  <1> DEFINE Same(n) == (\A k \in 1 .. n : List[k] \notin Flippers(l)) /\ W[n][l] = vmem[l]
             Now(n) == \E s \in Flippers(l) : W[n][l] = PokedChar(blink_array[s])
             S == {n \in Nat : n <= m => Same(n) \/ Now(n)}
  <1>5. 0 \in S
    BY <1>4
  <1>6. ASSUME NEW k \in Nat, k \in S PROVE k + 1 \in S
    <2> SUFFICES ASSUME k + 1 <= m PROVE Same(k + 1) \/ Now(k + 1)
      BY <1>6
    <2>1. /\ k + 1 \in 1 .. m /\ (k + 1) - 1 = k /\ k \in 0 .. m
          /\ Same(k) \/ Now(k)
      BY <1>1, <1>6
    <2>2. W[k + 1] = Poked(W[k], List[k + 1]) /\ W[k] \in Pixels
      BY <1>4, <2>1
    <2>3. W[k + 1][l] = IF Flips(blink_array[List[k + 1]]) /\ blink_array[List[k + 1]].location = l
                        THEN PokedChar(blink_array[List[k + 1]]) ELSE W[k][l]
      <3> DEFINE s == List[k + 1]
                 v == W[k]
      <3>1. s \in Slot /\ v \in Pixels /\ LibraryType
        BY <1>1, <2>1, <2>2
      <3> HIDE DEF s, v
      <3>2. Poked(v, s)[l] = IF Flips(blink_array[s]) /\ blink_array[s].location = l
                             THEN PokedChar(blink_array[s]) ELSE v[l]
        BY <3>1, PokedFacts
      <3> QED BY <2>2, <3>2 DEF s, v
    <2>4. CASE List[k + 1] \in Flippers(l)
      BY <2>3, <2>4 DEF Flippers
    <2>5. CASE List[k + 1] \notin Flippers(l)
      <3>1. W[k + 1][l] = W[k][l]
        BY <1>1, <2>1, <2>3, <2>5 DEF Flippers
      <3>2. CASE Same(k)
        <4>1. \A j \in 1 .. k + 1 : j = k + 1 \/ j \in 1 .. k
          OBVIOUS
        <4> QED BY <2>5, <3>1, <3>2, <4>1
      <3>3. CASE Now(k)
        BY <3>1, <3>3
      <3> QED BY <2>1, <3>2, <3>3
    <2> QED BY <2>4, <2>5
  <1>7. Nat \subseteq S
    <2> HIDE DEF S
    <2> QED BY <1>5, <1>6, Induction
  <1>8. Same(m) \/ Now(m)
    BY <1>1, <1>7
  <1>9. Same(m) => Flippers(l) = {}
    BY <1>2 DEF Flippers
  <1> QED BY <1>3, <1>8, <1>9

\* Some file has a character at row r and column k; the picture shows it already;
\* the cell is not the extra blink's; where it is on the screen; whose turn it is.
Inked(r, k) == \E n \in Frames : At(file[n], r, k) # Space
Drawn(r, k) == Inked(r, k) /\ (stage \in Early => Earlier(r, k, row, col))
Kept(l) == l # EXTRA \/ stage \in Early \cup {"wait1"}
Place(r, k) == r * NUM_COLS + k + OFFSET
Turn == (ticks \div LENGTH) % 2

\* b alternates between the characters of the two files, in step with the ticks.
Shows(b, r, k) ==
  /\ b.on_char = At(file[0], r, k) /\ b.off_char = At(file[1], r, k)
  /\ b.on_length = LENGTH /\ b.off_length = LENGTH
  /\ b.status = 1 - Turn /\ b.countdown = LENGTH - (ticks % LENGTH)

\* A cell has blinks if and only if it is drawn, all of them those of the picture,
\* and shows the character of the file whose turn it is.
CellInv(r, k) ==
  /\ \A s \in Used : blink_array[s].location = Place(r, k) =>
       Drawn(r, k) /\ Shows(blink_array[s], r, k)
  /\ Drawn(r, k) => \E s \in Used : blink_array[s].location = Place(r, k)
  /\ vmem[Place(r, k)] = IF Drawn(r, k) THEN At(file[Turn], r, k) ELSE Untouched

\* While the files are read, no cell has two blinks: the pool is not used up.
Distinct ==
  /\ \A s \in Used : blink_array[s].location < Cells
  /\ \A s, u \in Used : blink_array[s].location = blink_array[u].location => s = u

Columns == 0 .. NUM_COLS - 1
Picture ==
  /\ \A r \in Nat, k \in Columns :
       Place(r, k) < Cells /\ Kept(Place(r, k)) => CellInv(r, k)
  /\ stage \in Early => Distinct

\* No blink of files that fit comes to location 0.
Proper == refused = {} /\ \A n \in Frames : Fits(file[n])
PictureInv ==
  Proper /\ stage \in Early \cup Waiting =>
    /\ vmem \in Pixels /\ ticks \in Nat /\ (stage \in Early => ticks = 0)
    /\ ~zero
    /\ Picture

\* Numbers of the screen.
LEMMA PlaceFacts ==
  ASSUME NEW r \in Nat, NEW k \in Nat
  PROVE  /\ Place(r, k) \in Nat /\ Place(r, k) > 0
         /\ NUM_COLS \in Nat \ {0} /\ OFFSET \in Nat \ {0} /\ Cells \in Nat /\ Cells > 1
  <1>1. NUM_COLS \in Nat \ {0} /\ OFFSET \in Nat \ {0} /\ Cells \in Nat /\ Cells > 1
    BY BlinkAssumption, FishAssumption, CellsNat
  <1>2. r * NUM_COLS \in Nat
    BY <1>1
  <1> QED BY <1>1, <1>2 DEF Place

\* Different places of the picture are different cells.
LEMMA PlaceInjective ==
  ASSUME NEW r \in Nat, NEW k \in Columns, NEW x \in Nat, NEW y \in Columns,
         Place(r, k) = Place(x, y)
  PROVE  r = x /\ k = y
  <1>1. NUM_COLS \in Nat \ {0} /\ OFFSET \in Nat
    BY PlaceFacts
  <1>2. r * NUM_COLS \in Nat /\ x * NUM_COLS \in Nat
    BY <1>1
  <1>3. r * NUM_COLS + k = x * NUM_COLS + y
    BY <1>1, <1>2 DEF Place, Columns
  <1> QED BY <1>1, <1>3, PlaceOnce DEF Columns

\* With at most one blink on each cell but the first, mp1_malloc finds a structure.
LEMMA RoomLeft ==
  ASSUME LibraryType, Distinct
  PROVE  mp1_malloc # NULL
  <1> SUFFICES ASSUME mp1_malloc = NULL PROVE FALSE
    OBVIOUS
  <1> DEFINE free == {s \in Slot : blink_array[s].location = 0}
             f == [s \in Slot |-> blink_array[s].location]
  <1>1. mp1_malloc = IF free = {} THEN NULL ELSE CHOOSE s \in free : \A t \in free : s <= t
    BY DEF mp1_malloc
  <1>2. free = {}
    <2> SUFFICES ASSUME free # {} PROVE FALSE
      OBVIOUS
    <2>1. \E s \in free : \A t \in free : s <= t
      BY WordFacts, LeastOf
    <2>2. free \subseteq Slot
      OBVIOUS
    <2> HIDE DEF free
    <2>3. mp1_malloc \in free
      BY <1>1, <2>1
    <2> QED BY <2>2, <2>3, WordFacts
  <1>3. Used = Slot
    BY <1>2 DEF Used
  <1>4. Cells \in Nat /\ Cells > 1
    BY PlaceFacts
  <1>5. f \in [Slot -> 1 .. Cells - 1]
    <2>1. \A s \in Slot : blink_array[s].location \in Nat /\ blink_array[s].location # 0
                          /\ blink_array[s].location < Cells
      BY <1>3 DEF Distinct, LibraryType, Struct, Used
    <2> QED BY <1>4, <2>1
  <1>6. /\ IsFiniteSet(Slot) /\ Cardinality(Slot) = Cells
        /\ IsFiniteSet(1 .. Cells - 1) /\ Cardinality(1 .. Cells - 1) = Cells - 1
    BY <1>4, FS_Interval DEF Slot
  <1>7. Cardinality(1 .. Cells - 1) < Cardinality(Slot)
    BY <1>4, <1>6
  <1>8. PICK x, y \in Slot : x # y /\ f[x] = f[y]
    <2> HIDE DEF f
    <2> QED BY <1>5, <1>6, <1>7, FS_PigeonHole
  <1> QED BY <1>3, <1>8 DEF Distinct

\* A call of the library that is about other cells.
LEMMA Elsewhere ==
  ASSUME NEW r \in Nat, NEW k \in Columns, CellInv(r, k),
         UNCHANGED <<file, ticks>>, Drawn(r, k)' <=> Drawn(r, k),
         vmem'[Place(r, k)] = vmem[Place(r, k)],
         \A s \in Slot :
           /\ blink_array'[s].location = Place(r, k) <=> blink_array[s].location = Place(r, k)
           /\ blink_array[s].location = Place(r, k) =>
                /\ blink_array'[s].on_char = blink_array[s].on_char
                /\ blink_array'[s].off_char = blink_array[s].off_char
                /\ blink_array'[s].on_length = blink_array[s].on_length
                /\ blink_array'[s].off_length = blink_array[s].off_length
                /\ blink_array'[s].status = blink_array[s].status
                /\ blink_array'[s].countdown = blink_array[s].countdown
  PROVE  CellInv(r, k)'
  <1>1. Place(r, k) \in Nat /\ Place(r, k) > 0
    <2>1. k \in Nat
      BY BlinkAssumption DEF Columns
    <2> HIDE DEF Place
    <2> QED BY <2>1, PlaceFacts
  <1>2. \A s \in Slot : blink_array[s].location = Place(r, k) => s \in Used /\ s \in Used'
    BY <1>1 DEF Used
  <1>3. Turn' = Turn
    BY DEF Turn
  <1>4. ASSUME NEW s \in Used', blink_array'[s].location = Place(r, k)
        PROVE  Drawn(r, k)' /\ Shows(blink_array[s], r, k)'
    <2>1. s \in Slot /\ blink_array[s].location = Place(r, k) /\ s \in Used
      BY <1>2, <1>4 DEF Used
    <2>2. Drawn(r, k) /\ Shows(blink_array[s], r, k)
      BY <2>1 DEF CellInv
    <2> QED BY <1>3, <2>1, <2>2 DEF Shows
  <1>5. Drawn(r, k)' => \E s \in Used' : blink_array'[s].location = Place(r, k)
    <2> SUFFICES ASSUME Drawn(r, k) PROVE \E s \in Used' : blink_array'[s].location = Place(r, k)
      OBVIOUS
    <2>1. PICK s \in Used : blink_array[s].location = Place(r, k)
      BY DEF CellInv
    <2>2. s \in Slot
      BY DEF Used
    <2> QED BY <1>2, <2>1, <2>2
  <1>6. vmem'[Place(r, k)] = IF Drawn(r, k)' THEN At(file'[Turn'], r, k) ELSE Untouched
    BY <1>3 DEF CellInv
  <1> HIDE DEF Drawn
  <1> QED BY <1>4, <1>5, <1>6 DEF CellInv, Place

\* A blink with lengths of LENGTH flips when its phase has lasted LENGTH ticks.
LEMMA TickedPhase ==
  ASSUME NEW b \in Struct, NEW e \in 0 .. LENGTH - 1, NEW u \in {0, 1},
         b.on_length = LENGTH, b.off_length = LENGTH, b.status = 1 - u, b.countdown = LENGTH - e
  PROVE  /\ Flips(b) <=> e = LENGTH - 1
         /\ Ticked(b).on_char = b.on_char /\ Ticked(b).off_char = b.off_char
         /\ Ticked(b).on_length = LENGTH /\ Ticked(b).off_length = LENGTH
         /\ Ticked(b).status = IF e = LENGTH - 1 THEN u ELSE 1 - u
         /\ Ticked(b).countdown = IF e = LENGTH - 1 THEN LENGTH ELSE LENGTH - (e + 1)
  <1>1. LENGTH \in Nat \ {0} /\ 2 * LENGTH < WORD /\ WORD \in Nat
    BY FishAssumption, WordFacts
  <1>2. Decremented(b) = LENGTH - e - 1
    BY <1>1 DEF Decremented
  <1>3. LENGTH - e - 1 < WORD \div 2
    BY <1>1
  <1>4. Signed(Decremented(b)) = LENGTH - e - 1
    BY <1>2, <1>3 DEF Signed
  <1>5. Flips(b) <=> e = LENGTH - 1
    BY <1>1, <1>4 DEF Flips
  <1>6. Reload(b) = LENGTH
    BY DEF Reload
  <1>7. CASE e = LENGTH - 1
    <2>1. Ticked(b) = [b EXCEPT !.countdown = LENGTH, !.status = 1 - @]
      BY <1>5, <1>6, <1>7 DEF Ticked
    <2> QED BY <1>5, <1>7, <2>1 DEF Struct
  <1>8. CASE e # LENGTH - 1
    <2>1. Ticked(b) = [b EXCEPT !.countdown = LENGTH - e - 1]
      BY <1>2, <1>5, <1>8 DEF Ticked
    <2>2. LENGTH - e - 1 = LENGTH - (e + 1)
      BY <1>1
    <2> QED BY <1>5, <1>8, <2>1, <2>2 DEF Struct
  <1> QED BY <1>7, <1>8

\* A tick of the rtc keeps a cell of the picture in step.
LEMMA CellTick ==
  ASSUME LibraryInv, ~zero, mp1_rtc_tasklet, vmem \in Pixels, ticks \in Nat, ticks' = ticks + 1,
         file' = file, NEW r \in Nat, NEW k \in Columns, Place(r, k) < Cells,
         Drawn(r, k)' <=> Drawn(r, k), CellInv(r, k)
  PROVE  CellInv(r, k)'
  <1> DEFINE l == Place(r, k)
             e == ticks % LENGTH
             q == ticks \div LENGTH
  <1>0. l \in 0 .. Cells - 1 /\ LENGTH \in Nat \ {0}
    <2>1. l \in Nat /\ Cells \in Nat
      BY PlaceFacts DEF Columns
    <2>2. LENGTH \in Nat \ {0}
      BY FishAssumption, WordFacts
    <2> QED BY <2>1, <2>2
  <1>1. q \in Nat /\ e \in 0 .. LENGTH - 1
    BY <1>0, Divided
  <1>2. Turn = q % 2 /\ Turn \in {0, 1}
    BY <1>1 DEF Turn
  <1>3. IF e = LENGTH - 1 THEN (ticks \div LENGTH)' = q + 1 /\ (ticks % LENGTH)' = 0
        ELSE (ticks \div LENGTH)' = q /\ (ticks % LENGTH)' = e + 1
    BY <1>0, PhaseStep
  <1> HIDE DEF e, q
  <1>4. Turn' = IF e = LENGTH - 1 THEN 1 - Turn ELSE Turn
    <2>1. (q + 1) % 2 = 1 - (q % 2)
      BY <1>1
    <2> QED BY <1>2, <1>3, <2>1 DEF Turn
  <1>5. /\ Used' = Used /\ blink_array \in [Slot -> Struct]
        /\ \A s \in Used : blink_array'[s] = Ticked(blink_array[s])
    <2>1. LibraryInv' /\ List' = List
      BY TickStep
    <2>2. blink_array \in [Slot -> Struct] /\ ToSet(List) = Used /\ IsList(List, After, mp1_list_head)
      BY ListFacts DEF LibraryInv, LibraryType
    <2>3. \A s \in Slot : blink_array'[s] = IF Contains(List, s) THEN Ticked(blink_array[s])
                                            ELSE blink_array[s]
      BY DEF mp1_rtc_tasklet
    <2>4. \A s \in Used : s \in Slot /\ Contains(List, s)
      BY <2>2 DEF Used, Contains, ToSet, IsList
    <2>5. \A s \in Slot : blink_array'[s].location = blink_array[s].location
      BY <2>2, <2>3, TickedFacts
    <2> QED BY <2>2, <2>3, <2>4, <2>5 DEF Used
  <1>6. ASSUME NEW s \in Used, blink_array[s].location = l
        PROVE  /\ blink_array'[s].location = l /\ Drawn(r, k)
               /\ Flips(blink_array[s]) <=> e = LENGTH - 1
               /\ PokedChar(blink_array[s]) = At(file[1 - Turn], r, k)
               /\ Shows(blink_array[s], r, k)'
    <2>1. blink_array[s] \in Struct /\ s \in Slot
      BY <1>5 DEF Used
    <2>2. Drawn(r, k) /\ Shows(blink_array[s], r, k)
      BY <1>6 DEF CellInv
    <2>3. /\ blink_array[s].on_char = At(file[0], r, k) /\ blink_array[s].off_char = At(file[1], r, k)
          /\ blink_array[s].on_length = LENGTH /\ blink_array[s].off_length = LENGTH
          /\ blink_array[s].status = 1 - Turn /\ blink_array[s].countdown = LENGTH - e
      BY <2>2 DEF Shows, e
    <2> HIDE DEF Shows, Drawn
    <2> DEFINE b == blink_array[s]
    <2>4. /\ Flips(b) <=> e = LENGTH - 1
          /\ Ticked(b).on_char = b.on_char /\ Ticked(b).off_char = b.off_char
          /\ Ticked(b).on_length = LENGTH /\ Ticked(b).off_length = LENGTH
          /\ Ticked(b).status = IF e = LENGTH - 1 THEN Turn ELSE 1 - Turn
          /\ Ticked(b).countdown = IF e = LENGTH - 1 THEN LENGTH ELSE LENGTH - (e + 1)
      <3> HIDE DEF b
      <3>1. /\ b \in Struct /\ b.on_length = LENGTH /\ b.off_length = LENGTH
            /\ b.status = 1 - Turn /\ b.countdown = LENGTH - e
        BY <2>1, <2>3 DEF b
      <3> QED BY <1>1, <1>2, <3>1, TickedPhase
    <2>5. PokedChar(b) = At(file[1 - Turn], r, k)
      BY <1>2, <2>3 DEF PokedChar
    <2>6. blink_array'[s] = Ticked(b) /\ Ticked(b).location = l
      BY <1>5, <1>6, <2>1, TickedFacts
    <2>7. Shows(blink_array[s], r, k)'
      <3>1. blink_array'[s].on_char = At(file'[0], r, k) /\ blink_array'[s].off_char = At(file'[1], r, k)
        BY <2>3, <2>4, <2>6
      <3>2. blink_array'[s].status = 1 - Turn'
        BY <1>2, <1>4, <2>4, <2>6
      <3>3. blink_array'[s].countdown = LENGTH - (ticks % LENGTH)'
        BY <1>0, <1>3, <2>4, <2>6
      <3>4. blink_array'[s].on_length = LENGTH /\ blink_array'[s].off_length = LENGTH
        BY <2>4, <2>6
      <3> QED BY <3>1, <3>2, <3>3, <3>4 DEF Shows
    <2> QED BY <2>2, <2>4, <2>5, <2>6, <2>7
  <1>7. \A s \in Used : blink_array'[s].location = blink_array[s].location
    BY <1>5, TickedFacts DEF Used
  <1>8. vmem'[l] = IF Drawn(r, k) THEN At(file[Turn'], r, k) ELSE Untouched
    <2>1. \/ Flippers(l) = {} /\ vmem'[l] = vmem[l]
          \/ \E s \in Flippers(l) : vmem'[l] = PokedChar(blink_array[s])
      BY <1>0, TickScreen
    <2>2. vmem[l] = IF Drawn(r, k) THEN At(file[Turn], r, k) ELSE Untouched
      BY DEF CellInv
    <2>3. \A s \in Flippers(l) : s \in Used /\ blink_array[s].location = l /\ Flips(blink_array[s])
      BY DEF Flippers
    <2>4. ASSUME NEW s \in Flippers(l)
          PROVE  Drawn(r, k) /\ e = LENGTH - 1 /\ PokedChar(blink_array[s]) = At(file[1 - Turn], r, k)
      BY <1>6, <2>3
    <2>5. ASSUME Drawn(r, k), e = LENGTH - 1 PROVE Flippers(l) # {}
      <3>1. PICK s \in Used : blink_array[s].location = l
        BY <2>5 DEF CellInv
      <3>2. s \in Flippers(l)
        BY <1>6, <2>5, <3>1 DEF Flippers
      <3> QED BY <3>2
    <2> HIDE DEF Drawn, l
    <2>6. CASE Flippers(l) = {} /\ vmem'[l] = vmem[l]
      BY <1>4, <2>2, <2>5, <2>6
    <2>7. CASE \E s \in Flippers(l) : vmem'[l] = PokedChar(blink_array[s])
      BY <1>4, <2>4, <2>7
    <2> QED BY <2>1, <2>6, <2>7
  <1>9. \A s \in Used' : blink_array'[s].location = l => Drawn(r, k)' /\ Shows(blink_array[s], r, k)'
    BY <1>5, <1>6, <1>7
  <1>10. Drawn(r, k)' => \E s \in Used' : blink_array'[s].location = l
    BY <1>5, <1>7 DEF CellInv
  <1> QED BY <1>8, <1>9, <1>10 DEF CellInv, Place

\* What mp1_ioctl_add changes.
LEMMA AddFacts ==
  ASSUME LibraryInv, NEW b \in Struct, b.location # 0, mp1_ioctl_add(b)
  PROVE  \E s \in Slot \ Used :
           /\ Used' = Used \cup {s}
           /\ \A u \in Slot : u # s => blink_array'[u] = blink_array[u]
           /\ blink_array'[s].location = b.location
           /\ blink_array'[s].on_char = b.on_char /\ blink_array'[s].off_char = b.off_char
           /\ blink_array'[s].on_length = b.on_length /\ blink_array'[s].off_length = b.off_length
           /\ blink_array'[s].status = 1 /\ blink_array'[s].countdown = b.on_length
           /\ vmem' = [vmem EXCEPT ![b.location] = b.on_char]
  <1> DEFINE s == mp1_malloc
             x == [b EXCEPT !.status = 1, !.countdown = b.on_length, !.next = mp1_list_head]
  <1>1. s \in Slot \ Used
    BY MallocFacts DEF mp1_ioctl_add, Accepted, LibraryInv
  <1>2. /\ blink_array' = [blink_array EXCEPT ![s] = x] /\ blink_array \in [Slot -> Struct]
        /\ vmem' = [vmem EXCEPT ![b.location] = b.on_char]
    BY DEF mp1_ioctl_add, LibraryInv, LibraryType
  <1>3. /\ x.location = b.location /\ x.on_char = b.on_char /\ x.off_char = b.off_char
        /\ x.on_length = b.on_length /\ x.off_length = b.off_length
        /\ x.status = 1 /\ x.countdown = b.on_length
    BY DEF Struct
  <1> HIDE DEF s, x
  <1>4. blink_array'[s] = x /\ \A u \in Slot : u # s => blink_array'[u] = blink_array[u]
    BY <1>1, <1>2
  <1>5. Used' = Used \cup {s}
    BY <1>1, <1>3, <1>4 DEF Used
  <1> QED BY <1>1, <1>2, <1>3, <1>4, <1>5

\* The picture with no call of the library, as long as the same cells are drawn.
LEMMA PictureSame ==
  ASSUME Picture, UNCHANGED <<library, file, ticks>>,
         \A r \in Nat, k \in Columns :
           /\ Kept(Place(r, k))' => Kept(Place(r, k))
           /\ Drawn(r, k)' <=> Drawn(r, k),
         stage' \in Early => stage \in Early
  PROVE  Picture'
  <1>2. ASSUME NEW r \in Nat, NEW k \in Columns, Place(r, k) < Cells, Kept(Place(r, k))'
        PROVE  CellInv(r, k)'
    <2>1. CellInv(r, k)
      BY <1>2 DEF Picture
    <2>2. blink_array' = blink_array /\ vmem' = vmem
      BY DEF library
    <2> QED BY <2>1, <2>2, Elsewhere
  <1>3. stage' \in Early => Distinct'
    BY DEF Picture, Distinct, Used, library
  <1> QED BY <1>2, <1>3 DEF Picture, Place, Columns

\* A round of the inner loop draws the character of its row and column.
LEMMA PictureChar ==
  ASSUME FishInv, ReadInv, PictureInv, Proper, FrameChar
  PROVE  Picture' /\ ~zero'
  <1> DEFINE ink == \E n \in Frames : Char(n) \notin {Space, NL}
             l == row * NUM_COLS + col + OFFSET
             b == Filled(Location, Shown(Char(0)), Shown(Char(1)), LENGTH, LENGTH)
  <1>0. /\ TextType /\ LibraryInv /\ eof \in [Frames -> BOOLEAN] /\ row \in Nat /\ col \in Nat
        /\ stage = "frames" /\ stage' = stage /\ stage \in Early
        /\ UNCHANGED <<file, row, ticks>> /\ col' = col + 1
        /\ vmem \in Pixels /\ ticks = 0 /\ ~zero /\ Picture
        /\ refused = {} /\ \A n \in Frames : Fits(file[n])
    BY DEF FishInv, ReadInv, TextType, FrameChar, Early, Column, PictureInv, Proper
  <1>1. \A n \in Frames :
          /\ At(file[n], row, col) = Shown(Char(n))
          /\ Char(n) \notin {Space, NL} =>
               \E j \in 1 .. Len(file[n]) :
                 file[n][j] # NL /\ RowOf(file[n], j) = row /\ ColOf(file[n], j) = col
    BY <1>0, RoundFacts DEF ReadInv
  <1>2. Inked(row, col) <=> ink
    <2>1. \A n \in Frames : Shown(Char(n)) # Space <=> Char(n) \notin {Space, NL}
      BY DEF Shown
    <2> QED BY <1>1, <2>1 DEF Inked
  <1>3. ASSUME NEW r \in Nat, NEW k \in Nat
        PROVE  Drawn(r, k)' <=> Drawn(r, k) \/ (r = row /\ k = col /\ ink)
    <2>1. Earlier(r, k, row, col + 1) <=> Earlier(r, k, row, col) \/ (r = row /\ k = col)
      BY <1>0 DEF Earlier
    <2>2. Inked(r, k)' <=> Inked(r, k)
      BY <1>0 DEF Inked
    <2> HIDE DEF ink
    <2> QED BY <1>0, <1>2, <2>1, <2>2 DEF Drawn
  <1>4. Columns \subseteq Nat /\ NUM_COLS \in Nat /\ Cells \in Nat
    BY PlaceFacts DEF Columns
  <1>5. \A m : Kept(m) /\ Kept(m)'
    BY <1>0 DEF Kept
  <1>6. CASE ~ink
    <2>1. UNCHANGED library /\ UNCHANGED zero
      BY <1>6 DEF FrameChar, library
    <2>2. \A r \in Nat, k \in Columns : Drawn(r, k)' <=> Drawn(r, k)
      BY <1>3, <1>4, <1>6
    <2> HIDE DEF ink
    <2> QED BY <1>0, <1>5, <2>1, <2>2, PictureSame
  <1>7. CASE ink
    <2>1. col \in Columns /\ l < WORD
      <3>1. PICK n \in Frames :
              \E j \in 1 .. Len(file[n]) :
                file[n][j] # NL /\ RowOf(file[n], j) = row /\ ColOf(file[n], j) = col
        BY <1>1, <1>7
      <3>2. file[n] \in Seq({"a", "b", Space, NL})
        BY <1>0, <3>1 DEF TextType
      <3>3. DOMAIN file[n] = 1 .. Len(file[n])
        BY <3>2
      <3>4. col < NUM_COLS /\ l < WORD
        BY <1>0, <3>1, <3>3 DEF Fits
      <3> QED BY <1>0, <1>4, <3>4 DEF Columns
    <2>2. l = Place(row, col) /\ l \in Nat /\ l > 0
      BY <1>0, PlaceFacts DEF Place
    <2>6. Location = l
      <3>1. \A m \in Nat : m < WORD => m % WORD = m
        BY WordFacts
      <3> QED BY <2>1, <2>2, <3>1 DEF Location
    <2>3. \A r \in Nat, k \in Columns : Place(r, k) = l => r = row /\ k = col
      BY <1>0, <2>1, <2>2, PlaceInjective
    <2>4. CASE ~(l < Cells)
      <3>1. UNCHANGED library
        <4>1. b.location = l
          BY <2>6 DEF Filled, Free
        <4> QED BY <1>7, <2>4, <4>1 DEF FrameChar, Accepted
      <3> HIDE DEF ink, l, b
      <3>a. ~zero'
        BY <1>0, <3>1 DEF library
      <3>2. ASSUME NEW r \in Nat, NEW k \in Columns, Place(r, k) < Cells
            PROVE  CellInv(r, k)'
        <4>1. ~(r = row /\ k = col)
          BY <2>2, <2>4, <3>2
        <4>2. Drawn(r, k)' <=> Drawn(r, k)
          BY <1>3, <1>4, <4>1
        <4>3. CellInv(r, k)
          BY <1>0, <1>5, <3>2 DEF Picture
        <4>4. blink_array' = blink_array /\ vmem' = vmem
          BY <3>1 DEF library
        <4> QED BY <1>0, <4>2, <4>3, <4>4, Elsewhere
      <3>3. Distinct'
        BY <1>0, <3>1 DEF Picture, Distinct, Used, library
      <3> QED BY <3>2, <3>3, <3>a DEF Picture, Place, Columns
    <2>5. CASE l < Cells
      <3>1. /\ b \in Struct /\ b.location = l /\ b.location # 0
            /\ b.on_char = At(file[0], row, col) /\ b.off_char = At(file[1], row, col)
            /\ b.on_length = LENGTH /\ b.off_length = LENGTH
        <4>1. Shown(Char(0)) \in Chars /\ Shown(Char(1)) \in Chars /\ LENGTH \in Word
          <5>1. 0 \in Frames /\ 1 \in Frames
            BY DEF Frames
          <5>2. Shown(Char(0)) \in {"0", "a", "b", Space} /\ Shown(Char(1)) \in {"0", "a", "b", Space}
            BY <1>0, <5>1, CharFacts
          <5> QED BY <5>2, FishAssumption DEF Chars, Word
        <4>2. b \in Struct /\ b.location = l
          BY <2>2, <2>6, <4>1, MadeFacts
        <4>3. b.on_char = Shown(Char(0)) /\ b.off_char = Shown(Char(1))
              /\ b.on_length = LENGTH /\ b.off_length = LENGTH
          BY DEF Filled, Free
        <4> HIDE DEF b
        <4> QED BY <1>1, <2>2, <4>2, <4>3 DEF Frames
      <3>2. mp1_ioctl_add(b)
        <4>1. mp1_malloc # NULL
          BY <1>0, RoomLeft DEF Picture, LibraryInv
        <4>2. Accepted(b)
          BY <2>5, <3>1, <4>1 DEF Accepted
        <4> QED BY <1>7, <4>2 DEF FrameChar
      <3>a. ~zero'
        BY <1>0, <3>1, <3>2 DEF mp1_ioctl_add
      <3> HIDE DEF b, ink
      <3>3. PICK s \in Slot \ Used :
              /\ Used' = Used \cup {s}
              /\ \A u \in Slot : u # s => blink_array'[u] = blink_array[u]
              /\ blink_array'[s].location = b.location
              /\ blink_array'[s].on_char = b.on_char /\ blink_array'[s].off_char = b.off_char
              /\ blink_array'[s].on_length = b.on_length /\ blink_array'[s].off_length = b.off_length
              /\ blink_array'[s].status = 1 /\ blink_array'[s].countdown = b.on_length
              /\ vmem' = [vmem EXCEPT ![b.location] = b.on_char]
        BY <1>0, <3>1, <3>2, AddFacts
      <3>4. ~Drawn(row, col)
        BY <1>0 DEF Drawn, Earlier
      <3>5. \A u \in Used : u \in Slot /\ blink_array[u].location # l
        <4>1. CellInv(row, col)
          BY <1>0, <1>5, <2>1, <2>2, <2>5 DEF Picture
        <4> QED BY <2>2, <3>4, <4>1 DEF CellInv, Used
      <3>6. \A u \in Used : blink_array'[u] = blink_array[u]
        BY <3>3, <3>5
      <3>7. Distinct'
        <4>1. Distinct
          BY <1>0 DEF Picture
        <4> HIDE DEF l
        <4>2. \A u \in Used' : blink_array'[u].location < Cells
          BY <2>5, <3>1, <3>3, <3>6, <4>1 DEF Distinct
        <4>3. \A u, v \in Used' : blink_array'[u].location = blink_array'[v].location => u = v
          BY <3>1, <3>3, <3>5, <3>6, <4>1 DEF Distinct
        <4> QED BY <4>2, <4>3 DEF Distinct
      <3>8. Turn = 0 /\ Turn' = 0 /\ (ticks % LENGTH)' = 0
        <4>1. LENGTH \in Nat \ {0}
          BY FishAssumption, WordFacts
        <4>2. 0 \div LENGTH = 0 /\ 0 % LENGTH = 0
          BY <4>1
        <4>3. 0 % 2 = 0
          OBVIOUS
        <4> QED BY <1>0, <4>2, <4>3 DEF Turn
      <3>9. ASSUME NEW r \in Nat, NEW k \in Columns, Place(r, k) < Cells
            PROVE  CellInv(r, k)'
        <4>1. CASE r = row /\ k = col
          <5>1. Drawn(r, k)'
            BY <1>3, <1>4, <1>7, <4>1
          <5>2. Shows(blink_array[s], r, k)'
            <6>1. LENGTH - 0 = LENGTH /\ 1 - 0 = 1
              BY FishAssumption, WordFacts
            <6> QED BY <1>0, <3>1, <3>3, <3>8, <4>1, <6>1 DEF Shows
          <5>3. \A u \in Used' : blink_array'[u].location = l => u = s
            BY <3>3, <3>5, <3>6
          <5>4. s \in Used' /\ blink_array'[s].location = l
            BY <3>1, <3>3
          <5>5. vmem'[l] = At(file'[Turn'], r, k)
            <6>1. l \in 0 .. Cells - 1
              BY <1>4, <2>2, <2>5
            <6>2. vmem'[l] = b.on_char
              BY <1>0, <3>1, <3>3, <6>1 DEF Pixels
            <6> QED BY <1>0, <3>1, <3>8, <4>1, <6>2
          <5>6. Place(r, k) = l
            BY <2>2, <4>1
          <5> HIDE DEF l
          <5> QED BY <5>1, <5>2, <5>3, <5>4, <5>5, <5>6 DEF CellInv, Place
        <4>2. CASE ~(r = row /\ k = col)
          <5>1. Drawn(r, k)' <=> Drawn(r, k)
            BY <1>3, <1>4, <4>2
          <5>2. CellInv(r, k)
            BY <1>0, <1>5, <3>9 DEF Picture
          <5>3. Place(r, k) # l
            BY <2>3, <4>2
          <5>4. vmem'[Place(r, k)] = vmem[Place(r, k)]
            <6>1. Place(r, k) \in 0 .. Cells - 1
              BY <1>4, <3>9, PlaceFacts
            <6> QED BY <1>0, <3>1, <3>3, <5>3, <6>1 DEF Pixels
          <5>5. /\ blink_array[s].location = 0 /\ blink_array'[s].location = l
                /\ Place(r, k) # 0
            <6>1. Place(r, k) > 0 /\ Place(r, k) \in Nat
              BY <1>4, PlaceFacts
            <6> QED BY <3>1, <3>3, <6>1 DEF Used
          <5> HIDE DEF l
          <5> QED BY <1>0, <3>3, <5>1, <5>2, <5>3, <5>4, <5>5, Elsewhere
        <4> QED BY <4>1, <4>2
      <3> QED BY <3>7, <3>9, <3>a DEF Picture, Place, Columns
    <2> QED BY <2>4, <2>5
  <1> QED BY <1>6, <1>7

\* The end of a row of both files, and of both files, leaves nothing undrawn.
LEMMA PictureRow ==
  ASSUME FishInv, ReadInv, ReadInv', PictureInv, Proper, FrameRow
  PROVE  Picture'
  <1>0. /\ TextType /\ eof \in [Frames -> BOOLEAN] /\ row \in Nat /\ col \in Nat
        /\ stage = "frames" /\ stage' \in {"frames", "wait1"} /\ stage \in Early
        /\ UNCHANGED <<library, file, ticks>> /\ row' = row + 1 /\ col' = 0
        /\ \A n \in Frames : Char(n) = NL
        /\ Picture /\ eof' = [n \in Frames |-> Eof(n)] /\ pos' = [n \in Frames |-> Pos(n)]
        /\ refused = {}
        /\ stage' = "wait1" => \A n \in Frames : Eof(n)
    BY DEF FishInv, ReadInv, TextType, FrameRow, Early, PictureInv, Proper
  <1>1. \A n \in Frames : Len(file[n]) \in Nat /\ DOMAIN file[n] = 1 .. Len(file[n])
    BY <1>0 DEF TextType
  <1>2. ASSUME NEW r \in Nat, NEW k \in Nat, Inked(r, k)
        PROVE  /\ r = row => k < col
               /\ stage' = "wait1" => r <= row
    <2>1. PICK n \in Frames : At(file[n], r, k) # Space
      BY <1>2 DEF Inked
    <2>2. PICK j \in 1 .. Len(file[n]) :
            file[n][j] # NL /\ RowOf(file[n], j) = r /\ ColOf(file[n], j) = k
      BY <1>1, <2>1, AtFacts
    <2>3. r = row => k < col
      BY <1>0, <2>2, RoundFacts DEF ReadInv
    <2>4. ASSUME stage' = "wait1" PROVE r <= row
      <3>1. Reading(file[n], Pos(n), Char(n), Eof(n), row, col + 1) /\ Eof(n)
        BY <1>0, <2>4, RoundFacts DEF ReadInv
      <3>2. Pos(n) = Len(file[n])
        BY <3>1 DEF Reading
      <3>3. Earlier(r, k, row, col + 1)
        BY <2>2, <3>1, <3>2 DEF Reading
      <3> QED BY <1>0, <3>3 DEF Earlier
    <2> QED BY <2>3, <2>4
  <1>3. ASSUME NEW r \in Nat, NEW k \in Columns PROVE Drawn(r, k)' <=> Drawn(r, k)
    <2>1. k \in Nat
      BY PlaceFacts DEF Columns
    <2>2. Inked(r, k)' <=> Inked(r, k)
      BY <1>0 DEF Inked
    <2>3. CASE ~Inked(r, k)
      BY <2>2, <2>3 DEF Drawn
    <2>4. CASE Inked(r, k)
      <3>1. (r = row => k < col) /\ (stage' = "wait1" => r <= row)
        BY <1>2, <2>1, <2>4
      <3>2. Earlier(r, k, row, col) <=> r <= row
        BY <1>0, <2>1, <3>1 DEF Earlier
      <3>3. Earlier(r, k, row + 1, 0) <=> r <= row
        BY <1>0, <2>1 DEF Earlier
      <3>4. "wait1" \notin Early
        BY DEF Early
      <3> QED BY <1>0, <2>2, <2>4, <3>1, <3>2, <3>3, <3>4 DEF Drawn
    <2> QED BY <2>3, <2>4
  <1>4. \A l : Kept(l)
    BY <1>0 DEF Kept
  <1> QED BY <1>0, <1>3, <1>4, PictureSame

\* The loops of main tick the whole picture.
LEMMA PictureTick ==
  ASSUME FishInv, PictureInv, Proper, NEW w \in 1 .. 4, Wait(w), stage' \in Early \cup Waiting
  PROVE  Picture' /\ vmem' \in Pixels /\ zero' = zero
  <1>0. /\ LibraryInv /\ stage \in Waiting /\ stage' = stage /\ mp1_rtc_tasklet
        /\ ticks' = ticks + 1 /\ UNCHANGED <<file, row, col, zero>>
    BY DEF FishInv, Wait, Loops, Waiting, Early, Reach, mp1_rtc_tasklet
  <1>1. vmem \in Pixels /\ ticks \in Nat /\ ~zero /\ Picture
    BY <1>0 DEF PictureInv
  <1>2. stage \notin Early
    BY <1>0 DEF Waiting, Early
  <1>3. \A r, k : Drawn(r, k)' <=> Drawn(r, k)
    BY <1>0 DEF Drawn, Inked
  <1>4. \A l : Kept(l)' <=> Kept(l)
    BY <1>0 DEF Kept
  <1>5. ASSUME NEW r \in Nat, NEW k \in Columns, Place(r, k) < Cells, Kept(Place(r, k))'
        PROVE  CellInv(r, k)'
    <2>1. CellInv(r, k)
      BY <1>1, <1>4, <1>5 DEF Picture
    <2> QED BY <1>0, <1>1, <1>3, <1>5, <2>1, CellTick
  <1>6. Picture'
    BY <1>0, <1>2, <1>5 DEF Picture, Place, Columns
  <1> QED BY <1>0, <1>1, <1>6, TickScreen

\* Between the loops, only the cell of the extra blink is touched.
LEMMA PictureIoctl ==
  ASSUME FishInv, PictureInv, Proper, NEW w \in 1 .. 4, Ioctl(w), stage' \in Waiting
  PROVE  Picture' /\ vmem' \in Pixels /\ ~zero'
  <1>0. /\ LibraryInv /\ stage \in Waiting /\ stage' \in Waiting \ {"wait1"}
        /\ UNCHANGED <<file, ticks, row, col>>
    BY DEF FishInv, Ioctl, Loops, Waiting
  <1>1. /\ vmem \in Pixels /\ Picture /\ ~zero /\ stage \notin Early /\ stage' \notin Early
        /\ blink_array \in [Slot -> Struct]
    BY <1>0 DEF PictureInv, Waiting, Early, LibraryInv, LibraryType
  <1>2. \A r, k : Drawn(r, k)' <=> Drawn(r, k)
    BY <1>0, <1>1 DEF Drawn, Inked
  <1>3. \A l : Kept(l)' => Kept(l) /\ l # EXTRA
    BY <1>0, <1>1 DEF Kept
  <1>4. EXTRA \in Nat \ {0} /\ Extra \in Struct /\ Extra.location = EXTRA /\ Extra.on_char \in Chars
    <2>1. EXTRA \in Nat \ {0} /\ EXTRA_ON \in Word /\ EXTRA_OFF \in Word
      BY FishAssumption, CellsNat DEF Word
    <2>2. "I" \in Chars /\ "M" \in Chars
      BY DEF Chars
    <2>3. Extra \in Struct /\ Extra.location = EXTRA
      BY <2>1, <2>2, MadeFacts DEF Extra
    <2> QED BY <2>1, <2>3 DEF Struct
  <1> DEFINE OnlyExtra ==
               /\ \A l \in 0 .. Cells - 1 : l # EXTRA => vmem'[l] = vmem[l]
               /\ \A s \in Slot : \A l : l # 0 /\ l # EXTRA =>
                    /\ blink_array'[s].location = l <=> blink_array[s].location = l
                    /\ blink_array[s].location = l =>
                         /\ blink_array'[s].on_char = blink_array[s].on_char
                         /\ blink_array'[s].off_char = blink_array[s].off_char
                         /\ blink_array'[s].on_length = blink_array[s].on_length
                         /\ blink_array'[s].off_length = blink_array[s].off_length
                         /\ blink_array'[s].status = blink_array[s].status
                         /\ blink_array'[s].countdown = blink_array[s].countdown
  <1>5. ASSUME mp1_ioctl_add(Extra) PROVE OnlyExtra /\ vmem' \in Pixels
    <2>1. PICK s \in Slot \ Used :
            /\ \A u \in Slot : u # s => blink_array'[u] = blink_array[u]
            /\ blink_array'[s].location = EXTRA
            /\ vmem' = [vmem EXCEPT ![EXTRA] = Extra.on_char]
      BY <1>0, <1>4, <1>5, AddFacts
    <2>2. blink_array[s].location = 0
      BY <2>1 DEF Used
    <2>3. vmem' \in Pixels /\ \A l \in 0 .. Cells - 1 : l # EXTRA => vmem'[l] = vmem[l]
      BY <1>1, <1>4, <2>1 DEF Pixels
    <2> QED BY <2>1, <2>2, <2>3
  <1>6. ASSUME mp1_ioctl_sync(OFFSET, EXTRA) PROVE OnlyExtra /\ vmem' \in Pixels
    <2> DEFINE f == mp1_find_helper(OFFSET)
               s == mp1_find_helper(EXTRA)
    <2>1. s \in Slot /\ blink_array[s].location = EXTRA
      BY <1>0, <1>6, FindFacts DEF mp1_ioctl_sync
    <2>2. /\ blink_array' = [blink_array EXCEPT ![s] = Synced(blink_array[f], blink_array[s])]
          /\ vmem' = [vmem EXCEPT ![EXTRA] = blink_array[s].off_char]
      BY <1>6 DEF mp1_ioctl_sync
    <2> HIDE DEF f, s
    <2>3. /\ \A u \in Slot : u # s => blink_array'[u] = blink_array[u]
          /\ blink_array'[s].location = EXTRA
      BY <1>1, <2>1, <2>2 DEF Synced, Struct
    <2>4. blink_array[s].off_char \in Chars
      BY <1>1, <2>1 DEF Struct
    <2>5. vmem' \in Pixels /\ \A l \in 0 .. Cells - 1 : l # EXTRA => vmem'[l] = vmem[l]
      BY <1>1, <2>2, <2>4 DEF Pixels
    <2> QED BY <2>1, <2>3, <2>5
  <1>7. ASSUME mp1_ioctl_remove(EXTRA) PROVE OnlyExtra /\ vmem' \in Pixels
    <2> DEFINE s == mp1_find_helper(EXTRA)
    <2>1. s \in Slot /\ blink_array[s].location = EXTRA
      BY <1>0, <1>7, FindFacts DEF mp1_ioctl_remove
    <2>2. blink_array' = Unlinked(s) /\ vmem' = vmem
      BY <1>7 DEF mp1_ioctl_remove
    <2> HIDE DEF s
    <2>3. blink_array'[s] = Free
      BY <2>1, <2>2 DEF Unlinked
    <2>4. \A u \in Slot : u # s =>
            /\ blink_array'[u].location = blink_array[u].location
            /\ blink_array'[u].on_char = blink_array[u].on_char
            /\ blink_array'[u].off_char = blink_array[u].off_char
            /\ blink_array'[u].on_length = blink_array[u].on_length
            /\ blink_array'[u].off_length = blink_array[u].off_length
            /\ blink_array'[u].status = blink_array[u].status
            /\ blink_array'[u].countdown = blink_array[u].countdown
      BY <1>1, <2>2 DEF Unlinked, Struct
    <2> QED BY <1>1, <2>1, <2>2, <2>3, <2>4, FreeFacts
  <1>8. OnlyExtra /\ vmem' \in Pixels
    <2>1. CASE UNCHANGED library
      BY <1>1, <2>1 DEF library
    <2>2. \/ mp1_ioctl_add(Extra) \/ mp1_ioctl_sync(OFFSET, EXTRA) \/ mp1_ioctl_remove(EXTRA)
          \/ UNCHANGED library
      BY DEF Ioctl
    <2> HIDE DEF OnlyExtra
    <2> QED BY <1>5, <1>6, <1>7, <2>1, <2>2
  <1>9. ASSUME NEW r \in Nat, NEW k \in Columns, Place(r, k) < Cells, Kept(Place(r, k))'
        PROVE  CellInv(r, k)'
    <2>1. CellInv(r, k) /\ Place(r, k) # EXTRA
      BY <1>1, <1>3, <1>9 DEF Picture
    <2>2. Place(r, k) \in 0 .. Cells - 1 /\ Place(r, k) # 0
      <3>1. k \in Nat
        BY BlinkAssumption DEF Columns
      <3>2. Place(r, k) \in Nat /\ Place(r, k) > 0 /\ Cells \in Nat
        BY <3>1, PlaceFacts
      <3> QED BY <1>9, <3>2
    <2>3. vmem'[Place(r, k)] = vmem[Place(r, k)]
      BY <1>8, <2>1, <2>2
    <2>4. \A s \in Slot :
           /\ blink_array'[s].location = Place(r, k) <=> blink_array[s].location = Place(r, k)
           /\ blink_array[s].location = Place(r, k) =>
                /\ blink_array'[s].on_char = blink_array[s].on_char
                /\ blink_array'[s].off_char = blink_array[s].off_char
                /\ blink_array'[s].on_length = blink_array[s].on_length
                /\ blink_array'[s].off_length = blink_array[s].off_length
                /\ blink_array'[s].status = blink_array[s].status
                /\ blink_array'[s].countdown = blink_array[s].countdown
      BY <1>8, <2>1, <2>2
    <2> QED BY <1>0, <1>2, <2>1, <2>3, <2>4, Elsewhere
  <1>10. Picture'
    BY <1>0, <1>1, <1>9 DEF Picture, Place, Columns
  <1>11. ~zero'
    BY <1>1, <1>4 DEF Ioctl, mp1_ioctl_add, mp1_ioctl_sync, mp1_ioctl_remove, library
  <1> QED BY <1>8, <1>10, <1>11

LEMMA PictureInitial == Init => PictureInv
  <1> SUFFICES ASSUME Init, stage = "start" PROVE PictureInv
    BY FishAssumption DEF Init, PictureInv, Early, Waiting
  <1>1. Used = {} /\ ~zero /\ vmem = [l \in 0 .. Cells - 1 |-> Untouched] /\ ticks = 0 /\ row = 0 /\ col = 0
    BY FreeFacts DEF Init, LibraryInit, Used
  <1>2. vmem \in Pixels
    BY <1>1 DEF Pixels
  <1>3. Distinct
    BY <1>1 DEF Distinct
  <1>4. ASSUME NEW r \in Nat, NEW k \in Columns, Place(r, k) < Cells PROVE CellInv(r, k)
    <2>1. k \in Nat /\ Place(r, k) \in 0 .. Cells - 1
      BY <1>4, PlaceFacts DEF Columns
    <2>2. ~Earlier(r, k, row, col)
      BY <1>1, <2>1 DEF Earlier
    <2>3. ~Drawn(r, k)
      BY <2>2 DEF Drawn, Early
    <2>4. vmem[Place(r, k)] = Untouched
      BY <1>1, <2>1
    <2> QED BY <1>1, <2>3, <2>4 DEF CellInv
  <1>5. Picture
    BY <1>3, <1>4 DEF Picture
  <1> QED BY <1>1, <1>2, <1>5 DEF PictureInv

\* Every step of fish keeps the picture.
LEMMA PictureStep == FishInv /\ ReadInv /\ PictureInv /\ [Next]_vars => PictureInv'
  <1> SUFFICES ASSUME FishInv, ReadInv, PictureInv, [Next]_vars, Proper,
                      stage' \in Early \cup Waiting
               PROVE  PictureInv'
    BY FilesKept DEF PictureInv, Proper
  <1>0. ReadInv'
    BY ReadStep
  <1>1. CASE Opened \/ OpenFails
    <2>1. /\ stage = "start" /\ stage' = "frames" /\ stage \in Early /\ stage' \in Early
          /\ UNCHANGED <<library, file, ticks, row, col>>
      BY <1>1 DEF Opened, OpenFails, Early, Waiting, Reach
    <2>2. \A r, k : Drawn(r, k)' <=> Drawn(r, k)
      BY <2>1 DEF Drawn, Inked
    <2>3. \A l : Kept(l)
      BY <2>1 DEF Kept
    <2>4. Picture'
      BY <2>1, <2>2, <2>3, PictureSame DEF PictureInv
    <2> QED BY <2>1, <2>4 DEF PictureInv, library, Pixels
  <1>2. CASE FrameChar
    <2>1. /\ stage = "frames" /\ stage \in Early /\ stage' = stage /\ ticks' = ticks
          /\ vmem \in Pixels /\ ticks = 0
      BY <1>2 DEF FrameChar, Early, PictureInv
    <2>2. Picture' /\ ~zero'
      BY <1>2, PictureChar
    <2>3. vmem' \in Pixels
      <3> DEFINE b == Filled(Location, Shown(Char(0)), Shown(Char(1)), LENGTH, LENGTH)
      <3>1. mp1_ioctl_add(b) \/ UNCHANGED library
        BY <1>2 DEF FrameChar
      <3>2. b.on_char \in Chars
        <4>1. b.on_char = Shown(Char(0))
          BY DEF Filled, Free
        <4>2. Shown(Char(0)) \in Chars
          <5>1. 0 \in Frames
            BY DEF Frames
          <5>2. Shown(Char(0)) \in {"0", "a", "b", Space}
            BY <5>1, CharFacts DEF FishInv
          <5> QED BY <5>2 DEF Chars
        <4> QED BY <4>1, <4>2
      <3> HIDE DEF b
      <3>3. CASE mp1_ioctl_add(b)
        BY <2>1, <3>2, <3>3 DEF mp1_ioctl_add, Pixels
      <3>4. CASE UNCHANGED library
        BY <2>1, <3>4 DEF library
      <3> QED BY <3>1, <3>3, <3>4
    <2> QED BY <2>1, <2>2, <2>3 DEF PictureInv, Pixels
  <1>3. CASE FrameRow
    <2>1. stage \in Early /\ ticks' = ticks /\ vmem' = vmem /\ zero' = zero
      BY <1>3 DEF FrameRow, Early, library
    <2>2. Picture'
      BY <1>0, <1>3, PictureRow
    <2> QED BY <2>1, <2>2 DEF PictureInv, Pixels
  <1>4. ASSUME NEW w \in 1 .. 4, Wait(w) PROVE PictureInv'
    <2>1. stage \in Waiting /\ stage' = stage /\ ticks' = ticks + 1
      BY <1>4 DEF Wait, Loops, Waiting, Early, Reach
    <2>2. Picture' /\ vmem' \in Pixels /\ stage \notin Early /\ zero' = zero
      BY <1>4, <2>1, PictureTick DEF Early, Waiting
    <2> QED BY <2>1, <2>2 DEF PictureInv, Pixels
  <1>5. ASSUME NEW w \in 1 .. 4, Ioctl(w) PROVE PictureInv'
    <2>1. stage \in Waiting /\ stage' \notin Early /\ ticks' = ticks
      BY <1>5 DEF Ioctl, Loops, Waiting, Early
    <2>2. Picture' /\ vmem' \in Pixels /\ ~zero'
      BY <1>5, <2>1, PictureIoctl
    <2> QED BY <2>1, <2>2 DEF PictureInv, Pixels
  <1>6. ~Other
    BY DEF Other, AnyAdd, AnyRemove, AnyFind, AnySync, AnyTick, AnyAgain, AnyHangs, Called, MayCall,
           Reach, Early, Waiting
  <1>7. CASE UNCHANGED vars
    <2>1. UNCHANGED <<library, file, ticks, row, col, stage>>
      BY <1>7 DEF vars, fish
    <2>2. \A r, k : Drawn(r, k)' <=> Drawn(r, k)
      BY <2>1 DEF Drawn, Inked
    <2>3. \A l : Kept(l)' <=> Kept(l)
      BY <2>1 DEF Kept
    <2>4. Picture'
      BY <2>1, <2>2, <2>3, PictureSame DEF PictureInv
    <2> QED BY <2>1, <2>4 DEF PictureInv, library, Pixels
  <1> QED BY <1>1, <1>2, <1>3, <1>4, <1>5, <1>6, <1>7 DEF Next, Main

\* Whatever the two files hold, as long as the places of their characters fit into a
\* row and into an unsigned short, the screen shows one of the two pictures, whole and
\* in its place, and after every LENGTH ticks the other one (add_frames,
\* mp1_ioctl_add, mp1_rtc_tasklet).
THEOREM WholeFrameCorrect == Spec => []WholeFrame
  <1>1. ReadInv /\ PictureInv => WholeFrame
    <2> SUFFICES ASSUME ReadInv, PictureInv, stage \in ToSet(Loops), \A n \in Frames : Fits(file[n]),
                        NEW r \in 0 .. NUM_ROWS - 1, NEW k \in 0 .. NUM_COLS - 1,
                        Place(r, k) < Cells, ~(Place(r, k) = EXTRA /\ stage # "wait1")
                 PROVE  vmem[Place(r, k)] =
                          IF \A n \in Frames : At(file[n], r, k) = Space THEN Untouched
                          ELSE At(file[Turn], r, k)
      BY DEF WholeFrame, Place, Turn
    <2>1. stage \in Waiting
      BY DEF ToSet, Loops, Waiting
    <2>2. stage \notin Early /\ Picture
      BY <2>1 DEF ReadInv, PictureInv, Proper, Early, Waiting
    <2>3. r \in Nat /\ k \in Columns /\ Kept(Place(r, k))
      BY <2>1, BlinkAssumption DEF Columns, Kept
    <2>4. CellInv(r, k)
      BY <2>2, <2>3 DEF Picture
    <2>5. Drawn(r, k) <=> ~(\A n \in Frames : At(file[n], r, k) = Space)
      BY <2>2 DEF Drawn, Inked
    <2> QED BY <2>4, <2>5 DEF CellInv
  <1> QED BY <1>1, FishInitial, FishStep, ReadInitial, ReadStep, PictureInitial, PictureStep,
             PTL DEF Spec

----------------------------------------------------------------------------
\* The keyboard.

\* What TypedRight needs of the tables: with shift, a letter becomes its capital and
\* any other key the second character of its pair.
Pairing(ch, sh) ==
  /\ ch \in Nat
  /\ Lower(ch) => sh = ch - 32
  /\ \A pair \in Pairs : pair[1] = ch => ~Lower(ch) /\ ch # 0 /\ sh = pair[2]

LEMMA RowsPair ==
  /\ \A n \in 1 .. 12 : Pairing(Digits[n], ShiftDigits[n])
  /\ \A n \in 1 .. 12 : Pairing(TopRow[n + 1], ShiftTop[n])
  /\ \A n \in 1 .. 12 : Pairing(HomeRow[n], ShiftHome[n])
  /\ \A n \in 1 .. 11 : Pairing(LastRow[n], ShiftLast[n])
  <1>1. \A n \in 1 .. 12 : Pairing(Digits[n], ShiftDigits[n])
    BY DEF Digits, ShiftDigits, Pairing, Lower, Pairs
  <1>2. \A n \in 1 .. 12 : Pairing(TopRow[n + 1], ShiftTop[n])
    BY DEF TopRow, ShiftTop, Pairing, Lower, Pairs
  <1>3. \A n \in 1 .. 12 : Pairing(HomeRow[n], ShiftHome[n])
    BY DEF HomeRow, ShiftHome, Pairing, Lower, Pairs
  <1>4. \A n \in 1 .. 11 : Pairing(LastRow[n], ShiftLast[n])
    BY DEF LastRow, ShiftLast, Pairing, Lower, Pairs
  <1> QED BY <1>1, <1>2, <1>3, <1>4

LEMMA TablesPair ==
  ASSUME NEW k \in MainBlock \ {ENTER}
  PROVE  Pairing(scan_code[k], shift_convert[k])
  <1> USE DEF MainBlock, ENTER, NUM_SCAN_CODES, NUM_CONVERT, SPACE
  <1>1. CASE k \in 2 .. 13
    <2>1. scan_code[k] = Digits[k - 1] /\ shift_convert[k] = ShiftDigits[k - 1]
      BY <1>1 DEF scan_code, shift_convert
    <2> QED BY <1>1, <2>1, RowsPair
  <1>2. CASE k \in 16 .. 27
    <2>1. scan_code[k] = TopRow[k - 14] /\ shift_convert[k] = ShiftTop[k - 15]
      BY <1>2 DEF scan_code, shift_convert
    <2>2. k - 15 \in 1 .. 12 /\ k - 14 = (k - 15) + 1
      BY <1>2
    <2> QED BY <2>1, <2>2, RowsPair
  <1>3. CASE k \in 30 .. 41
    <2>1. scan_code[k] = HomeRow[k - 29] /\ shift_convert[k] = ShiftHome[k - 29]
      BY <1>3 DEF scan_code, shift_convert
    <2> QED BY <1>3, <2>1, RowsPair
  <1>4. CASE k \in 43 .. 53
    <2>1. scan_code[k] = LastRow[k - 42] /\ shift_convert[k] = ShiftLast[k - 42]
      BY <1>4 DEF scan_code, shift_convert
    <2> QED BY <1>4, <2>1, RowsPair
  <1>5. CASE k \in {14, 29, 42, 54}
    <2>1. scan_code[k] = 0
      BY <1>5 DEF scan_code
    <2> QED BY <2>1 DEF Pairing, Lower, Pairs
  <1>6. CASE k = 15
    <2>1. scan_code[k] = TopRow[1]
      BY <1>6 DEF scan_code
    <2>2. TopRow[1] = 9
      BY DEF TopRow
    <2> QED BY <2>1, <2>2 DEF Pairing, Lower, Pairs
  <1>7. k \in 2 .. 13 \/ k \in 16 .. 27 \/ k \in 30 .. 41 \/ k \in 43 .. 53
        \/ k \in {14, 29, 42, 54} \/ k = 15
    OBVIOUS
  <1> QED BY <1>1, <1>2, <1>3, <1>4, <1>5, <1>6, <1>7

LEMMA EnterFacts == scan_code[ENTER] = 10
  <1>1. scan_code[ENTER] = TopRow[14]
    BY DEF scan_code, ENTER, NUM_SCAN_CODES, SPACE
  <1>2. TopRow[14] = 10
    BY DEF TopRow
  <1> QED BY <1>1, <1>2

\* The marks and the keys that are down: a shift is marked exactly when it is down;
\* Alt is marked only when one of the two is, for it has one mark for both.
Marks == {LEFTSHIFT, RIGHTSHIFT, LEFTALT}
KeysInv ==
  /\ held \subseteq Modifiers
  /\ pressed_key \in [Marks -> {0, 1}]
  /\ cap_status \in {0, 1}
  /\ \A k \in Shifts : pressed_key[k] = 1 <=> k \in held
  /\ Deaf => held \cap Alts # {}

LEMMA ModifierFacts ==
  /\ Shifts \subseteq Marks /\ LEFTALT \in Marks /\ LEFTALT \notin Shifts
  /\ RIGHTALT \notin Marks /\ Alts = {LEFTALT, RIGHTALT} /\ Modifiers = Shifts \cup Alts
  BY DEF Modifiers, Shifts, Alts, Marks, LEFTSHIFT, RIGHTSHIFT, LEFTALT, RIGHTALT

\* The mark of a key, and which mark it is.
MarkOf(k) == IF k = RIGHTALT THEN LEFTALT ELSE k

LEMMA MarksFacts ==
  ASSUME KeysInv, NEW k \in Modifiers
  PROVE  /\ MarksAfterKey(k, FALSE) = [pressed_key EXCEPT ![MarkOf(k)] = 1]
         /\ MarksAfterKey(k, TRUE) = [pressed_key EXCEPT ![MarkOf(k)] = 0]
  <1> USE DEF Modifiers, Shifts, Alts, Marks, LEFTSHIFT, RIGHTSHIFT, LEFTALT, RIGHTALT
  <1>1. pressed_key \in [Marks -> {0, 1}]
    BY DEF KeysInv
  <1>2. MarksAfter(pressed_key, 224) = pressed_key
    BY <1>1 DEF MarksAfter, RELEASE
  <1>3. MarksAfterKey(k, FALSE) = MarksAfter(pressed_key, MarkOf(k))
    BY <1>2 DEF MarksAfterKey, MarkOf
  <1>4. MarksAfterKey(k, TRUE) = MarksAfter(pressed_key, MarkOf(k) + 128)
    BY <1>2 DEF MarksAfterKey, MarkOf
  <1>5. MarkOf(k) \in 0 .. 127
    BY DEF MarkOf
  <1> DEFINE m == MarkOf(k)
  <1>6. ~(m > 127) /\ m + 128 > 127 /\ (m + 128) - 128 = m
    BY <1>5
  <1> HIDE DEF m
  <1>7. MarksAfter(pressed_key, m) = [pressed_key EXCEPT ![m] = 1]
    BY <1>1, <1>6 DEF MarksAfter
  <1>8. MarksAfter(pressed_key, m + 128) = [pressed_key EXCEPT ![m] = 0]
    BY <1>1, <1>6 DEF MarksAfter, RELEASE
  <1> QED BY <1>3, <1>4, <1>7, <1>8 DEF m

LEMMA KeysStep == KeysInv /\ [ConsoleNext]_all => KeysInv'
  <1> SUFFICES ASSUME KeysInv, [ConsoleNext]_all PROVE KeysInv'
    OBVIOUS
  <1>1. CASE UNCHANGED keys
    BY <1>1 DEF keys, KeysInv, Deaf
  <1>2. CASE CapsLock
    BY <1>2 DEF CapsLock, KeysInv, Deaf
  <1>3. ASSUME NEW k \in Modifiers, ModifierDown(k) PROVE KeysInv'
    <2>1. held' = held \cup {k} /\ pressed_key' = [pressed_key EXCEPT ![MarkOf(k)] = 1]
          /\ cap_status' = cap_status
      BY <1>3, MarksFacts DEF ModifierDown
    <2>2. held' \subseteq Modifiers /\ pressed_key' \in [Marks -> {0, 1}] /\ cap_status' \in {0, 1}
      BY <2>1 DEF KeysInv
    <2>3. \A m \in Shifts : pressed_key'[m] = 1 <=> m \in held'
      BY <2>1, ModifierFacts DEF KeysInv, MarkOf
    <2>4. pressed_key'[LEFTALT] = 1 => held' \cap Alts # {}
      BY <2>1, ModifierFacts DEF KeysInv, MarkOf, Deaf
    <2> QED BY <2>2, <2>3, <2>4 DEF KeysInv, Deaf
  <1>4. ASSUME NEW k \in Modifiers, ModifierUp(k) PROVE KeysInv'
    <2>1. held' = held \ {k} /\ pressed_key' = [pressed_key EXCEPT ![MarkOf(k)] = 0]
          /\ cap_status' = cap_status
      BY <1>4, MarksFacts DEF ModifierUp
    <2>2. held' \subseteq Modifiers /\ pressed_key' \in [Marks -> {0, 1}] /\ cap_status' \in {0, 1}
      BY <2>1 DEF KeysInv
    <2>3. \A m \in Shifts : pressed_key'[m] = 1 <=> m \in held'
      BY <2>1, ModifierFacts DEF KeysInv, MarkOf
    <2>4. pressed_key'[LEFTALT] = 1 => held' \cap Alts # {}
      BY <2>1, ModifierFacts DEF KeysInv, MarkOf, Deaf
    <2> QED BY <2>2, <2>3, <2>4 DEF KeysInv, Deaf
  <1>5. UNCHANGED keys \/ CapsLock \/ \E k \in Modifiers : ModifierDown(k) \/ ModifierUp(k)
    BY DEF ConsoleNext, TypeKey, EnterKey, CommandAt1, Caps, Modifier, Execute, GetargsCall,
           GetargsTest, GetargsCopy, Ends, all, keys
  <1> QED BY <1>1, <1>2, <1>3, <1>4, <1>5

\* What a key types follows from the marks and the tables.
LEMMA TypedFacts ==
  ASSUME KeysInv
  PROVE  TypedRight
  <1>1. ShiftMarked <=> held \cap Shifts # {}
    BY DEF KeysInv, ShiftMarked, Shifts
  <1>2. ASSUME NEW k \in MainBlock \ {ENTER}
        PROVE  LET shift == held \cap Shifts # {}
                   ch == scan_code[k] IN
               /\ Lower(ch) => char_match(k) = {IF shift # (cap_status = 1) THEN ch - 32 ELSE ch}
               /\ \A pair \in Pairs : pair[1] = ch => char_match(k) = {IF shift THEN pair[2] ELSE ch}
    <2>1. Pairing(scan_code[k], shift_convert[k]) /\ k # ENTER /\ ~(k >= NUM_CONVERT)
      BY TablesPair DEF MainBlock, NUM_CONVERT
    <2>2. Lower(scan_code[k]) => scan_code[k] # 0
      BY DEF Lower
    <2>3. scan_code[k] # 0 => char_match(k) = {IF Converted(k) THEN shift_convert[k] ELSE scan_code[k]}
      BY <2>1 DEF char_match
    <2>4. Lower(scan_code[k]) => (Converted(k) <=> (held \cap Shifts # {}) # (cap_status = 1))
      BY <1>1 DEF Converted
    <2>5. ~Lower(scan_code[k]) => (Converted(k) <=> held \cap Shifts # {})
      BY <1>1 DEF Converted
    <2> QED BY <2>1, <2>2, <2>3, <2>4, <2>5 DEF Pairing
  <1>3. char_match(ENTER) = {10}
    BY EnterFacts DEF char_match
  <1>4. Deaf => held \cap Alts # {}
    BY DEF KeysInv
  <1> QED BY <1>2, <1>3, <1>4 DEF TypedRight

\* What a key types is decided by the keys that are down, whatever was pressed,
\* repeated and let go before.
THEOREM TypedCorrect == ConsoleSpec => []TypedRight
  <1>1. ConsoleInit => KeysInv
    BY DEF ConsoleInit, KeysInit, KeysInv, Deaf, Marks, Shifts, Alts, LEFTSHIFT, RIGHTSHIFT,
           LEFTALT, Modifiers
  <1>2. KeysInv => TypedRight
    BY TypedFacts
  <1> QED BY <1>1, <1>2, KeysStep, PTL DEF ConsoleSpec

----------------------------------------------------------------------------
\* Strings and commands.

Byte == 0 .. 255
Letter == 1 .. 255

\* Where a character stands first in a sequence that ends with it.
LEMMA FirstFacts ==
  ASSUME NEW T, NEW s \in Seq(T), NEW b \in T
  PROVE  LET m == SelectInSeq(Append(s, b), LAMBDA x : x = b) IN
         m \in 1 .. Len(s) + 1 /\ (\A k \in 1 .. m - 1 : s[k] # b) /\ (m <= Len(s) => s[m] = b)
  <1> DEFINE I == {k \in 1 .. Len(Append(s, b)) : Append(s, b)[k] = b}
             m == SelectInSeq(Append(s, b), LAMBDA x : x = b)
  <1>1. /\ Len(s) \in Nat /\ Len(Append(s, b)) = Len(s) + 1 /\ Append(s, b)[Len(s) + 1] = b
        /\ \A k \in 1 .. Len(s) : Append(s, b)[k] = s[k]
    OBVIOUS
  <1>2. m = IF I # {} THEN Min(I) ELSE 0
    BY DEF SelectInSeq
  <1>3. Len(s) + 1 \in I /\ I \subseteq Nat
    BY <1>1
  <1>4. \E n \in I : \A k \in I : n <= k
    <2> HIDE DEF I
    <2> QED BY <1>3, LeastOf
  <1>5. Min(I) \in I /\ \A k \in I : Min(I) <= k
    <2> HIDE DEF I
    <2> QED BY <1>4 DEF Min
  <1>6. m \in I /\ \A k \in I : m <= k
    BY <1>2, <1>3, <1>5
  <1> HIDE DEF m
  <1>7. m \in 1 .. Len(s) + 1 /\ Append(s, b)[m] = b
    BY <1>1, <1>6
  <1>8. ASSUME NEW k \in 1 .. m - 1 PROVE s[k] # b
    <2>1. k \in 1 .. Len(s) /\ ~(m <= k)
      BY <1>1, <1>7
    <2>2. k \notin I
      BY <1>6, <2>1
    <2> QED BY <1>1, <2>1, <2>2
  <1>9. m <= Len(s) => s[m] = b
    BY <1>1, <1>7
  <1> QED BY <1>7, <1>8, <1>9 DEF m

\* A C string has no 0 in it, and is the whole sequence if that has none.
LEMMA UpTo0Facts ==
  ASSUME NEW s \in Seq(Byte)
  PROVE  UpTo0(s) \in Seq(Letter) /\ (s \in Seq(Letter) => UpTo0(s) = s)
  <1> DEFINE m == SelectInSeq(Append(s, 0), LAMBDA x : x = 0)
  <1>1. m \in 1 .. Len(s) + 1 /\ (\A k \in 1 .. m - 1 : s[k] # 0) /\ (m <= Len(s) => s[m] = 0)
    <2>1. 0 \in Byte
      BY DEF Byte
    <2> QED BY <2>1, FirstFacts
  <1>2. UpTo0(s) = SubSeq(Append(s, 0), 1, m - 1)
    BY DEF UpTo0, String, strlen
  <1> HIDE DEF m
  <1>3. UpTo0(s) = SubSeq(s, 1, m - 1)
    BY <1>1, <1>2 DEF Byte
  <1>4. ASSUME NEW k \in 1 .. m - 1 PROVE s[k] \in Letter
    <2>1. k \in 1 .. Len(s) /\ s[k] # 0
      BY <1>1
    <2>2. s[k] \in Byte
      BY <2>1
    <2> QED BY <2>1, <2>2 DEF Byte, Letter
  <1>5. UpTo0(s) \in Seq(Letter)
    BY <1>1, <1>3, <1>4
  <1>6. ASSUME s \in Seq(Letter) PROVE UpTo0(s) = s
    <2>1. m = Len(s) + 1
      <3>1. \A k \in 1 .. Len(s) : s[k] \in Letter
        BY <1>6
      <3>2. \A k \in 1 .. Len(s) : s[k] # 0
        <4>1. 0 \notin Letter
          BY DEF Letter
        <4> QED BY <3>1, <4>1
      <3> QED BY <1>1, <3>2
    <2> QED BY <1>3, <2>1
  <1> QED BY <1>5, <1>6

\* Dropping the spaces, one character after the other.
IsKept(g, s) ==
  /\ g \in [0 .. Len(s) -> Seq(Letter)] /\ g[0] = << >>
  /\ \A n \in 0 .. Len(s) - 1 : g[n + 1] = Keep(g[n], s[n + 1])

LEMMA KeepFacts ==
  ASSUME NEW q \in Seq(Letter), NEW ch \in Letter
  PROVE  Keep(q, ch) \in Seq(Letter)
  BY DEF Keep

LEMMA KeptFacts ==
  ASSUME NEW s \in Seq(Letter)
  PROVE  \E g : IsKept(g, s) /\ NoBlanks(s) = g[Len(s)]
  <1> DEFINE T == Seq(Letter)
             F == [k \in Nat |-> [q \in T |-> IF k \in 1 .. Len(s) THEN Keep(q, s[k]) ELSE q]]
             Fix(f) == f = [n \in 0 .. Len(s) |-> IF n = 0 THEN << >> ELSE Keep(f[n - 1], s[n])]
             W == CHOOSE f : Fix(f)
  <1>1. << >> \in T /\ Len(s) \in Nat /\ \A k \in 1 .. Len(s) : s[k] \in Letter
    OBVIOUS
  <1> HIDE DEF T
  <1>2. \A k \in Nat, q \in T : (IF k \in 1 .. Len(s) THEN Keep(q, s[k]) ELSE q) \in T
    BY <1>1, KeepFacts DEF T
  <1>3. F \in [Nat -> [T -> T]] /\ \A k \in 1 .. Len(s), q \in T : F[k][q] = Keep(q, s[k])
    BY <1>2
  <1> HIDE DEF F
  <1>4. PICK f : IsIterate(f, T, << >>, F, Len(s))
    BY <1>1, <1>3, Iterates
  <1>5. /\ f \in [0 .. Len(s) -> T] /\ f[0] = << >>
        /\ \A n \in 1 .. Len(s) : f[n] = Keep(f[n - 1], s[n])
    <2>1. /\ f \in [0 .. Len(s) -> T] /\ f[0] = << >>
          /\ \A n \in 1 .. Len(s) : f[n] = F[n][f[n - 1]]
      BY <1>4 DEF IsIterate
    <2>2. \A n \in 1 .. Len(s) : f[n - 1] \in T
      BY <1>1, <2>1
    <2> QED BY <1>3, <2>1, <2>2
  <1>6. Fix(f)
    BY <1>1, <1>5
  <1>7. NoBlanks(s) = W[Len(s)]
    BY DEF NoBlanks
  <1>8. Fix(W)
    <2> HIDE DEF Fix
    <2> QED BY <1>6
  <1> HIDE DEF W
  <1>9. W[0] = << >> /\ \A n \in 0 .. Len(s) - 1 : W[n + 1] = Keep(W[n], s[n + 1])
    <2>1. W[0] = << >> /\ \A n \in 1 .. Len(s) : W[n] = Keep(W[n - 1], s[n])
      BY <1>1, <1>8
    <2>2. \A n \in 0 .. Len(s) - 1 : n + 1 \in 1 .. Len(s) /\ (n + 1) - 1 = n
      BY <1>1
    <2> QED BY <2>1, <2>2
  <1>10. \A n \in 0 .. Len(s) : W[n] \in T
    <2> DEFINE S == {n \in Nat : n <= Len(s) => W[n] \in T}
    <2>1. 0 \in S
      BY <1>1, <1>9
    <2>2. ASSUME NEW k \in Nat, k \in S PROVE k + 1 \in S
      <3> SUFFICES ASSUME k + 1 <= Len(s) PROVE W[k + 1] \in T
        OBVIOUS
      <3>1. W[k] \in T /\ k + 1 \in 1 .. Len(s) /\ W[k + 1] = Keep(W[k], s[k + 1])
        BY <1>1, <1>9, <2>2
      <3> QED BY <1>1, <3>1, KeepFacts DEF T
    <2>3. Nat \subseteq S
      <3> HIDE DEF S
      <3> QED BY <2>1, <2>2, Induction
    <2> QED BY <2>3
  <1>11. W \in [0 .. Len(s) -> T]
    BY <1>8, <1>10
  <1> QED BY <1>7, <1>9, <1>11 DEF IsKept, T

LEMMA AppendLetter ==
  ASSUME NEW q \in Seq(Letter), NEW r \in Seq(Letter), NEW x \in Letter
  PROVE  Append(q \o r, x) = q \o Append(r, x)
  <1>1. q \o r \in Seq(Letter) /\ <<x>> \in Seq(Letter)
    OBVIOUS
  <1>2. Append(q \o r, x) = (q \o r) \o <<x>> /\ Append(r, x) = r \o <<x>>
    BY <1>1, AppendIsConcat
  <1>3. (q \o r) \o <<x>> = q \o (r \o <<x>>)
    BY <1>1, ConcatAssociative
  <1> QED BY <1>2, <1>3, Zenon

\* Name and arguments together are the command without its spaces.
LEMMA SplitFacts ==
  ASSUME NEW cmd \in Seq(Letter)
  PROVE  /\ Arguments(cmd) \in Seq(Letter) /\ InFile(cmd) \in Seq(Letter)
         /\ InFile(cmd) \o Arguments(cmd) = NoBlanks(cmd)
  <1> DEFINE e == NameEnd(cmd)
             name == SubSeq(cmd, 1, e)
             tail == SubSeq(cmd, e + 1, Len(cmd))
  <1>1. Blank \in Letter
    BY DEF Letter, Blank
  <1>2. e \in 0 .. Len(cmd) /\ \A k \in 1 .. e : cmd[k] # Blank
    <2> DEFINE m == SelectInSeq(Append(cmd, Blank), LAMBDA x : x = Blank)
    <2>1. m \in 1 .. Len(cmd) + 1 /\ (\A k \in 1 .. m - 1 : cmd[k] # Blank) /\ (m <= Len(cmd) => cmd[m] = Blank)
      BY <1>1, FirstFacts
    <2>2. e = m - 1
      BY DEF NameEnd
    <2> HIDE DEF m, e
    <2> QED BY <2>1, <2>2
  <1> HIDE DEF e
  <1>3. /\ name \in Seq(Letter) /\ Len(name) = e /\ \A k \in 1 .. e : name[k] = cmd[k]
        /\ tail \in Seq(Letter) /\ Len(tail) = Len(cmd) - e
        /\ \A k \in 1 .. Len(cmd) - e : tail[k] = cmd[e + k]
    <2>1. /\ \A k \in 1 .. Len(cmd) : cmd[k] \in Letter
          /\ e \in Int /\ e + 1 \in Int /\ Len(cmd) \in Int /\ Len(cmd) - (e + 1) + 1 = Len(cmd) - e
      BY <1>2
    <2>2. /\ \A k \in 1 .. e : cmd[k] \in Letter /\ 1 + k - 1 = k
          /\ \A k \in e + 1 .. Len(cmd) : cmd[k] \in Letter
          /\ \A k \in 1 .. Len(cmd) - e : (e + 1) + k - 1 = e + k
      BY <1>2, <2>1
    <2>3. /\ name \in Seq(Letter) /\ Len(name) = (IF 1 <= e THEN e - 1 + 1 ELSE 0)
          /\ \A k \in 1 .. e - 1 + 1 : name[k] = cmd[1 + k - 1]
      BY <2>1, <2>2, SubSeqProperties
    <2>4. /\ tail \in Seq(Letter)
          /\ Len(tail) = (IF e + 1 <= Len(cmd) THEN Len(cmd) - (e + 1) + 1 ELSE 0)
          /\ \A k \in 1 .. Len(cmd) - (e + 1) + 1 : tail[k] = cmd[(e + 1) + k - 1]
      BY <2>1, <2>2, SubSeqProperties
    <2> HIDE DEF name, tail
    <2>5. Len(name) = e /\ Len(tail) = Len(cmd) - e /\ 1 .. e - 1 + 1 = 1 .. e
      BY <1>2, <2>3, <2>4
    <2>6. \A k \in 1 .. e : name[k] = cmd[k]
      BY <2>2, <2>3, <2>5
    <2>7. ASSUME NEW k \in 1 .. Len(cmd) - e PROVE tail[k] = cmd[e + k]
      <3>1. k \in 1 .. Len(cmd) - (e + 1) + 1 /\ (e + 1) + k - 1 = e + k
        BY <2>1
      <3>2. tail[k] = cmd[(e + 1) + k - 1]
        BY <2>4, <3>1
      <3> QED BY <3>1, <3>2
    <2> QED BY <2>3, <2>4, <2>5, <2>6, <2>7
  <1> HIDE DEF name, tail
  <1>4. PICK g : IsKept(g, cmd) /\ NoBlanks(cmd) = g[Len(cmd)]
    BY KeptFacts
  <1>5. PICK h : IsKept(h, tail) /\ NoBlanks(tail) = h[Len(tail)]
    BY <1>3, KeptFacts
  <1>6. g[e] = name
    <2> DEFINE S == {n \in Nat : n <= e => g[n] = SubSeq(name, 1, n)}
    <2>1. 0 \in S
      <3>1. g[0] = << >> /\ SubSeq(name, 1, 0) = << >>
        BY <1>4, SubSeqEmpty DEF IsKept
      <3> QED BY <3>1
    <2>2. ASSUME NEW k \in Nat, k \in S PROVE k + 1 \in S
      <3> SUFFICES ASSUME k + 1 <= e PROVE g[k + 1] = SubSeq(name, 1, k + 1)
        OBVIOUS
      <3>1. g[k] = SubSeq(name, 1, k) /\ k + 1 \in 1 .. e /\ k \in 0 .. Len(cmd) - 1
            /\ k \in 0 .. Len(cmd)
        BY <1>2, <2>2
      <3>2. g[k + 1] = Keep(g[k], cmd[k + 1])
        BY <1>4, <3>1 DEF IsKept
      <3>3. g[k + 1] = Append(SubSeq(name, 1, k), name[k + 1])
        BY <1>2, <1>3, <3>1, <3>2 DEF Keep
      <3>4. /\ 1 \in 1 .. Len(name) /\ k + 1 \in 1 .. Len(name) /\ (k + 1) - 1 = k
            /\ name[k + 1] \in Letter
        BY <1>2, <1>3, <3>1
      <3>5. SubSeq(name, 1, k + 1) = SubSeq(name, 1, k) \o <<name[k + 1]>>
        BY <1>3, <3>4, SubSeqRecursiveSecond
      <3>6. SubSeq(name, 1, k) \in Seq(Letter)
        BY <1>4, <3>1 DEF IsKept
      <3> QED BY <3>3, <3>4, <3>5, <3>6, AppendIsConcat
    <2>3. Nat \subseteq S
      <3> HIDE DEF S
      <3> QED BY <2>1, <2>2, Induction
    <2>4. g[e] = SubSeq(name, 1, e)
      BY <1>2, <2>3
    <2> QED BY <1>3, <2>4, SubSeqFull
  <1>7. g[Len(cmd)] = name \o h[Len(tail)]
    <2> DEFINE S == {n \in Nat : n <= Len(tail) => g[e + n] = name \o h[n]}
    <2>1. 0 \in S
      <3>1. h[0] = << >> /\ name \o << >> = name /\ e + 0 = e
        BY <1>2, <1>3, <1>5, ConcatEmptySeq DEF IsKept
      <3> QED BY <1>6, <3>1
    <2>2. ASSUME NEW k \in Nat, k \in S PROVE k + 1 \in S
      <3> SUFFICES ASSUME k + 1 <= Len(tail) PROVE g[e + (k + 1)] = name \o h[k + 1]
        OBVIOUS
      <3>1. /\ g[e + k] = name \o h[k] /\ k \in 0 .. Len(tail) - 1 /\ e + k \in 0 .. Len(cmd) - 1
            /\ e + (k + 1) = (e + k) + 1 /\ k + 1 \in 1 .. Len(tail) /\ k \in 0 .. Len(tail)
        BY <1>2, <1>3, <2>2
      <3>2. g[(e + k) + 1] = Keep(g[e + k], cmd[(e + k) + 1])
        BY <1>4, <3>1 DEF IsKept
      <3>3. h[k + 1] = Keep(h[k], tail[k + 1]) /\ h[k] \in Seq(Letter)
        BY <1>5, <3>1 DEF IsKept
      <3>4. tail[k + 1] = cmd[(e + k) + 1] /\ tail[k + 1] \in Letter
        <4>1. k + 1 \in 1 .. Len(cmd) - e
          BY <1>3, <3>1
        <4>2. tail[k + 1] = cmd[e + (k + 1)]
          BY <1>3, <4>1
        <4> QED BY <1>3, <3>1, <4>2, ElementOfSeq
      <3>5. Append(name \o h[k], tail[k + 1]) = name \o Append(h[k], tail[k + 1])
        <4> DEFINE r == h[k]
                   x == tail[k + 1]
        <4>1. name \in Seq(Letter) /\ r \in Seq(Letter) /\ x \in Letter
          BY <1>3, <3>3, <3>4
        <4> HIDE DEF r, x
        <4>2. Append(name \o r, x) = name \o Append(r, x)
          BY <4>1, AppendLetter, Zenon
        <4> QED BY <4>2 DEF r, x
      <3> QED BY <3>1, <3>2, <3>3, <3>4, <3>5 DEF Keep
    <2>3. Nat \subseteq S
      <3> HIDE DEF S
      <3> QED BY <2>1, <2>2, Induction
    <2>4. Len(tail) \in Nat /\ e + Len(tail) = Len(cmd)
      BY <1>2, <1>3
    <2>5. g[e + Len(tail)] = name \o h[Len(tail)]
      BY <2>3, <2>4
    <2> QED BY <2>4, <2>5
  <1>8. Arguments(cmd) = h[Len(tail)] /\ InFile(cmd) = name
    BY <1>5 DEF Arguments, InFile, name, tail, e
  <1>9. h[Len(tail)] \in Seq(Letter)
    BY <1>3, <1>5 DEF IsKept
  <1> QED BY <1>3, <1>4, <1>7, <1>8, <1>9

\* The tables hold bytes.
LEMMA TablesByte ==
  ASSUME NEW k \in 1 .. 127
  PROVE  char_match(k) \subseteq Byte
  <1> USE DEF SPACE, NUM_SCAN_CODES, NUM_CONVERT
  <1>1. /\ \A n \in 1 .. 12 : Digits[n] \in Byte /\ HomeRow[n] \in Byte /\ Keypad[n] \in Byte
        /\ \A n \in 1 .. 14 : TopRow[n] \in Byte
        /\ \A n \in 1 .. 11 : LastRow[n] \in Byte
    BY DEF Digits, HomeRow, Keypad, TopRow, LastRow, Byte
  <1>2. /\ \A n \in 1 .. 12 : ShiftDigits[n] \in Byte /\ ShiftHome[n] \in Byte /\ ShiftTop[n] \in Byte
        /\ \A n \in 1 .. 11 : ShiftLast[n] \in Byte
    BY DEF ShiftDigits, ShiftHome, ShiftTop, ShiftLast, Byte
  <1>3. scan_code[k] \in Byte
    <2>1. /\ k \in 2 .. 13 => scan_code[k] = Digits[k - 1] /\ k - 1 \in 1 .. 12
          /\ k \in 15 .. 28 => scan_code[k] = TopRow[k - 14] /\ k - 14 \in 1 .. 14
          /\ k \in 30 .. 41 => scan_code[k] = HomeRow[k - 29] /\ k - 29 \in 1 .. 12
          /\ k \in 43 .. 53 => scan_code[k] = LastRow[k - 42] /\ k - 42 \in 1 .. 11
          /\ k \in 71 .. 82 => scan_code[k] = Keypad[k - 70] /\ k - 70 \in 1 .. 12
          /\ k \notin (2 .. 13 \cup 15 .. 28 \cup 30 .. 41 \cup 43 .. 53 \cup 71 .. 82) =>
               scan_code[k] \in {42, 32, 10, 0}
      BY DEF scan_code
    <2>2. {42, 32, 10, 0} \subseteq Byte
      BY DEF Byte
    <2> QED BY <1>1, <2>1, <2>2
  <1>4. k < NUM_CONVERT => shift_convert[k] \in Byte
    <2>1. /\ k \in 2 .. 13 => shift_convert[k] = ShiftDigits[k - 1] /\ k - 1 \in 1 .. 12
          /\ k \in 16 .. 27 => shift_convert[k] = ShiftTop[k - 15] /\ k - 15 \in 1 .. 12
          /\ k \in 30 .. 41 => shift_convert[k] = ShiftHome[k - 29] /\ k - 29 \in 1 .. 12
          /\ k \in 43 .. 53 => shift_convert[k] = ShiftLast[k - 42] /\ k - 42 \in 1 .. 11
          /\ k < NUM_CONVERT /\ k \notin (2 .. 13 \cup 16 .. 27 \cup 30 .. 41 \cup 43 .. 53) =>
               shift_convert[k] = 0
      BY DEF shift_convert
    <2>2. 0 \in Byte
      BY DEF Byte
    <2> QED BY <1>2, <2>1, <2>2
  <1>5. {0} \subseteq Byte /\ {10} \subseteq Byte /\ 0 .. 255 \subseteq Byte
    BY DEF Byte
  <1> QED BY <1>3, <1>4, <1>5 DEF char_match

----------------------------------------------------------------------------
\* execute and getargs.

InProgram == {"program", "test", "copy", "got", "none"}
ConsoleType ==
  /\ line \in Seq(Byte) /\ argBuf \in Seq(Letter) /\ argSize = Len(argBuf)
  /\ pc \in [Terminals -> {"shell", "entered"} \cup InProgram]
  /\ command \in [Terminals -> Seq(Letter)] /\ own \in [Terminals -> Seq(Letter)]
  /\ i \in [Terminals -> Nat] /\ buf \in [Terminals -> Seq(Byte)]
  /\ quiet \in [Terminals -> BOOLEAN]

\* As long as no other execute has come, argBuf holds the arguments of the
\* program's command, and what getargs has copied is the beginning of them.
Copied(t) ==
  /\ Len(buf[t]) = i[t] /\ i[t] <= Len(argBuf)
  /\ \A k \in 1 .. i[t] : buf[t][k] = argBuf[k]
Mine(t) ==
  /\ pc[t] \in InProgram /\ argBuf = Arguments(own[t])
  /\ pc[t] \in {"test", "copy", "got"} => Copied(t)
  /\ pc[t] = "copy" => i[t] < Len(argBuf)
  /\ pc[t] = "got" => i[t] = Len(argBuf)
  /\ pc[t] = "none" => argBuf = << >>
ConsoleInv == ConsoleType /\ \A t \in Terminals : quiet[t] => Mine(t)

\* What the shell makes of a line.
LEMMA CommandFacts ==
  ASSUME NEW s \in Seq(Byte)
  PROVE  Command(s) \in Seq(Letter)
  <1> DEFINE r == UpTo0(s)
  <1>1. r \in Seq(Letter)
    BY UpTo0Facts
  <1> HIDE DEF r
  <1>2. r # << >> => SubSeq(r, 1, Len(r) - 1) \in Seq(Letter)
    BY <1>1
  <1> QED BY <1>1, <1>2 DEF Command, r

\* The keyboard and the shell.
LEMMA ShellStep ==
  ASSUME ConsoleInv,
         \/ \E k \in TypedKeys : TypeKey(k)
         \/ EnterKey \/ CommandAt1 \/ Caps
         \/ \E k \in Modifiers : Modifier(k)
  PROVE  ConsoleInv'
  <1> USE DEF Terminals
  <1>1. ASSUME NEW t \in Terminals, pc'[t] = pc[t], UNCHANGED <<argBuf, i, buf, own>>, Mine(t)
        PROVE  Mine(t)'
    BY <1>1 DEF Mine, Copied
  <1>2. ASSUME NEW ch \in Byte PROVE Stored(ch) \in Seq(Byte)
    BY DEF Stored, ConsoleInv, ConsoleType
  <1>3. CASE \E k \in TypedKeys : TypeKey(k)
    <2>1. PICK k \in TypedKeys : TypeKey(k)
      BY <1>3
    <2>2. line' \in Seq(Byte)
      BY <1>2, <2>1, TablesByte, ConsoleAssumption DEF TypeKey
    <2>3. UNCHANGED <<argBuf, argSize, pc, command, i, buf, own, quiet>>
      BY <2>1 DEF TypeKey
    <2> QED BY <1>1, <2>2, <2>3 DEF ConsoleInv, ConsoleType
  <1>4. CASE EnterKey
    <2> DEFINE s == IF Deaf THEN line ELSE Stored(NewLine)
    <2>1. s \in Seq(Byte)
      BY <1>2 DEF NewLine, Byte, ConsoleInv, ConsoleType
    <2> HIDE DEF s
    <2>2. Command(s) \in Seq(Letter)
      BY <2>1, CommandFacts
    <2>3. /\ line' = << >> /\ command' = [command EXCEPT ![0] = Command(s)]
          /\ pc' = [pc EXCEPT ![0] = IF Command(s) = << >> THEN "shell" ELSE "entered"]
          /\ UNCHANGED <<argBuf, argSize, i, buf, own, quiet>> /\ pc[0] = "shell"
      BY <1>4 DEF EnterKey, s
    <2>4. ~quiet[0]
      BY <2>3 DEF ConsoleInv, Mine, InProgram
    <2>5. ConsoleType'
      BY <2>2, <2>3 DEF ConsoleInv, ConsoleType
    <2>6. pc'[1] = pc[1]
      BY <2>3 DEF ConsoleInv, ConsoleType
    <2> QED BY <1>1, <2>3, <2>4, <2>5, <2>6 DEF ConsoleInv
  <1>5. CASE CommandAt1
    <2>1. PICK cmd \in Commands : command' = [command EXCEPT ![1] = cmd]
      BY <1>5 DEF CommandAt1
    <2>2. cmd \in Seq(Letter)
      BY ConsoleAssumption DEF Letter
    <2>3. /\ pc' = [pc EXCEPT ![1] = "entered"] /\ pc[1] = "shell"
          /\ UNCHANGED <<line, argBuf, argSize, i, buf, own, quiet>>
      BY <1>5 DEF CommandAt1
    <2>4. ~quiet[1]
      BY <2>3 DEF ConsoleInv, Mine, InProgram
    <2>5. ConsoleType'
      BY <2>1, <2>2, <2>3 DEF ConsoleInv, ConsoleType
    <2>6. pc'[0] = pc[0]
      BY <2>3 DEF ConsoleInv, ConsoleType
    <2> QED BY <1>1, <2>3, <2>4, <2>5, <2>6 DEF ConsoleInv
  <1>6. CASE UNCHANGED console
    BY <1>1, <1>6 DEF console, ConsoleInv, ConsoleType
  <1> QED BY <1>3, <1>4, <1>5, <1>6 DEF Caps, Modifier

\* A step of getargs or the end of a program leaves the other terminals alone.
LEMMA OthersKept ==
  ASSUME ConsoleInv, NEW t \in Terminals, UNCHANGED argBuf,
         \A u \in Terminals \ {t} :
           pc'[u] = pc[u] /\ i'[u] = i[u] /\ buf'[u] = buf[u] /\ own'[u] = own[u] /\ quiet'[u] = quiet[u]
  PROVE  \A u \in Terminals \ {t} : quiet'[u] => Mine(u)'
  BY DEF ConsoleInv, Mine, Copied

LEMMA ExecuteStep ==
  ASSUME ConsoleInv, NEW t \in Terminals, Execute(t)
  PROVE  ConsoleInv'
  <1>1. command[t] \in Seq(Letter)
    BY DEF ConsoleInv, ConsoleType
  <1>2. Arguments(command[t]) \in Seq(Letter)
    BY <1>1, SplitFacts
  <1>3. /\ argBuf' = Arguments(command[t]) /\ argSize' = Len(argBuf')
        /\ command' = [command EXCEPT ![t] = << >>] /\ UNCHANGED <<line, i, buf>>
    BY DEF Execute
  <1>4. CASE /\ pc' = [pc EXCEPT ![t] = "program"]
             /\ own' = [own EXCEPT ![t] = command[t]]
             /\ quiet' = [u \in Terminals |-> u = t]
    <2>1. ConsoleType'
      BY <1>1, <1>2, <1>3, <1>4 DEF ConsoleInv, ConsoleType, InProgram
    <2>2. pc'[t] = "program" /\ own'[t] = command[t]
      BY <1>4 DEF ConsoleInv, ConsoleType
    <2>3. Mine(t)'
      BY <1>3, <2>2 DEF Mine, InProgram
    <2>4. \A u \in Terminals : quiet'[u] => u = t
      BY <1>4
    <2> QED BY <2>1, <2>3, <2>4 DEF ConsoleInv
  <1>5. CASE /\ pc' = [pc EXCEPT ![t] = "shell"]
             /\ quiet' = [u \in Terminals |-> FALSE]
             /\ UNCHANGED own
    <2>1. ConsoleType'
      BY <1>2, <1>3, <1>5 DEF ConsoleInv, ConsoleType, InProgram
    <2>2. \A u \in Terminals : ~quiet'[u]
      BY <1>5
    <2> QED BY <2>1, <2>2 DEF ConsoleInv
  <1> QED BY <1>4, <1>5 DEF Execute

LEMMA GetargsStep ==
  ASSUME ConsoleInv, NEW t \in Terminals,
         (\E n \in Requests : GetargsCall(t, n)) \/ GetargsTest(t) \/ GetargsCopy(t) \/ Ends(t)
  PROVE  ConsoleInv'
  <1> DEFINE ch == IF i[t] < Len(argBuf) THEN argBuf[i[t] + 1] ELSE 0
  <1>1. /\ argBuf \in Seq(Letter) /\ argSize = Len(argBuf) /\ buf[t] \in Seq(Byte) /\ i[t] \in Nat
        /\ pc \in [Terminals -> {"shell", "entered"} \cup InProgram]
        /\ i \in [Terminals -> Nat] /\ buf \in [Terminals -> Seq(Byte)]
        /\ own \in [Terminals -> Seq(Letter)] /\ quiet \in [Terminals -> BOOLEAN]
        /\ quiet[t] => Mine(t)
    BY DEF ConsoleInv, ConsoleType
  <1>2. ch \in Byte /\ LINE_MAX \in Nat
    <2>1. \A k \in 1 .. Len(argBuf) : argBuf[k] \in Letter
      BY <1>1
    <2>2. i[t] < Len(argBuf) => i[t] + 1 \in 1 .. Len(argBuf)
      BY <1>1
    <2>3. Letter \subseteq Byte /\ 0 \in Byte
      BY DEF Byte, Letter
    <2>4. ch \in Byte
      BY <2>1, <2>2, <2>3
    <2> QED BY <2>4, ConsoleAssumption
  <1>3. ASSUME NEW n \in Requests, GetargsCall(t, n) PROVE ConsoleInv'
    <2>1. /\ pc' = [pc EXCEPT ![t] = IF argSize = 0 THEN "none" ELSE "test"]
          /\ i' = [i EXCEPT ![t] = 0] /\ buf' = [buf EXCEPT ![t] = << >>]
          /\ UNCHANGED <<line, argBuf, argSize, command, own, quiet>>
      BY <1>3 DEF GetargsCall
    <2>2. ConsoleType'
      BY <2>1 DEF ConsoleInv, ConsoleType, InProgram
    <2>3. pc'[t] \in {"none", "test"} /\ i'[t] = 0 /\ buf'[t] = << >> /\ (pc'[t] = "none" => argBuf = << >>)
      BY <1>1, <2>1
    <2>4. quiet'[t] => Mine(t)'
      BY <1>1, <2>1, <2>3 DEF Mine, Copied, InProgram
    <2> QED BY <1>1, <2>1, <2>2, <2>4, OthersKept DEF ConsoleInv
  <1>4. CASE GetargsTest(t)
    <2>1. /\ pc' = [pc EXCEPT ![t] = IF i[t] < Len(argBuf) THEN "copy" ELSE "got"]
          /\ UNCHANGED <<line, argBuf, argSize, command, i, buf, own, quiet>> /\ pc[t] = "test"
      BY <1>4 DEF GetargsTest, More
    <2>2. ConsoleType'
      BY <2>1 DEF ConsoleInv, ConsoleType, InProgram
    <2>3. pc'[t] = IF i[t] < Len(argBuf) THEN "copy" ELSE "got"
      BY <1>1, <2>1
    <2>4. quiet'[t] => Mine(t)'
      BY <1>1, <2>1, <2>3 DEF Mine, Copied, InProgram
    <2> QED BY <1>1, <2>1, <2>2, <2>4, OthersKept DEF ConsoleInv
  <1>5. CASE GetargsCopy(t)
    <2>1. /\ pc' = [pc EXCEPT ![t] = "test"] /\ pc[t] = "copy"
          /\ buf' = [buf EXCEPT ![t] = IF Len(buf[t]) = LINE_MAX THEN buf[t] ELSE Append(buf[t], ch)]
          /\ i' = [i EXCEPT ![t] = IF i[t] = LINE_MAX THEN i[t] ELSE i[t] + 1]
          /\ UNCHANGED <<line, argBuf, argSize, command, own, quiet>>
      BY <1>5 DEF GetargsCopy
    <2> HIDE DEF ch
    <2>2. ConsoleType'
      BY <1>1, <1>2, <2>1 DEF ConsoleInv, ConsoleType, InProgram
    <2>3. /\ pc'[t] = "test" /\ i'[t] = IF i[t] = LINE_MAX THEN i[t] ELSE i[t] + 1
          /\ buf'[t] = IF Len(buf[t]) = LINE_MAX THEN buf[t] ELSE Append(buf[t], ch)
      BY <1>1, <2>1
    <2>4. ASSUME quiet[t] PROVE Mine(t)'
      <3>1. /\ argBuf = Arguments(own[t]) /\ Len(buf[t]) = i[t] /\ i[t] < Len(argBuf)
            /\ \A k \in 1 .. i[t] : buf[t][k] = argBuf[k]
        BY <1>1, <2>1, <2>4 DEF Mine, Copied
      <3>2. ch = argBuf[i[t] + 1]
        BY <3>1 DEF ch
      <3>3. Len(buf'[t]) = i'[t] /\ i'[t] <= Len(argBuf)
        BY <1>1, <1>2, <2>3, <3>1
      <3>4. \A k \in 1 .. i'[t] : buf'[t][k] = argBuf[k]
        BY <1>1, <1>2, <2>3, <3>1, <3>2
      <3> QED BY <2>1, <2>3, <3>1, <3>3, <3>4 DEF Mine, Copied, InProgram
    <2> QED BY <1>1, <2>1, <2>2, <2>4, OthersKept DEF ConsoleInv
  <1>6. CASE Ends(t)
    <2>1. /\ pc' = [pc EXCEPT ![t] = "shell"] /\ i' = [i EXCEPT ![t] = 0]
          /\ buf' = [buf EXCEPT ![t] = << >>] /\ own' = [own EXCEPT ![t] = << >>]
          /\ quiet' = [quiet EXCEPT ![t] = FALSE]
          /\ UNCHANGED <<line, argBuf, argSize, command>>
      BY <1>6 DEF Ends
    <2>2. ConsoleType'
      BY <2>1 DEF ConsoleInv, ConsoleType, InProgram
    <2>3. ~quiet'[t]
      BY <1>1, <2>1
    <2> QED BY <1>1, <2>1, <2>2, <2>3, OthersKept DEF ConsoleInv
  <1> QED BY <1>3, <1>4, <1>5, <1>6

LEMMA ConsoleStep == ConsoleInv /\ [ConsoleNext]_all => ConsoleInv'
  <1>1. ASSUME ConsoleInv, UNCHANGED all PROVE ConsoleInv'
    BY <1>1 DEF all, console, ConsoleInv, ConsoleType, Mine, Copied
  <1> QED BY <1>1, ShellStep, ExecuteStep, GetargsStep DEF ConsoleNext

LEMMA ConsoleInitial == ConsoleInit => ConsoleInv
  BY DEF ConsoleInit, ConsoleInv, ConsoleType, InProgram

\* What getargs has copied when it returns is what verify_file left.
LEMMA GotFacts == ConsoleInv => ArgsOwn
  <1> SUFFICES ASSUME ConsoleInv, NEW t \in Terminals, quiet[t]
               PROVE  /\ pc[t] = "got" => InFile(own[t]) \o UpTo0(buf[t]) = NoBlanks(own[t])
                      /\ pc[t] = "none" => InFile(own[t]) = NoBlanks(own[t])
    BY DEF ArgsOwn
  <1>1. /\ own[t] \in Seq(Letter) /\ argBuf \in Seq(Letter) /\ buf[t] \in Seq(Byte) /\ i[t] \in Nat
        /\ Mine(t) /\ argBuf = Arguments(own[t])
    BY DEF ConsoleInv, ConsoleType, Mine
  <1>2. InFile(own[t]) \in Seq(Letter) /\ InFile(own[t]) \o argBuf = NoBlanks(own[t])
    BY <1>1, SplitFacts
  <1>3. ASSUME pc[t] = "got" PROVE InFile(own[t]) \o UpTo0(buf[t]) = NoBlanks(own[t])
    <2>1. Len(buf[t]) = Len(argBuf) /\ \A k \in 1 .. Len(argBuf) : buf[t][k] = argBuf[k]
      BY <1>1, <1>3 DEF Mine, Copied
    <2>2. buf[t] = argBuf
      BY <1>1, <2>1, SeqEqual
    <2> QED BY <1>1, <1>2, <2>2, UpTo0Facts
  <1>4. ASSUME pc[t] = "none" PROVE InFile(own[t]) = NoBlanks(own[t])
    <2>1. argBuf = << >>
      BY <1>1, <1>4 DEF Mine
    <2> QED BY <1>2, <2>1
  <1> QED BY <1>3, <1>4

\* As long as no other execute comes, getargs gives a program the arguments of its own
\* command, for all executables, commands and keys, whatever number of bytes it asks
\* for, and whatever came before (execute's
\* verify_file and getargs in syscall.c).
THEOREM ArgsCorrect == ConsoleSpec => []ArgsOwn
  <1>1. ConsoleInit => ConsoleInv
    BY ConsoleInitial
  <1>2. ConsoleInv /\ [ConsoleNext]_all => ConsoleInv'
    BY ConsoleStep
  <1>3. ConsoleInv => ArgsOwn
    BY GotFacts
  <1> QED BY <1>1, <1>2, <1>3, PTL DEF ConsoleSpec

----------------------------------------------------------------------------
\* The C library: memory.

\* What moving n bytes from s to d is to do, and when bytes that are still to be
\* read are not overwritten.
Moved(m, d, s, n) == [a \in Address |-> IF a \in d .. d + n - 1 THEN m[s + (a - d)] ELSE m[a]]
Apart(d, s, n) ==
  /\ d \in Nat /\ s \in Nat /\ n \in Nat /\ d + n <= MEM /\ s + n <= MEM
  /\ d <= s \/ s + n <= d

\* Moving h bytes and then the k bytes behind them.
LEMMA MovedTwice ==
  ASSUME NEW d, NEW s, NEW h \in Nat, NEW k \in Nat, Apart(d, s, h + k), NEW m \in [Address -> Nat]
  PROVE  Moved(Moved(m, d, s, h), d + h, s + h, k) = Moved(m, d, s, h + k)
  <1> DEFINE f == Moved(m, d, s, h)
  <1>1. d \in Nat /\ s \in Nat /\ d + h + k <= MEM /\ s + h + k <= MEM /\ (d <= s \/ s + h + k <= d) /\ MEM \in Nat
    BY CLibAssumption DEF Apart
  <1>2. \A a \in Address : f[a] = IF a \in d .. d + h - 1 THEN m[s + (a - d)] ELSE m[a]
    BY DEF Moved
  <1> HIDE DEF f
  <1>3. ASSUME NEW a \in Address
        PROVE  (IF a \in d + h .. d + h + k - 1 THEN f[s + h + (a - (d + h))] ELSE f[a])
                 = IF a \in d .. d + (h + k) - 1 THEN m[s + (a - d)] ELSE m[a]
    <2> DEFINE r == s + (a - d)
    <2>1. CASE a \in d + h .. d + h + k - 1
      <3>1. s + h + (a - (d + h)) = r /\ r \in Address /\ r \notin d .. d + h - 1 /\ a \in d .. d + (h + k) - 1
        BY <1>1, <2>1 DEF Address
      <3> HIDE DEF r
      <3>2. f[r] = m[r]
        BY <1>2, <3>1
      <3> QED BY <2>1, <3>1, <3>2 DEF r
    <2>2. CASE a \notin d + h .. d + h + k - 1
      <3>1. a \in Int /\ (a \in d .. d + (h + k) - 1 <=> a \in d .. d + h - 1)
        BY <1>1, <2>2 DEF Address
      <3> QED BY <1>2, <2>2, <3>1
    <2> QED BY <2>1, <2>2
  <1> QED BY <1>3 DEF Moved, f

LEMMA MovedType ==
  ASSUME NEW d, NEW s, NEW n, Apart(d, s, n), NEW m \in [Address -> Nat]
  PROVE  Moved(m, d, s, n) \in [Address -> Nat] /\ Moved(m, d, s, 0) = m
  <1>1. \A a \in Address : a \in d .. d + n - 1 => s + (a - d) \in Address
    BY CLibAssumption DEF Apart, Address
  <1>2. \A a \in Address : a \notin d .. d + 0 - 1
    BY CLibAssumption DEF Apart, Address
  <1> QED BY <1>1, <1>2 DEF Moved

\* The loop of bytes moves them.
LEMMA BytesMoved ==
  ASSUME NEW d, NEW s, NEW n, Apart(d, s, n), NEW m \in [Address -> Nat]
  PROVE  MoveBytes(m, d, s, n) = Moved(m, d, s, n)
  <1> DEFINE Fix(f) == f = [k \in 0 .. n |-> IF k = 0 THEN m
                             ELSE [f[k - 1] EXCEPT ![d + k - 1] = f[k - 1][s + k - 1]]]
             W == CHOOSE f : Fix(f)
             V == [k \in 0 .. n |-> Moved(m, d, s, k)]
  <1>0. n \in Nat /\ d \in Nat /\ s \in Nat /\ d + n <= MEM /\ s + n <= MEM /\ (d <= s \/ s + n <= d) /\ MEM \in Nat
    BY CLibAssumption DEF Apart
  <1>1. ASSUME NEW k \in 1 .. n
        PROVE  Moved(m, d, s, k) = [Moved(m, d, s, k - 1) EXCEPT ![d + k - 1] = Moved(m, d, s, k - 1)[s + k - 1]]
    <2> DEFINE g == Moved(m, d, s, k - 1)
    <2>1. \A a \in Address : g[a] = IF a \in d .. d + (k - 1) - 1 THEN m[s + (a - d)] ELSE m[a]
      BY DEF Moved
    <2>2. DOMAIN g = Address
      BY DEF Moved
    <2>3. s + k - 1 \in Address /\ s + k - 1 \notin d .. d + (k - 1) - 1 /\ d + k - 1 \in Address
      BY <1>0 DEF Address
    <2>4. g[s + k - 1] = m[s + k - 1]
      BY <2>1, <2>3
    <2> HIDE DEF g
    <2>5. ASSUME NEW a \in Address
          PROVE  (IF a \in d .. d + k - 1 THEN m[s + (a - d)] ELSE m[a])
                   = IF a = d + k - 1 THEN m[s + k - 1] ELSE g[a]
      <3>1. CASE a = d + k - 1
        <4>1. a \in d .. d + k - 1 /\ s + (a - d) = s + k - 1
          BY <1>0, <3>1
        <4> QED BY <3>1, <4>1
      <3>2. CASE a # d + k - 1
        <4>1. a \in Int /\ (a \in d .. d + k - 1 <=> a \in d .. d + (k - 1) - 1)
          BY <1>0, <3>2 DEF Address
        <4> QED BY <2>1, <3>2, <4>1
      <3> QED BY <3>1, <3>2
    <2>6. Moved(m, d, s, k) = [g EXCEPT ![d + k - 1] = g[s + k - 1]]
      BY <2>2, <2>4, <2>5 DEF Moved
    <2> QED BY <2>6 DEF g
  <1>2. Moved(m, d, s, 0) = m
    BY MovedType
  <1>3. Fix(V)
    <2>1. /\ DOMAIN V = 0 .. n /\ \A k \in 0 .. n : V[k] = Moved(m, d, s, k)
      OBVIOUS
    <2>2. \A k \in 1 .. n : k - 1 \in 0 .. n
      BY <1>0
    <2> QED BY <1>0, <1>1, <1>2, <2>1, <2>2
  <1>4. Fix(W)
    <2> HIDE DEF Fix, V
    <2> QED BY <1>3
  <1>5. MoveBytes(m, d, s, n) = W[n]
    BY DEF MoveBytes
  <1> HIDE DEF W
  <1>6. W[0] = m /\ \A k \in 1 .. n : W[k] = [W[k - 1] EXCEPT ![d + k - 1] = W[k - 1][s + k - 1]]
    <2> DEFINE G(k) == [W[k - 1] EXCEPT ![d + k - 1] = W[k - 1][s + k - 1]]
    <2>1. W = [k \in 0 .. n |-> IF k = 0 THEN m ELSE G(k)]
      BY <1>4
    <2> HIDE DEF G
    <2>2. W[0] = m /\ \A k \in 1 .. n : W[k] = G(k)
      BY <1>0, <2>1
    <2> QED BY <2>2 DEF G
  <1> DEFINE S == {k \in Nat : k <= n => W[k] = Moved(m, d, s, k)}
  <1>7. 0 \in S
    BY <1>2, <1>6
  <1>8. ASSUME NEW k \in Nat, k \in S PROVE k + 1 \in S
    <2> SUFFICES ASSUME k + 1 <= n PROVE W[k + 1] = Moved(m, d, s, k + 1)
      OBVIOUS
    <2>1. k + 1 \in 1 .. n /\ (k + 1) - 1 = k /\ W[k] = Moved(m, d, s, k)
      BY <1>0, <1>8
    <2>2. W[k + 1] = [W[(k + 1) - 1] EXCEPT ![d + (k + 1) - 1] = W[(k + 1) - 1][s + (k + 1) - 1]]
      BY <1>6, <2>1
    <2> QED BY <1>1, <2>1, <2>2
  <1>9. Nat \subseteq S
    <2> HIDE DEF S
    <2> QED BY <1>7, <1>8, Induction
  <1> QED BY <1>0, <1>5, <1>9

\* The loop of words moves four bytes at a time.
LEMMA WordsMoved ==
  ASSUME NEW d, NEW s, NEW n \in Nat, Apart(d, s, 4 * n), NEW m \in [Address -> Nat]
  PROVE  MoveWords(m, d, s, n) = Moved(m, d, s, 4 * n)
  <1> DEFINE One(f, k) == [a \in DOMAIN m |-> IF a \in d + 4 * (k - 1) .. d + 4 * k - 1 THEN f[s + a - d] ELSE f[a]]
             Fix(f) == f = [k \in 0 .. n |-> IF k = 0 THEN m ELSE One(f[k - 1], k)]
             W == CHOOSE f : Fix(f)
             V == [k \in 0 .. n |-> Moved(m, d, s, 4 * k)]
  <1>0. d \in Nat /\ s \in Nat /\ d + 4 * n <= MEM /\ s + 4 * n <= MEM /\ (d <= s \/ s + 4 * n <= d) /\ MEM \in Nat
    BY CLibAssumption DEF Apart
  <1>1. ASSUME NEW k \in 1 .. n
        PROVE  Moved(m, d, s, 4 * k) = One(Moved(m, d, s, 4 * (k - 1)), k)
    <2> DEFINE g == Moved(m, d, s, 4 * (k - 1))
               h == 4 * (k - 1)
    <2>1. h \in Nat /\ 4 \in Nat /\ Apart(d, s, h + 4) /\ h + 4 = 4 * k
      BY <1>0 DEF Apart
    <2>2. Moved(Moved(m, d, s, h), d + h, s + h, 4) = Moved(m, d, s, h + 4)
      BY <2>1, MovedTwice
    <2>3. ASSUME NEW a \in Address
          PROVE  /\ a \in d + h .. d + h + 4 - 1 <=> a \in d + 4 * (k - 1) .. d + 4 * k - 1
                 /\ s + h + (a - (d + h)) = s + a - d
      BY <1>0, <2>1 DEF Address
    <2> HIDE DEF h
    <2>4. Moved(Moved(m, d, s, h), d + h, s + h, 4) = One(Moved(m, d, s, h), k)
      BY <2>3 DEF Moved
    <2> QED BY <2>1, <2>2, <2>4 DEF h
  <1>2. Moved(m, d, s, 0) = m /\ 4 * 0 = 0
    BY MovedType
  <1> HIDE DEF One
  <1>3. Fix(V)
    <2>1. /\ DOMAIN V = 0 .. n /\ \A k \in 0 .. n : V[k] = Moved(m, d, s, 4 * k)
      OBVIOUS
    <2>2. \A k \in 1 .. n : k - 1 \in 0 .. n
      BY <1>0
    <2> QED BY <1>0, <1>1, <1>2, <2>1, <2>2
  <1>4. Fix(W)
    <2> HIDE DEF Fix, V
    <2> QED BY <1>3
  <1>5. MoveWords(m, d, s, n) = W[n]
    BY DEF MoveWords, One
  <1> HIDE DEF W
  <1>6. W[0] = m /\ \A k \in 1 .. n : W[k] = One(W[k - 1], k)
    BY <1>0, <1>4
  <1> DEFINE S == {k \in Nat : k <= n => W[k] = Moved(m, d, s, 4 * k)}
  <1>7. 0 \in S
    BY <1>2, <1>6
  <1>8. ASSUME NEW k \in Nat, k \in S PROVE k + 1 \in S
    <2> SUFFICES ASSUME k + 1 <= n PROVE W[k + 1] = Moved(m, d, s, 4 * (k + 1))
      OBVIOUS
    <2>1. k + 1 \in 1 .. n /\ (k + 1) - 1 = k /\ W[k] = Moved(m, d, s, 4 * k)
      BY <1>0, <1>8
    <2>2. W[k + 1] = One(W[(k + 1) - 1], k + 1)
      BY <1>6, <2>1
    <2> QED BY <1>1, <2>1, <2>2
  <1>9. Nat \subseteq S
    <2> HIDE DEF S
    <2> QED BY <1>7, <1>8, Induction
  <1> QED BY <1>5, <1>9

\* The parts of an area: first bytes, whole words and the bytes that are left.
LEMMA PartsFacts ==
  ASSUME NEW d \in Nat, NEW n \in Nat
  PROVE  LET h == ToAligned(d, n)
             w == (n - h) \div 4
             t == IF h = n THEN 0 ELSE LeftOver(n - h)
         IN h \in Nat /\ w \in Nat /\ t \in Nat /\ h + 4 * w + t = n
  <1>1. ToAligned(d, n) \in Nat /\ n - ToAligned(d, n) \in Nat
    BY DEF ToAligned
  <1> QED BY <1>1 DEF LeftOver

LEMMA MemcpyFacts ==
  ASSUME NEW d, NEW s, NEW n, Apart(d, s, n), NEW m \in [Address -> Nat]
  PROVE  memcpy(m, d, s, n) = Moved(m, d, s, n)
  <1> DEFINE h == ToAligned(d, n)
             w == (n - h) \div 4
             t == IF h = n THEN 0 ELSE LeftOver(n - h)
             u == 4 * w
             m1 == Moved(m, d, s, h)
             m2 == Moved(m, d, s, h + u)
  <1>1. d \in Nat /\ s \in Nat /\ n \in Nat
    BY DEF Apart
  <1>2. h \in Nat /\ w \in Nat /\ t \in Nat /\ h + 4 * w + t = n
    BY <1>1, PartsFacts
  <1>3. memcpy(m, d, s, n) = MoveBytes(MoveWords(MoveBytes(m, d, s, h), d + h, s + h, w), d + h + 4 * w, s + h + 4 * w, t)
    BY DEF memcpy
  <1> HIDE DEF h, w, t
  <1>4. u \in Nat /\ h + u + t = n
    BY <1>2
  <1>5. /\ Apart(d, s, h) /\ Apart(d + h, s + h, 4 * w) /\ Apart(d, s, h + u)
        /\ Apart(d + h + u, s + h + u, t) /\ Apart(d, s, (h + u) + t)
    <2> HIDE DEF u
    <2>1. Apart(d, s, h) /\ Apart(d + h, s + h, u) /\ Apart(d, s, h + u)
      BY <1>1, <1>2, <1>4, CLibAssumption DEF Apart
    <2>2. Apart(d + h + u, s + h + u, t) /\ Apart(d, s, (h + u) + t)
      BY <1>1, <1>2, <1>4, CLibAssumption DEF Apart
    <2> QED BY <2>1, <2>2 DEF u
  <1>6. MoveBytes(m, d, s, h) = m1 /\ m1 \in [Address -> Nat]
    BY <1>5, BytesMoved, MovedType
  <1>7. MoveWords(m1, d + h, s + h, w) = Moved(m1, d + h, s + h, u)
    BY <1>2, <1>5, <1>6, WordsMoved
  <1> HIDE DEF u
  <1>8. Moved(m1, d + h, s + h, u) = m2 /\ m2 \in [Address -> Nat]
    BY <1>2, <1>4, <1>5, MovedTwice, MovedType
  <1>9. MoveBytes(m2, d + h + u, s + h + u, t) = Moved(m2, d + h + u, s + h + u, t)
    BY <1>5, <1>8, BytesMoved
  <1>10. d + h + u = d + (h + u) /\ s + h + u = s + (h + u) /\ h + u \in Nat
    BY <1>1, <1>2, <1>4
  <1>11. Moved(m2, d + (h + u), s + (h + u), t) = Moved(m, d, s, (h + u) + t)
    BY <1>2, <1>5, <1>10, MovedTwice
  <1> QED BY <1>3, <1>4, <1>6, <1>7, <1>8, <1>9, <1>10, <1>11 DEF u

LEMMA MemsetFacts ==
  ASSUME NEW d \in Nat, NEW n \in Nat, NEW b, NEW m \in [Address -> Nat]
  PROVE  memset(m, d, b, n) = [a \in Address |-> IF a \in d .. d + n - 1 THEN b ELSE m[a]]
  <1> DEFINE h == ToAligned(d, n)
             w == (n - h) \div 4
             t == IF h = n THEN 0 ELSE LeftOver(n - h)
             u == 4 * w
  <1>1. h \in Nat /\ w \in Nat /\ t \in Nat /\ h + 4 * w + t = n
    BY PartsFacts
  <1>2. memset(m, d, b, n) = Fill(Fill(Fill(m, d, b, h), d + h, b, 4 * w), d + h + 4 * w, b, t)
    BY DEF memset
  <1> HIDE DEF h, w, t
  <1>3. u \in Nat /\ h + u + t = n
    BY <1>1
  <1>4. memset(m, d, b, n) = Fill(Fill(Fill(m, d, b, h), d + h, b, u), d + h + u, b, t)
    BY <1>2
  <1> HIDE DEF u
  <1>5. memset(m, d, b, n) = [a \in Address |->
          IF a \in d + h + u .. d + h + u + t - 1 THEN b
          ELSE IF a \in d + h .. d + h + u - 1 THEN b
          ELSE IF a \in d .. d + h - 1 THEN b ELSE m[a]]
    BY <1>4 DEF Fill
  <1>6. ASSUME NEW a \in Address
        PROVE  a \in d .. d + n - 1 <=> \/ a \in d + h + u .. d + h + u + t - 1
                                        \/ a \in d + h .. d + h + u - 1
                                        \/ a \in d .. d + h - 1
    BY <1>1, <1>3, CLibAssumption DEF Address
  <1> QED BY <1>5, <1>6

LEMMA AreasFacts == \A n \in 0 .. MEM : AreasRight(n)
  <1> SUFFICES ASSUME NEW n \in 0 .. MEM, NEW d \in 0 .. MEM - n
               PROVE  /\ memset(Marked, d, 0, n) = [a \in Address |-> IF a \in d .. d + n - 1 THEN 0 ELSE a + 1]
                      /\ \A s \in 0 .. MEM - n :
                           d <= s \/ s + n <= d =>
                             memcpy(Marked, d, s, n) =
                               [a \in Address |-> IF a \in d .. d + n - 1 THEN s + (a - d) + 1 ELSE a + 1]
    BY DEF AreasRight
  <1>1. /\ MEM \in Nat /\ n \in Nat /\ d \in Nat /\ d + n <= MEM
        /\ Marked \in [Address -> Nat] /\ \A a \in Address : Marked[a] = a + 1
    BY CLibAssumption DEF Marked, Address
  <1>2. memset(Marked, d, 0, n) = [a \in Address |-> IF a \in d .. d + n - 1 THEN 0 ELSE a + 1]
    BY <1>1, MemsetFacts
  <1>3. ASSUME NEW s \in 0 .. MEM - n, d <= s \/ s + n <= d
        PROVE  memcpy(Marked, d, s, n) = [a \in Address |-> IF a \in d .. d + n - 1 THEN s + (a - d) + 1 ELSE a + 1]
    <2>1. Apart(d, s, n)
      BY <1>1, <1>3 DEF Apart
    <2>2. memcpy(Marked, d, s, n) = Moved(Marked, d, s, n)
      BY <1>1, <2>1, MemcpyFacts
    <2>3. \A a \in Address : a \in d .. d + n - 1 => s + (a - d) \in Address
      BY <1>1, <2>1 DEF Apart, Address
    <2> QED BY <1>1, <2>2, <2>3 DEF Moved
  <1> QED BY <1>2, <1>3

----------------------------------------------------------------------------
\* The C library: strings and numbers.

\* strrev's swaps, after k of them.
Swapped(s, n, k) == [j \in 1 .. n + 1 |-> IF j <= k \/ (j > n - k /\ j <= n) THEN s[n + 1 - j] ELSE s[j]]

Swap(g, n, k) == [g EXCEPT ![k] = g[n + 1 - k], ![n + 1 - k] = g[k]]

LEMMA SwapStep ==
  ASSUME NEW s, NEW n \in Nat, NEW k \in 1 .. n \div 2
  PROVE  Swapped(s, n, k) = Swap(Swapped(s, n, k - 1), n, k)
  <1> DEFINE g == Swapped(s, n, k - 1)
  <1>1. k \in Nat /\ 2 * k <= n /\ k \in 1 .. n + 1 /\ n + 1 - k \in 1 .. n + 1 /\ k # n + 1 - k
    OBVIOUS
  <1>2. DOMAIN g = 1 .. n + 1 /\ \A j \in 1 .. n + 1 : g[j] = IF j <= k - 1 \/ (j > n - (k - 1) /\ j <= n) THEN s[n + 1 - j] ELSE s[j]
    BY DEF Swapped
  <1>3. g[k] = s[k] /\ g[n + 1 - k] = s[n + 1 - k]
    BY <1>1, <1>2
  <1> HIDE DEF g
  <1>4. ASSUME NEW j \in 1 .. n + 1
        PROVE  (IF j <= k \/ (j > n - k /\ j <= n) THEN s[n + 1 - j] ELSE s[j])
                 = IF j = n + 1 - k THEN s[k] ELSE IF j = k THEN s[n + 1 - k] ELSE g[j]
    <2>1. CASE j = n + 1 - k
      <3>1. j > n - k /\ j <= n /\ n + 1 - j = k
        BY <1>1, <2>1
      <3> QED BY <2>1, <3>1
    <2>2. CASE j = k
      BY <1>1, <2>2
    <2>3. CASE j # k /\ j # n + 1 - k
      <3>1. (j <= k \/ (j > n - k /\ j <= n)) <=> (j <= k - 1 \/ (j > n - (k - 1) /\ j <= n))
        BY <1>1, <2>3
      <3> QED BY <1>2, <2>3, <3>1
    <2> QED BY <2>1, <2>2, <2>3
  <1>5. Swapped(s, n, k) = Swap(g, n, k)
    BY <1>1, <1>2, <1>3, <1>4 DEF Swapped, Swap
  <1> QED BY <1>5 DEF g

LEMMA StrlenFacts ==
  ASSUME NEW T, 0 \notin T, NEW q \in Seq(T)
  PROVE  strlen(Append(q, 0)) = Len(q) /\ String(Append(q, 0)) = q
  <1> DEFINE m == SelectInSeq(Append(q, 0), LAMBDA x : x = 0)
             U == T \cup {0}
  <1>1. q \in Seq(U) /\ 0 \in U /\ Len(q) \in Nat /\ \A k \in 1 .. Len(q) : q[k] # 0
    OBVIOUS
  <1> HIDE DEF U
  <1>2. m \in 1 .. Len(q) + 1 /\ (m <= Len(q) => q[m] = 0)
    BY <1>1, FirstFacts
  <1>3. strlen(Append(q, 0)) = m - 1
    BY DEF strlen
  <1> HIDE DEF m
  <1>4. m = Len(q) + 1
    BY <1>1, <1>2
  <1>5. strlen(Append(q, 0)) = Len(q)
    BY <1>1, <1>3, <1>4
  <1>6. SubSeq(Append(q, 0), 1, Len(q)) = q
    BY <1>1
  <1> QED BY <1>5, <1>6 DEF String

\* What a string of n + 1 bytes is as a function, and the reverse of one.
LEMMA ReverseFacts ==
  ASSUME NEW T, NEW q \in Seq(T)
  PROVE  /\ Reverse(q) \in Seq(T) /\ Len(Reverse(q)) = Len(q)
         /\ \A j \in 1 .. Len(q) : Reverse(q)[j] = q[Len(q) + 1 - j]
  <1> DEFINE n == Len(q)
  <1>1. n \in Nat /\ \A j \in 1 .. n : q[j] \in T /\ (n - j) + 1 = n + 1 - j /\ n + 1 - j \in 1 .. n
    OBVIOUS
  <1>2. Reverse(q) = [j \in 1 .. n |-> q[(n - j) + 1]]
    BY DEF Reverse
  <1> HIDE DEF n
  <1>3. Reverse(q) = [j \in 1 .. n |-> q[n + 1 - j]] /\ Reverse(q) \in [1 .. n -> T]
    BY <1>1, <1>2
  <1>4. Reverse(q) \in Seq(T) /\ Len(Reverse(q)) = n
    BY <1>1, <1>3
  <1> QED BY <1>3, <1>4 DEF n

LEMMA StrrevFacts ==
  ASSUME NEW T, 0 \notin T, NEW q \in Seq(T)
  PROVE  strrev(Append(q, 0)) = Append(Reverse(q), 0)
  <1> DEFINE s == Append(q, 0)
             n == Len(q)
             N == n \div 2
             Fix(f) == f = [k \in 0 .. N |-> IF k = 0 THEN s ELSE Swap(f[k - 1], n, k)]
             W == CHOOSE f : Fix(f)
             V == [k \in 0 .. N |-> Swapped(s, n, k)]
             r == Append(Reverse(q), 0)
  <1>0. strrev(s) = W[N]
    <2> DEFINE G(l) == (CHOOSE f : f = [k \in 0 .. l \div 2 |-> IF k = 0 THEN s ELSE Swap(f[k - 1], l, k)])[l \div 2]
    <2>1. strrev(s) = G(strlen(s))
      BY DEF strrev, Swap
    <2>2. strlen(s) = n
      BY StrlenFacts
    <2>3. G(n) = W[N]
      OBVIOUS
    <2> HIDE DEF G, W, s, n, N
    <2> QED BY <2>1, <2>2, <2>3
  <1>1. n \in Nat /\ N \in Nat /\ 2 * N <= n /\ n <= 2 * N + 1
    OBVIOUS
  <1>2. ASSUME NEW p \in Seq(T), Len(p) = n
        PROVE  /\ Append(p, 0) = [j \in 1 .. n + 1 |-> Append(p, 0)[j]] /\ Append(p, 0)[n + 1] = 0
               /\ \A j \in 1 .. n : Append(p, 0)[j] = p[j]
    <2> DEFINE U == T \cup {0}
    <2>1. p \in Seq(U) /\ 0 \in U
      OBVIOUS
    <2> HIDE DEF U, n
    <2>2. /\ Append(p, 0) \in Seq(U) /\ Len(Append(p, 0)) = n + 1 /\ Append(p, 0)[n + 1] = 0
          /\ \A j \in 1 .. n : Append(p, 0)[j] = p[j]
      BY <1>1, <1>2, <2>1
    <2> DEFINE x == Append(p, 0)
    <2> HIDE DEF x
    <2>3. x \in Seq(U) /\ Len(x) = n + 1
      BY <2>2 DEF x
    <2>4. x = [j \in 1 .. n + 1 |-> x[j]]
      BY <2>3
    <2> QED BY <2>2, <2>4 DEF x
  <1>2a. s = [j \in 1 .. n + 1 |-> s[j]] /\ s[n + 1] = 0 /\ \A j \in 1 .. n : s[j] = q[j]
    BY <1>2
  <1>2b. r = [j \in 1 .. n + 1 |-> r[j]] /\ r[n + 1] = 0 /\ \A j \in 1 .. n : r[j] = q[n + 1 - j]
    <2>1. Reverse(q) \in Seq(T) /\ Len(Reverse(q)) = n /\ \A j \in 1 .. n : Reverse(q)[j] = q[n + 1 - j]
      BY ReverseFacts
    <2> HIDE DEF n
    <2> QED BY <1>2, <2>1
  <1> HIDE DEF s, n, N, r
  <1>3. Swapped(s, n, 0) = s
    <2>1. \A j \in 1 .. n + 1 : ~(j <= 0 \/ (j > n - 0 /\ j <= n))
      BY <1>1
    <2> QED BY <1>2a, <2>1 DEF Swapped
  <1>4. \A k \in 1 .. N : Swapped(s, n, k) = Swap(Swapped(s, n, k - 1), n, k)
    BY <1>1, SwapStep DEF N
  <1>5. Fix(V)
    <2>1. DOMAIN V = 0 .. N /\ \A k \in 0 .. N : V[k] = Swapped(s, n, k)
      OBVIOUS
    <2>2. \A k \in 1 .. N : k - 1 \in 0 .. N
      BY <1>1
    <2>3. \A k \in 1 .. N : V[k] = Swap(V[k - 1], n, k)
      BY <1>1, <1>4, <2>1, <2>2
    <2>4. V = [k \in 0 .. N |-> V[k]] /\ V[0] = s
      BY <1>1, <1>3
    <2> HIDE DEF V
    <2>5. \A k \in 0 .. N : V[k] = IF k = 0 THEN s ELSE Swap(V[k - 1], n, k)
      <3>1. \A k \in 0 .. N : k # 0 => k \in 1 .. N
        BY <1>1
      <3>2. V[0] = s
        BY <2>4
      <3> QED BY <2>3, <3>1, <3>2
    <2> QED BY <2>4, <2>5
  <1>6. Fix(W)
    <2> HIDE DEF Fix, V
    <2> QED BY <1>5
  <1> HIDE DEF W
  <1>7. W[0] = s /\ \A k \in 1 .. N : W[k] = Swap(W[k - 1], n, k)
    BY <1>1, <1>6
  <1> DEFINE S == {k \in Nat : k <= N => W[k] = Swapped(s, n, k)}
  <1>8. 0 \in S
    BY <1>3, <1>7
  <1>9. ASSUME NEW k \in Nat, k \in S PROVE k + 1 \in S
    <2> SUFFICES ASSUME k + 1 <= N PROVE W[k + 1] = Swapped(s, n, k + 1)
      OBVIOUS
    <2>1. k + 1 \in 1 .. N /\ (k + 1) - 1 = k /\ W[k] = Swapped(s, n, k)
      BY <1>1, <1>9
    <2>2. W[k + 1] = Swap(W[(k + 1) - 1], n, k + 1) /\ Swapped(s, n, k + 1) = Swap(Swapped(s, n, (k + 1) - 1), n, k + 1)
      BY <1>4, <1>7, <2>1
    <2> QED BY <2>1, <2>2
  <1>10. Nat \subseteq S
    <2> HIDE DEF S
    <2> QED BY <1>8, <1>9, Induction
  <1>11. strrev(s) = Swapped(s, n, N)
    BY <1>0, <1>1, <1>10
  <1>12. ASSUME NEW j \in 1 .. n + 1
         PROVE  (IF j <= N \/ (j > n - N /\ j <= n) THEN s[n + 1 - j] ELSE s[j]) = r[j]
    <2>1. CASE j = n + 1
      BY <1>1, <1>2a, <1>2b, <2>1
    <2>2. CASE j # n + 1
      <3>1. j \in 1 .. n /\ n + 1 - j \in 1 .. n
        BY <1>1, <2>2
      <3>2. ~(j <= N \/ (j > n - N /\ j <= n)) => n + 1 - j = j
        BY <1>1, <3>1
      <3>3. s[j] = q[j] /\ s[n + 1 - j] = q[n + 1 - j] /\ r[j] = q[n + 1 - j]
        BY <1>2a, <1>2b, <3>1
      <3> QED BY <3>2, <3>3
    <2> QED BY <2>1, <2>2
  <1> QED BY <1>2b, <1>11, <1>12 DEF Swapped, s, r

LEMMA StringsFacts == \A n \in 0 .. MEM : StringsRight(n)
  <1> DEFINE T == Nat \ {0}
  <1>1. 0 \notin T
    OBVIOUS
  <1>2. ASSUME NEW n \in 0 .. MEM PROVE [k \in 1 .. n |-> k] \in Seq(T)
    <2>1. n \in Nat /\ [k \in 1 .. n |-> k] \in [1 .. n -> T]
      BY CLibAssumption
    <2> HIDE DEF T
    <2> QED BY <2>1
  <1> HIDE DEF T
  <1> QED BY <1>1, <1>2, StrrevFacts DEF StringsRight

\* The characters of digits.
DigitChar == {lookup[d] : d \in 0 .. 35}

LEMMA LookupFacts ==
  /\ \A d \in 0 .. 35 : lookup[d] \in DigitChar /\ Digit(lookup[d]) = d
  /\ \A b \in DigitChar : Digit(b) \in 0 .. 35
  /\ 0 \notin DigitChar /\ lookup[0] = 48
  <1>1. \A d, e \in 0 .. 35 : lookup[d] = lookup[e] => d = e
    BY DEF lookup
  <1>2. ASSUME NEW d \in 0 .. 35 PROVE Digit(lookup[d]) = d
    <2>1. \E e \in 0 .. 35 : lookup[e] = lookup[d]
      OBVIOUS
    <2>2. Digit(lookup[d]) \in 0 .. 35 /\ lookup[Digit(lookup[d])] = lookup[d]
      BY <2>1 DEF Digit
    <2> QED BY <1>1, <2>2
  <1>3. \A d \in 0 .. 35 : lookup[d] # 0
    BY DEF lookup
  <1>4. lookup[0] = 48
    BY DEF lookup
  <1> QED BY <1>2, <1>3, <1>4 DEF DigitChar

\* Reading a number, one digit after the other.
Read(v, radix, b) == radix * v + Digit(b)
IsRead(g, s, radix) ==
  /\ g \in [0 .. Len(s) -> Nat] /\ g[0] = 0
  /\ \A n \in 1 .. Len(s) : g[n] = Read(g[n - 1], radix, s[n])

LEMMA ReadFacts ==
  ASSUME NEW radix \in Nat, NEW s \in Seq(DigitChar)
  PROVE  \E g : IsRead(g, s, radix) /\ NumberOf(s, radix) = g[Len(s)]
  <1> DEFINE T == Nat
             F == [k \in Nat |-> [v \in T |-> IF k \in 1 .. Len(s) THEN Read(v, radix, s[k]) ELSE v]]
             Fix(f) == f = [n \in 0 .. Len(s) |-> IF n = 0 THEN 0 ELSE Read(f[n - 1], radix, s[n])]
             W == CHOOSE f : Fix(f)
  <1>1. 0 \in T /\ Len(s) \in Nat
    OBVIOUS
  <1>2. ASSUME NEW k \in 1 .. Len(s), NEW v \in T PROVE Read(v, radix, s[k]) \in T
    <2>1. s[k] \in DigitChar
      OBVIOUS
    <2>2. Digit(s[k]) \in 0 .. 35
      BY <2>1, LookupFacts
    <2> DEFINE x == Digit(s[k])
    <2> HIDE DEF x
    <2>3. \A y, z, b \in Nat : y * z + b \in Nat
      OBVIOUS
    <2>4. x \in Nat
      <3>1. x \in 0 .. 35
        BY <2>2 DEF x
      <3> QED BY <3>1
    <2> QED BY <2>3, <2>4 DEF Read, x
  <1> HIDE DEF T
  <1>3. F \in [Nat -> [T -> T]] /\ \A k \in 1 .. Len(s), v \in T : F[k][v] = Read(v, radix, s[k])
    <2>1. \A k \in Nat, v \in T : (IF k \in 1 .. Len(s) THEN Read(v, radix, s[k]) ELSE v) \in T
      BY <1>2
    <2>2. \A k \in 1 .. Len(s) : k \in Nat
      BY <1>1
    <2> QED BY <2>1, <2>2
  <1> HIDE DEF F
  <1>4. PICK f : IsIterate(f, T, 0, F, Len(s))
    BY <1>1, <1>3, Iterates
  <1>5. /\ f \in [0 .. Len(s) -> T] /\ f[0] = 0
        /\ \A n \in 1 .. Len(s) : f[n] = Read(f[n - 1], radix, s[n])
    <2>1. /\ f \in [0 .. Len(s) -> T] /\ f[0] = 0
          /\ \A n \in 1 .. Len(s) : f[n] = F[n][f[n - 1]]
      BY <1>4 DEF IsIterate
    <2>2. \A n \in 1 .. Len(s) : f[n - 1] \in T
      BY <1>1, <2>1
    <2> QED BY <1>3, <2>1, <2>2
  <1>6. Fix(f)
    <2>1. \A n \in 0 .. Len(s) : f[n] = IF n = 0 THEN 0 ELSE Read(f[n - 1], radix, s[n])
      <3>1. \A n \in 0 .. Len(s) : n # 0 => n \in 1 .. Len(s)
        BY <1>1
      <3> QED BY <1>5, <3>1
    <2> QED BY <1>5, <2>1
  <1>7. NumberOf(s, radix) = W[Len(s)]
    BY DEF NumberOf, Read
  <1>8. Fix(W)
    <2> HIDE DEF Fix
    <2> QED BY <1>6
  <1> HIDE DEF W
  <1>9. W[0] = 0 /\ \A n \in 1 .. Len(s) : W[n] = Read(W[n - 1], radix, s[n])
    BY <1>1, <1>8
  <1>10. \A n \in 0 .. Len(s) : W[n] \in T
    <2> DEFINE S == {n \in Nat : n <= Len(s) => W[n] \in T}
    <2>1. 0 \in S
      BY <1>1, <1>9
    <2>2. ASSUME NEW k \in Nat, k \in S PROVE k + 1 \in S
      <3> SUFFICES ASSUME k + 1 <= Len(s) PROVE W[k + 1] \in T
        OBVIOUS
      <3>1. W[k] \in T /\ k + 1 \in 1 .. Len(s) /\ (k + 1) - 1 = k
        BY <1>1, <2>2
      <3>2. W[k + 1] = Read(W[k], radix, s[k + 1])
        BY <1>9, <3>1
      <3> QED BY <1>2, <3>1, <3>2
    <2>3. Nat \subseteq S
      <3> HIDE DEF S
      <3> QED BY <2>1, <2>2, Induction
    <2> QED BY <2>3
  <1>11. W \in [0 .. Len(s) -> T]
    BY <1>8, <1>10
  <1> QED BY <1>7, <1>9, <1>11 DEF IsRead, T

\* One more digit.
LEMMA ReadOn ==
  ASSUME NEW radix \in Nat, NEW q \in Seq(DigitChar), NEW x \in DigitChar
  PROVE  /\ NumberOf(<< >>, radix) = 0 /\ NumberOf(q, radix) \in Nat
         /\ NumberOf(Append(q, x), radix) = radix * NumberOf(q, radix) + Digit(x)
  <1> DEFINE s == Append(q, x)
  <1>1. /\ Len(q) \in Nat /\ s \in Seq(DigitChar) /\ Len(s) = Len(q) + 1 /\ s[Len(q) + 1] = x
        /\ \A n \in 1 .. Len(q) : s[n] = q[n]
    OBVIOUS
  <1> HIDE DEF s
  <1>2. PICK g : IsRead(g, q, radix) /\ NumberOf(q, radix) = g[Len(q)]
    BY ReadFacts
  <1>3. PICK h : IsRead(h, s, radix) /\ NumberOf(s, radix) = h[Len(s)]
    BY <1>1, ReadFacts
  <1>4. g \in [0 .. Len(q) -> Nat] /\ g[0] = 0 /\ \A n \in 1 .. Len(q) : g[n] = Read(g[n - 1], radix, q[n])
    BY <1>2 DEF IsRead
  <1>5. h[0] = 0 /\ \A n \in 1 .. Len(q) + 1 : h[n] = Read(h[n - 1], radix, s[n])
    BY <1>1, <1>3 DEF IsRead
  <1> DEFINE S == {n \in Nat : n <= Len(q) => h[n] = g[n]}
  <1>6. 0 \in S
    BY <1>4, <1>5
  <1>7. ASSUME NEW k \in Nat, k \in S PROVE k + 1 \in S
    <2> SUFFICES ASSUME k + 1 <= Len(q) PROVE h[k + 1] = g[k + 1]
      OBVIOUS
    <2>1. h[k] = g[k] /\ k + 1 \in 1 .. Len(q) /\ k + 1 \in 1 .. Len(q) + 1 /\ (k + 1) - 1 = k
      BY <1>1, <1>7
    <2> QED BY <1>1, <1>4, <1>5, <2>1
  <1>8. Nat \subseteq S
    <2> HIDE DEF S
    <2> QED BY <1>6, <1>7, Induction
  <1>9. h[Len(q)] = g[Len(q)] /\ g[Len(q)] \in Nat
    BY <1>1, <1>4, <1>8
  <1>10. h[Len(q) + 1] = Read(h[Len(q)], radix, x)
    <2>1. Len(q) + 1 \in 1 .. Len(q) + 1 /\ (Len(q) + 1) - 1 = Len(q)
      BY <1>1
    <2> QED BY <1>1, <1>5, <2>1
  <1>11. NumberOf(<< >>, radix) = 0
    <2>1. << >> \in Seq(DigitChar) /\ Len(<< >>) = 0
      OBVIOUS
    <2>2. PICK f : IsRead(f, << >>, radix) /\ NumberOf(<< >>, radix) = f[Len(<< >>)]
      BY <2>1, ReadFacts
    <2> QED BY <2>1, <2>2 DEF IsRead
  <1>12. NumberOf(s, radix) = Read(NumberOf(q, radix), radix, x)
    BY <1>1, <1>2, <1>3, <1>9, <1>10
  <1> QED BY <1>2, <1>9, <1>11, <1>12 DEF Read, s

LEMMA ReverseOn ==
  ASSUME NEW T, NEW q \in Seq(T), NEW x \in T
  PROVE  Reverse(<<x>> \o q) = Append(Reverse(q), x) /\ <<x>> \o q \in Seq(T) /\ Len(<<x>> \o q) = Len(q) + 1
  <1> DEFINE p == <<x>> \o q
             n == Len(q)
             l == Reverse(p)
             r == Append(Reverse(q), x)
  <1>1. /\ n \in Nat /\ p \in Seq(T) /\ Len(p) = n + 1 /\ p[1] = x
        /\ \A k \in 2 .. n + 1 : p[k] = q[k - 1]
    OBVIOUS
  <1> HIDE DEF p
  <1>2. l \in Seq(T) /\ Len(l) = n + 1 /\ \A j \in 1 .. n + 1 : l[j] = p[n + 1 + 1 - j]
    BY <1>1, ReverseFacts
  <1>3. /\ Reverse(q) \in Seq(T) /\ Len(Reverse(q)) = n
        /\ \A j \in 1 .. n : Reverse(q)[j] = q[n + 1 - j]
    BY ReverseFacts
  <1> HIDE DEF l, n
  <1>4. /\ r \in Seq(T) /\ Len(r) = n + 1 /\ r[n + 1] = x
        /\ \A j \in 1 .. n : r[j] = q[n + 1 - j]
    BY <1>1, <1>3
  <1> HIDE DEF r
  <1>5. ASSUME NEW j \in 1 .. n + 1 PROVE l[j] = r[j]
    <2>1. CASE j = n + 1
      <3>1. n + 1 + 1 - j = 1
        BY <1>1, <2>1
      <3> QED BY <1>1, <1>2, <1>4, <2>1, <3>1
    <2>2. CASE j # n + 1
      <3>1. j \in 1 .. n /\ n + 1 + 1 - j \in 2 .. n + 1 /\ (n + 1 + 1 - j) - 1 = n + 1 - j
        BY <1>1, <2>2
      <3> QED BY <1>1, <1>2, <1>4, <3>1
    <2> QED BY <2>1, <2>2
  <1>6. l = r
    BY <1>2, <1>4, <1>5, SeqEqual
  <1> QED BY <1>1, <1>6 DEF p, l, r, n

Radixes == {2, 10, 16}

LEMMA DivFacts ==
  ASSUME NEW radix \in Radixes, NEW v \in Nat
  PROVE  /\ radix \in Nat /\ v \div radix \in Nat /\ v % radix \in 0 .. 35
         /\ radix * (v \div radix) + (v % radix) = v
         /\ v > 0 => v \div radix < v
  <1>1. CASE radix = 2
    BY <1>1
  <1>2. CASE radix = 10
    BY <1>2
  <1>3. CASE radix = 16
    BY <1>3
  <1> QED BY <1>1, <1>2, <1>3 DEF Radixes

\* itoa's digits from the lowest on: they exist, since a quotient is smaller than its
\* number, and are what the loop says.
Low(radix, v, q) == <<lookup[v % radix]>> \o q
AreDigits(g, value, radix) ==
  /\ g \in [0 .. value -> Seq(DigitChar)] /\ g[0] = << >>
  /\ \A v \in 1 .. value : g[v] = Low(radix, v, g[v \div radix])

LEMMA LowFacts ==
  ASSUME NEW radix \in Radixes, NEW v \in Nat, NEW q \in Seq(DigitChar)
  PROVE  /\ Low(radix, v, q) \in Seq(DigitChar) /\ Len(Low(radix, v, q)) = Len(q) + 1
         /\ Reverse(Low(radix, v, q)) = Append(Reverse(q), lookup[v % radix])
  <1>1. lookup[v % radix] \in DigitChar
    BY DivFacts, LookupFacts
  <1> QED BY <1>1, ReverseOn DEF Low

LEMMA DigitsExist ==
  ASSUME NEW radix \in Radixes, NEW value \in Nat
  PROVE  \E g : g = [v \in 0 .. value |-> IF v = 0 THEN << >> ELSE Low(radix, v, g[v \div radix])]
  <1> DEFINE T == [0 .. value -> Seq(DigitChar)]
             One(f) == [v \in 0 .. value |-> IF v = 0 THEN << >> ELSE Low(radix, v, f[v \div radix])]
             F == [k \in Nat |-> [f \in T |-> One(f)]]
             a == [v \in 0 .. value |-> << >>]
  <1>1. a \in T /\ value + 1 \in Nat
    OBVIOUS
  <1>2. \A v \in 1 .. value : v \in Nat /\ v \div radix \in 0 .. value /\ v \div radix < v
    BY DivFacts
  <1>3. ASSUME NEW f \in T PROVE One(f) \in T
    <2>1. << >> \in Seq(DigitChar)
      OBVIOUS
    <2>2. \A v \in 1 .. value : Low(radix, v, f[v \div radix]) \in Seq(DigitChar)
      BY <1>2, LowFacts
    <2>3. \A v \in 0 .. value : v # 0 => v \in 1 .. value
      OBVIOUS
    <2> QED BY <2>1, <2>2, <2>3
  <1>4. \A f : \A v \in 1 .. value : One(f)[v] = Low(radix, v, f[v \div radix])
    OBVIOUS
  <1>5. \A f : One(f)[0] = << >> /\ DOMAIN One(f) = 0 .. value
    OBVIOUS
  <1> HIDE DEF T, One, a
  <1>6. F \in [Nat -> [T -> T]] /\ \A k \in Nat, f \in T : F[k][f] = One(f)
    BY <1>3
  <1> HIDE DEF F
  <1>7. PICK A : IsIterate(A, T, a, F, value + 1)
    BY <1>1, <1>6, Iterates
  <1>8. /\ \A k \in 0 .. value + 1 : A[k] \in T
        /\ \A k \in 0 .. value : A[k + 1] = One(A[k])
    <2>1. A \in [0 .. value + 1 -> T] /\ \A k \in 1 .. value + 1 : A[k] = F[k][A[k - 1]]
      BY <1>7 DEF IsIterate
    <2>2. \A k \in 0 .. value : k + 1 \in 1 .. value + 1 /\ (k + 1) - 1 = k /\ k \in 0 .. value + 1 /\ k + 1 \in Nat
      OBVIOUS
    <2>3. \A k \in 0 .. value + 1 : A[k] \in T
      BY <2>1
    <2> QED BY <1>6, <2>1, <2>2, <2>3
  \* After k rounds the digits of the numbers up to k - 1 do not change any more.
  <1> DEFINE S == {k \in Nat : k <= value => \A v \in 0 .. value : v <= k => A[k + 1][v] = A[k][v]}
  <1>9. 0 \in S
    <2> SUFFICES ASSUME NEW v \in 0 .. value, v <= 0 PROVE A[0 + 1][v] = A[0][v]
      OBVIOUS
    <2>1. v = 0 /\ 0 \in 0 .. value /\ A[0 + 1] = One(A[0]) /\ A[0] = a
      BY <1>7, <1>8 DEF IsIterate
    <2> QED BY <1>5, <2>1 DEF a
  <1>10. ASSUME NEW k \in Nat, k \in S PROVE k + 1 \in S
    <2> SUFFICES ASSUME k + 1 <= value, NEW v \in 0 .. value, v <= k + 1 PROVE A[(k + 1) + 1][v] = A[k + 1][v]
      OBVIOUS
    <2>1. A[(k + 1) + 1] = One(A[k + 1]) /\ A[k + 1] = One(A[k])
      BY <1>8
    <2>2. CASE v = 0
      BY <1>5, <2>1, <2>2
    <2>3. CASE v # 0
      <3>1. v \in 1 .. value /\ v \div radix \in 0 .. value /\ v \div radix <= k
        BY <1>2, <2>3
      <3>2. A[k + 1][v \div radix] = A[k][v \div radix]
        BY <1>10, <3>1
      <3>3. One(A[k + 1])[v] = Low(radix, v, A[k + 1][v \div radix]) /\ One(A[k])[v] = Low(radix, v, A[k][v \div radix])
        BY <1>4, <3>1
      <3> QED BY <2>1, <3>2, <3>3
    <2> QED BY <2>2, <2>3
  <1>11. Nat \subseteq S
    <2> HIDE DEF S
    <2> QED BY <1>9, <1>10, Induction
  <1>12. A[value] \in T /\ A[value + 1] \in T /\ A[value + 1] = One(A[value])
    BY <1>8
  <1>13. \A v \in 0 .. value : A[value + 1][v] = A[value][v]
    BY <1>11
  <1>14. A[value] = One(A[value])
    <2>1. A[value] = A[value + 1]
      BY <1>12, <1>13 DEF T
    <2> QED BY <1>12, <2>1
  <1> QED BY <1>14 DEF One

LEMMA DigitsFacts ==
  ASSUME NEW radix \in Radixes, NEW value \in Nat \ {0}
  PROVE  \E g : AreDigits(g, value, radix) /\ itoa(value, radix) = strrev(Append(g[value], 0))
  <1> DEFINE Fix(g) == g = [v \in 0 .. value |-> IF v = 0 THEN << >> ELSE Low(radix, v, g[v \div radix])]
             W == CHOOSE g : Fix(g)
  <1>1. itoa(value, radix) = strrev(Append(W[value], 0))
    BY DEF itoa, Low
  <1>2. \E g : Fix(g)
    BY DigitsExist
  <1>3. Fix(W)
    <2> HIDE DEF Fix
    <2> QED BY <1>2
  <1> HIDE DEF W
  <1>4. W[0] = << >> /\ DOMAIN W = 0 .. value /\ \A v \in 1 .. value : W[v] = Low(radix, v, W[v \div radix])
    BY <1>3
  <1> DEFINE S == {k \in Nat : \A v \in 0 .. value : v <= k => W[v] \in Seq(DigitChar)}
  <1>5. 0 \in S
    <2>1. << >> \in Seq(DigitChar)
      OBVIOUS
    <2>2. \A v \in 0 .. value : v <= 0 => v = 0
      OBVIOUS
    <2> QED BY <1>4, <2>1, <2>2
  <1>6. ASSUME NEW k \in Nat, k \in S PROVE k + 1 \in S
    <2> SUFFICES ASSUME NEW v \in 0 .. value, v <= k + 1, v # 0 PROVE W[v] \in Seq(DigitChar)
      BY <1>4
    <2>1. v \in 1 .. value /\ v \in Nat /\ v \div radix \in 0 .. value /\ v \div radix <= k
      BY DivFacts
    <2>2. W[v \div radix] \in Seq(DigitChar)
      BY <1>6, <2>1
    <2> QED BY <1>4, <2>1, <2>2, LowFacts
  <1>7. Nat \subseteq S
    <2> HIDE DEF S
    <2> QED BY <1>5, <1>6, Induction
  <1>8. \A v \in 0 .. value : W[v] \in Seq(DigitChar)
    BY <1>7
  <1>9. W \in [0 .. value -> Seq(DigitChar)]
    BY <1>3, <1>8
  <1> QED BY <1>1, <1>4, <1>9 DEF AreDigits

\* Read from the highest digit on they are the number, and that digit is not 0.
LEMMA DigitsRight ==
  ASSUME NEW radix \in Radixes, NEW value \in Nat, NEW g, AreDigits(g, value, radix)
  PROVE  \A v \in 0 .. value :
           /\ NumberOf(Reverse(g[v]), radix) = v
           /\ v > 0 => Len(g[v]) > 0 /\ Reverse(g[v])[1] # lookup[0]
  <1> DEFINE P(v) == /\ NumberOf(Reverse(g[v]), radix) = v
                     /\ v > 0 => Len(g[v]) > 0 /\ Reverse(g[v])[1] # lookup[0]
             S == {k \in Nat : \A v \in 0 .. value : v <= k => P(v)}
  <1>0. /\ \A v \in 0 .. value : g[v] \in Seq(DigitChar)
        /\ g[0] = << >> /\ \A v \in 1 .. value : g[v] = Low(radix, v, g[v \div radix])
    BY DEF AreDigits
  <1>1. P(0)
    <2>1. Reverse(<< >>) = << >>
      <3>1. << >> \in Seq(DigitChar) /\ Len(<< >>) = 0
        OBVIOUS
      <3>2. Reverse(<< >>) \in Seq(DigitChar) /\ Len(Reverse(<< >>)) = 0
        BY <3>1, ReverseFacts
      <3> QED BY <3>2
    <2>2. radix \in Nat /\ << >> \in Seq(DigitChar) /\ lookup[0] \in DigitChar
      BY DivFacts, LookupFacts
    <2>3. NumberOf(<< >>, radix) = 0
      BY <2>2, ReadOn
    <2> QED BY <1>0, <2>1, <2>3
  <1>2. ASSUME NEW k \in Nat, k \in S PROVE k + 1 \in S
    <2> SUFFICES ASSUME NEW v \in 0 .. value, v <= k + 1, v # 0 PROVE P(v)
      BY <1>1
    <2> DEFINE u == v \div radix
               b == v % radix
               q == Reverse(g[u])
               p == Reverse(g[v])
    <2>1. /\ radix \in Nat /\ v \in 1 .. value /\ v \in Nat /\ u \in 0 .. value /\ u <= k /\ b \in 0 .. 35
          /\ radix * u + b = v
      BY DivFacts
    <2> HIDE DEF u, b
    <2>2. P(u) /\ g[u] \in Seq(DigitChar) /\ g[v] = Low(radix, v, g[u])
      BY <1>0, <1>2, <2>1 DEF u
    <2>3. p = Append(q, lookup[b]) /\ Len(g[v]) = Len(g[u]) + 1
      <3> DEFINE l == Low(radix, v, g[u])
      <3>1. Reverse(l) = Append(Reverse(g[u]), lookup[v % radix]) /\ Len(l) = Len(g[u]) + 1
        BY <2>1, <2>2, LowFacts
      <3>2. g[v] = l
        BY <2>2
      <3> HIDE DEF l
      <3> QED BY <3>1, <3>2, Zenon DEF b
    <2>4. lookup[b] \in DigitChar /\ Digit(lookup[b]) = b
      BY <2>1, LookupFacts
    <2>5. q \in Seq(DigitChar) /\ Len(q) = Len(g[u])
      BY <2>2, ReverseFacts
    <2> HIDE DEF q, p
    <2>6. NumberOf(p, radix) = radix * NumberOf(q, radix) + Digit(lookup[b])
      BY <2>1, <2>3, <2>4, <2>5, ReadOn
    <2>7. NumberOf(p, radix) = v
      BY <2>1, <2>2, <2>4, <2>6 DEF q
    <2>8. p[1] # lookup[0] /\ Len(g[v]) > 0
      <3>1. CASE u = 0
        <4>1. b = v /\ q = << >>
          <5>1. Len(q) = 0
            BY <1>0, <2>5, <3>1
          <5> QED BY <2>1, <2>5, <3>1, <5>1
        <4>2. p[1] = lookup[b] /\ Len(g[v]) = 1
          BY <2>2, <2>3, <2>4, <2>5, <4>1
        <4>3. b \in 0 .. 35 /\ b # 0 /\ 0 \in 0 .. 35
          BY <2>1, <4>1
        <4>4. Digit(lookup[b]) # Digit(lookup[0])
          BY <4>3, LookupFacts
        <4> QED BY <4>2, <4>4
      <3>2. CASE u # 0
        <4>1. Len(q) > 0 /\ q[1] # lookup[0]
          BY <2>1, <2>2, <2>5, <3>2 DEF q
        <4>2. p[1] = q[1]
          BY <2>3, <2>4, <2>5, <4>1
        <4>3. Len(g[v]) > 0
          BY <2>3, <2>5, <4>1
        <4> QED BY <4>1, <4>2, <4>3
      <3> QED BY <3>1, <3>2
    <2> QED BY <2>7, <2>8 DEF p
  <1>3. 0 \in S
    <2>1. \A v \in 0 .. value : v <= 0 => v = 0
      OBVIOUS
    <2> HIDE DEF P
    <2> QED BY <1>1, <2>1
  <1>4. Nat \subseteq S
    <2> HIDE DEF S
    <2> QED BY <1>2, <1>3, Induction
  <1>5. ASSUME NEW v \in 0 .. value PROVE P(v)
    <2> HIDE DEF P
    <2> QED BY <1>4
  <1> QED BY <1>5

LEMMA NumbersFacts == NumbersRight
  <1> SUFFICES ASSUME NEW v \in 0 .. VALUES, NEW radix \in Radixes
               PROVE  LET s == String(itoa(v, radix)) IN NumberOf(s, radix) = v /\ (v > 0 => s[1] # lookup[0])
    BY DEF NumbersRight, Radixes
  <1>1. v \in Nat /\ radix \in Nat /\ 0 \notin DigitChar
    BY CLibAssumption, DivFacts, LookupFacts
  <1>2. CASE v = 0
    <2>1. itoa(v, radix) = Append(<<48>>, 0) /\ <<48>> = Append(<< >>, 48)
      BY <1>2 DEF itoa
    <2>2. 48 \in DigitChar /\ Digit(48) = 0
      BY LookupFacts
    <2>3. <<48>> \in Seq(DigitChar) /\ << >> \in Seq(DigitChar)
      BY <2>2
    <2>4. String(itoa(v, radix)) = <<48>>
      BY <1>1, <2>1, <2>3, StrlenFacts
    <2>5. NumberOf(<<48>>, radix) = radix * NumberOf(<< >>, radix) + 0 /\ NumberOf(<< >>, radix) = 0
      <3>1. NumberOf(Append(<< >>, 48), radix) = radix * NumberOf(<< >>, radix) + Digit(48) /\ NumberOf(<< >>, radix) = 0
        BY <1>1, <2>2, <2>3, ReadOn
      <3>2. <<48>> = Append(<< >>, 48)
        BY <2>1
      <3> QED BY <2>2, <3>1, <3>2, Zenon
    <2>6. NumberOf(<<48>>, radix) = 0
      BY <1>1, <2>5
    <2> QED BY <1>2, <2>4, <2>6
  <1>3. CASE v # 0
    <2>1. PICK g : AreDigits(g, v, radix) /\ itoa(v, radix) = strrev(Append(g[v], 0))
      BY <1>1, <1>3, DigitsFacts
    <2>2. v \in 0 .. v /\ g[v] \in Seq(DigitChar)
      BY <1>1, <2>1 DEF AreDigits
    <2>3. itoa(v, radix) = Append(Reverse(g[v]), 0) /\ Reverse(g[v]) \in Seq(DigitChar)
      BY <1>1, <2>1, <2>2, StrrevFacts, ReverseFacts
    <2>4. String(itoa(v, radix)) = Reverse(g[v])
      BY <1>1, <2>3, StrlenFacts
    <2>5. NumberOf(Reverse(g[v]), radix) = v /\ (v > 0 => Reverse(g[v])[1] # lookup[0])
      BY <1>1, <2>1, <2>2, DigitsRight
    <2> QED BY <2>4, <2>5
  <1> QED BY <1>2, <1>3

\* The library's loops are right for memories, strings and numbers of any size, and
\* every alignment (memcpy, memset, strrev and itoa in lib.c).
THEOREM LibraryCorrect == ConsoleSpec => []LibraryRight
  <1>1. LibraryRight
    BY NumbersFacts, AreasFacts, StringsFacts DEF LibraryRight
  <1> QED BY <1>1, PTL
============================================================================
