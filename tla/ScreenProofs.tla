---------------------------- MODULE ScreenProofs ----------------------------
(***************************************************************************)
(* Proofs about module Screen, for every size of the ring and the screen.  *)
(*                                                                         *)
(* 1. Rows: what Mask, a swap and the two loops of swaps compute.          *)
(* 2. Lines: a row is named by the line it holds, counted from the first   *)
(*    line of the screen, so that R - N is the oldest line and R - 1 the   *)
(*    last one.  Scrolling up or down says where each line goes.           *)
(* 3. The invariant SInv: the rows in use are the lines from one line on;  *)
(*    a view that has not strayed, and the selection, lie among them.      *)
(* 4. Output moves neither the selected lines nor those that are shown.    *)
(* 5. The ring implements the history and the screen of module Scrollback. *)
(***************************************************************************)
EXTENDS Screen, NumberLemmas, SequenceTheorems, TLAPS

-----------------------------------------------------------------------------
(* Rows of the ring.                                                       *)

(* The sizes of the ring and of the screen.                                *)
LEMMA Sizes == N \in Nat \ {0} /\ R \in Nat \ {0} /\ R < N
BY ScreenAssumption

(* Mask(a) by the window of a: a itself in the ring, otherwise a moved by  *)
(* one or two rings.                                                       *)
LEMMA MaskIs ==
  ASSUME NEW a \in Int
  PROVE  /\ Mask(a) \in Ring
         /\ a \in Ring => Mask(a) = a
         /\ a \in N .. 2 * N - 1 => Mask(a) = a - N
         /\ a \in 2 * N .. 3 * N - 1 => Mask(a) = a - 2 * N
         /\ a \in -N .. -1 => Mask(a) = a + N
         /\ a \in -(2 * N) .. -N - 1 => Mask(a) = a + 2 * N
<1> USE Sizes
<1>1. Mask(a) \in Ring
  BY DEF Mask, Ring
<1>2. ASSUME NEW q \in Int, NEW r \in Ring, a = N * q + r PROVE Mask(a) = r
  BY <1>2, RemainderIs DEF Mask, Ring
<1>3. a \in Ring => Mask(a) = a
  BY DEF Mask, Ring
<1>4. ASSUME NEW q \in {-2, -1, 0, 1, 2}, NEW r \in Ring, a = q * N + r PROVE Mask(a) = r
  BY <1>2, <1>4
<1>5. a \in N .. 2 * N - 1 => a - N \in Ring
  BY DEF Ring
<1>6. a \in 2 * N .. 3 * N - 1 => a - 2 * N \in Ring
  BY DEF Ring
<1>7. a \in -N .. -1 => a + N \in Ring
  BY DEF Ring
<1>8. a \in -(2 * N) .. -N - 1 => a + 2 * N \in Ring
  BY DEF Ring
<1> QED BY <1>1, <1>3, <1>4, <1>5, <1>6, <1>7, <1>8

(* Numbers less than N apart are different rows.                           *)
LEMMA RowsDiffer ==
  ASSUME NEW ofs \in Int, NEW a \in Int, NEW b \in Int, a # b, a - b < N, b - a < N
  PROVE  ScreenRow(ofs, a) # ScreenRow(ofs, b)
<1> DEFINE c == ofs + a
           d == ofs + b
<1>1. c \in Int /\ d \in Int /\ c # d /\ c - d < N /\ d - c < N
  OBVIOUS
<1>2. c % N # d % N
  <2> HIDE DEF c, d
  <2> QED BY <1>1, RemaindersDiffer, Sizes
<1> QED BY <1>2 DEF ScreenRow, Mask

(* A line of the screen or of the history is a row of the ring.            *)
LEMMA RowInRing ==
  ASSUME NEW ofs \in Int, NEW a \in Int
  PROVE  ScreenRow(ofs, a) \in Ring
BY MaskIs DEF ScreenRow

(* new is ring after grid_swap_row() of rows a and b.                      *)
Swapped(new, ring, S, ofs, a, b) ==
  /\ new \in [Ring -> S]
  /\ new[ScreenRow(ofs, a)] = ring[ScreenRow(ofs, b)]
  /\ new[ScreenRow(ofs, b)] = ring[ScreenRow(ofs, a)]
  /\ \A p \in Ring \ {ScreenRow(ofs, a), ScreenRow(ofs, b)} : new[p] = ring[p]

(* Swap exchanges two rows and leaves the others alone, also when they are *)
(* the same row.                                                           *)
LEMMA SwapIs ==
  ASSUME NEW S, NEW ring \in [Ring -> S], NEW ofs \in Int, NEW a \in Int, NEW b \in Int
  PROVE  Swapped(Swap(ring, ofs, a, b), ring, S, ofs, a, b)
BY RowInRing DEF Swap, Swapped

(* What the loop of swaps that begins with the last line does: lines lo to *)
(* hi come from n lines above; the n lines below the first one get the     *)
(* last n lines, in the order of their remainders.                         *)
ShiftedDown(new, ring, S, ofs, n, lo, hi) ==
  /\ new \in [Ring -> S]
  /\ \A r \in lo .. hi : new[ScreenRow(ofs, r)] = ring[ScreenRow(ofs, r - n)]
  /\ \A r \in lo - n .. lo - 1 :
       new[ScreenRow(ofs, r)] = ring[ScreenRow(ofs, hi - ((hi - r) % n))]
  /\ \A p \in Ring : (\A r \in lo - n .. hi : ScreenRow(ofs, r) # p) => new[p] = ring[p]

(* What the loop of swaps of term_scroll_partial() computes, whatever its  *)
(* bounds: its lines move by n, and the n lines above it turn around among *)
(* themselves.                                                             *)
LEMMA SwapsDownAre ==
  ASSUME NEW S, NEW ring \in [Ring -> S], NEW ofs \in Int, NEW n \in Nat \ {0},
         NEW lo \in Int, NEW hi \in Int, lo <= hi, hi - lo + n < N
  PROVE  ShiftedDown(SwapsDown(ring, ofs, n, lo, hi), ring, S, ofs, n, lo, hi)
<1> DEFINE X == [Ring -> S]
           P(r) == ScreenRow(ofs, r)
           Rec(g) == [i \in lo - 1 .. hi |->
                        IF i = hi THEN ring ELSE Swap(g[i + 1], ofs, i + 1 - n, i + 1)]
           f == CHOOSE g : g = Rec(g)
           k == hi - lo + 1
           step == [j \in Nat |-> [x \in X |-> Swap(x, ofs, hi - j - n, hi - j)]]
<1>1. k \in Nat /\ ring \in X
  OBVIOUS
<1>2. step \in [Nat -> [X -> X]]
  BY SwapIs DEF Swapped
<1>3. PICK h \in [0 .. k -> X] :
         h[0] = ring /\ \A i \in 0 .. k - 1 : h[i + 1] = step[i][h[i]]
  <2> HIDE DEF X, step, k, P, Rec, f
  <2>1. \E h : Recursive(h, X, ring, step, k)
    BY <1>1, <1>2, FiniteRecursion
  <2> QED BY <2>1 DEF Recursive
<1> DEFINE g == [i \in lo - 1 .. hi |-> h[hi - i]]
<1>4. g = Rec(g)
  <2> SUFFICES ASSUME NEW i \in lo - 1 .. hi PROVE g[i] = Rec(g)[i]
    OBVIOUS
  <2>1. CASE i = hi
    BY <2>1, <1>3
  <2>2. CASE i # hi
    <3>1. hi - i - 1 \in 0 .. k - 1 /\ i + 1 \in lo - 1 .. hi
      BY <2>2
    <3>2. h[hi - i] = step[hi - i - 1][h[hi - i - 1]]
      <4>1. h[(hi - i - 1) + 1] = step[hi - i - 1][h[hi - i - 1]]
        BY <1>3, <3>1
      <4> QED BY <4>1
    <3>3. step[hi - i - 1] = [x \in X |-> Swap(x, ofs, i + 1 - n, i + 1)]
      <4>1. hi - (hi - i - 1) - n = i + 1 - n /\ hi - (hi - i - 1) = i + 1
        OBVIOUS
      <4> QED BY <3>1, <4>1
    <3>4. g[i + 1] = h[hi - i - 1] /\ h[hi - i - 1] \in X
      BY <3>1
    <3> QED BY <3>2, <3>3, <3>4, <2>2
  <2> QED BY <2>1, <2>2
<1>5. f = Rec(f)
  <2> HIDE DEF Rec
  <2> QED BY <1>4
<1>6. SwapsDown(ring, ofs, n, lo, hi) = f[lo - 1]
  BY DEF SwapsDown
<1> DEFINE Up(r) == hi - ((hi - r) % n)
           Closed(i) ==
             /\ f[i] \in X
             /\ \A r \in i + 1 .. hi : f[i][P(r)] = ring[P(r - n)]
             /\ \A r \in i + 1 - n .. i : f[i][P(r)] = ring[P(Up(r))]
             /\ \A p \in Ring : (\A r \in i + 1 - n .. hi : P(r) # p) => f[i][p] = ring[p]
           T == {j \in Nat : j <= k => Closed(hi - j)}
<1> HIDE DEF f
<1>7. 0 \in T
  <2>1. f[hi] = ring
    BY <1>5
  <2>2. ASSUME NEW r \in hi + 1 - n .. hi PROVE Up(r) = r
    BY <2>2
  <2> QED BY <2>1, <2>2
<1>8. ASSUME NEW j \in Nat, j \in T PROVE j + 1 \in T
  <2> SUFFICES ASSUME j + 1 <= k PROVE Closed(hi - (j + 1))
    OBVIOUS
  <2> DEFINE i == hi - j
  <2>1. i \in lo .. hi /\ Closed(i)
    BY <1>8
  <2>2. f[i - 1] = Swap(f[i], ofs, i - n, i)
    <3>1. i - 1 \in lo - 1 .. hi /\ i - 1 # hi /\ (i - 1) + 1 = i
      BY <2>1
    <3> QED BY <1>5, <3>1
  <2>3. hi - (j + 1) = i - 1
    OBVIOUS
  <2> HIDE DEF i, k
  <2>4. /\ f[i - 1] \in X
        /\ f[i - 1][P(i - n)] = f[i][P(i)]
        /\ f[i - 1][P(i)] = f[i][P(i - n)]
        /\ \A p \in Ring \ {P(i - n), P(i)} : f[i - 1][p] = f[i][p]
    <3>1. f[i] \in [Ring -> S] /\ i \in Int /\ i - n \in Int
      BY <2>1
    <3> HIDE DEF Closed, T, g, Rec, step, X, P
    <3>2. Swapped(Swap(f[i], ofs, i - n, i), f[i], S, ofs, i - n, i)
      BY <3>1, SwapIs
    <3>3. Swapped(f[i - 1], f[i], S, ofs, i - n, i)
      BY <3>2, <2>2
    <3> QED BY <3>3 DEF Swapped, P, X
  <2>5. ASSUME NEW a \in lo - n .. hi, NEW b \in lo - n .. hi, a # b PROVE P(a) # P(b)
    BY <2>5, RowsDiffer, Sizes
  <2>6. \A a \in Int : P(a) \in Ring
    BY RowInRing
  <2>7. f[i][P(i - n)] = ring[P(i - n)]
    BY <2>1, <2>5, <2>6
  <2>8. ASSUME NEW r \in i .. hi PROVE f[i - 1][P(r)] = ring[P(r - n)]
    <3>1. CASE r = i
      BY <3>1, <2>4, <2>7
    <3>2. CASE r # i
      <4>1. P(r) # P(i) /\ P(r) # P(i - n) /\ P(r) \in Ring
        BY <3>2, <2>1, <2>5, <2>6
      <4> QED BY <4>1, <2>4, <2>1, <3>2
    <3> QED BY <3>1, <3>2
  <2>9. ASSUME NEW r \in i - n .. i - 1 PROVE f[i - 1][P(r)] = ring[P(Up(r))]
    <3>1. CASE r = i - n
      <4>1. Up(r) = Up(i)
        <5> DEFINE a == hi - i
        <5>1. a \in Int /\ hi - r = a + n * 1
          BY <3>1, <2>1
        <5>2. (a + n * 1) % n = a % n
          <6> HIDE DEF a, P, Up, T, X, g, step
          <6>1. 1 \in Int /\ n \in Nat \ {0}
            OBVIOUS
          <6> QED BY <5>1, <6>1, RemainderShift, Zenon
        <5> QED BY <5>1, <5>2
      <4>2. f[i][P(i)] = ring[P(Up(i))]
        BY <2>1
      <4> QED BY <4>1, <4>2, <3>1, <2>4
    <3>2. CASE r # i - n
      <4>1. P(r) # P(i) /\ P(r) # P(i - n) /\ P(r) \in Ring
        <5>1. /\ r \in lo - n .. hi /\ i \in lo - n .. hi /\ i - n \in lo - n .. hi
              /\ r # i /\ r # i - n /\ r \in Int
          BY <3>2, <2>1
        <5> HIDE DEF P
        <5> QED BY <5>1, <2>5, <2>6
      <4> QED BY <4>1, <2>4, <2>1, <3>2
    <3> QED BY <3>1, <3>2
  <2>10. ASSUME NEW p \in Ring, \A r \in i - n .. hi : P(r) # p PROVE f[i - 1][p] = ring[p]
    <3>1. P(i) # p /\ P(i - n) # p
      BY <2>10, <2>1
    <3> QED BY <3>1, <2>10, <2>4, <2>1
  <2> QED BY <2>1, <2>3, <2>4, <2>8, <2>9, <2>10
<1>9. Closed(lo - 1)
  <2>1. k \in T
    <3> HIDE DEF T, k
    <3> QED BY <1>1, <1>7, <1>8, Induction
  <2> QED BY <2>1
<1> QED BY <1>6, <1>9 DEF ShiftedDown

(* The loop that begins with the first line is its mirror image.           *)
ShiftedUp(new, ring, S, ofs, n, lo, hi) ==
  /\ new \in [Ring -> S]
  /\ \A r \in lo - n .. hi - n : new[ScreenRow(ofs, r)] = ring[ScreenRow(ofs, r + n)]
  /\ \A r \in hi - n + 1 .. hi :
       new[ScreenRow(ofs, r)] = ring[ScreenRow(ofs, (lo - n) + ((r - lo) % n))]
  /\ \A p \in Ring : (\A r \in lo - n .. hi : ScreenRow(ofs, r) # p) => new[p] = ring[p]

(* The same of the loop of term_scroll_reverse_partial().                  *)
LEMMA SwapsUpAre ==
  ASSUME NEW S, NEW ring \in [Ring -> S], NEW ofs \in Int, NEW n \in Nat \ {0},
         NEW lo \in Int, NEW hi \in Int, lo <= hi, hi - lo + n < N
  PROVE  ShiftedUp(SwapsUp(ring, ofs, n, lo, hi), ring, S, ofs, n, lo, hi)
<1> DEFINE X == [Ring -> S]
           P(r) == ScreenRow(ofs, r)
           Rec(g) == [i \in lo - 1 .. hi |->
                        IF i = lo - 1 THEN ring ELSE Swap(g[i - 1], ofs, i, i - n)]
           f == CHOOSE g : g = Rec(g)
           k == hi - lo + 1
           step == [j \in Nat |-> [x \in X |-> Swap(x, ofs, lo + j, lo + j - n)]]
<1>1. k \in Nat /\ ring \in X
  OBVIOUS
<1>2. step \in [Nat -> [X -> X]]
  BY SwapIs DEF Swapped
<1>3. PICK h \in [0 .. k -> X] :
         h[0] = ring /\ \A i \in 0 .. k - 1 : h[i + 1] = step[i][h[i]]
  <2> HIDE DEF X, step, k, P, Rec, f
  <2>1. \E h : Recursive(h, X, ring, step, k)
    BY <1>1, <1>2, FiniteRecursion
  <2> QED BY <2>1 DEF Recursive
<1> DEFINE g == [i \in lo - 1 .. hi |-> h[i - lo + 1]]
<1>4. g = Rec(g)
  <2> SUFFICES ASSUME NEW i \in lo - 1 .. hi PROVE g[i] = Rec(g)[i]
    OBVIOUS
  <2>1. CASE i = lo - 1
    BY <2>1, <1>3
  <2>2. CASE i # lo - 1
    <3>1. i - lo \in 0 .. k - 1 /\ i - 1 \in lo - 1 .. hi
      BY <2>2
    <3>2. h[i - lo + 1] = step[i - lo][h[i - lo]]
      BY <1>3, <3>1
    <3>3. step[i - lo] = [x \in X |-> Swap(x, ofs, i, i - n)]
      <4>1. lo + (i - lo) = i /\ lo + (i - lo) - n = i - n
        OBVIOUS
      <4> QED BY <3>1, <4>1
    <3>4. g[i - 1] = h[i - lo] /\ h[i - lo] \in X
      BY <3>1
    <3> QED BY <3>2, <3>3, <3>4, <2>2
  <2> QED BY <2>1, <2>2
<1>5. f = Rec(f)
  <2> HIDE DEF Rec
  <2> QED BY <1>4
<1>6. SwapsUp(ring, ofs, n, lo, hi) = f[hi]
  BY DEF SwapsUp
<1> DEFINE Up(r) == (lo - n) + ((r - lo) % n)
           Closed(i) ==
             /\ f[i] \in X
             /\ \A r \in lo - n .. i - n : f[i][P(r)] = ring[P(r + n)]
             /\ \A r \in i - n + 1 .. i : f[i][P(r)] = ring[P(Up(r))]
             /\ \A p \in Ring : (\A r \in lo - n .. i : P(r) # p) => f[i][p] = ring[p]
           T == {j \in Nat : j <= k => Closed(lo - 1 + j)}
<1> HIDE DEF f
<1>7. 0 \in T
  <2>1. f[lo - 1] = ring
    BY <1>5
  <2>2. ASSUME NEW r \in lo - n .. lo - 1 PROVE Up(r) = r
    <3> DEFINE a == r - lo
    <3>1. a \in Int /\ (a + n * 1) \in 0 .. n - 1
      OBVIOUS
    <3>2. (a + n * 1) % n = a + n
      BY <3>1
    <3>3. (a + n * 1) % n = a % n
      <4> HIDE DEF a, P, Up, T, X, g, step
      <4>1. 1 \in Int /\ n \in Nat \ {0}
        OBVIOUS
      <4> QED BY <3>1, <4>1, RemainderShift, Zenon
    <3>4. Up(r) = (lo - n) + (a % n) /\ a + n = r - lo + n
      OBVIOUS
    <3> HIDE DEF Up, a
    <3> QED BY <3>2, <3>3, <3>4
  <2>3. lo - 1 - n + 1 = lo - n
    OBVIOUS
  <2>4. Closed(lo - 1)
    BY <2>1, <2>2, <2>3
  <2> QED BY <2>4
<1>8. ASSUME NEW j \in Nat, j \in T PROVE j + 1 \in T
  <2> SUFFICES ASSUME j + 1 <= k PROVE Closed(lo - 1 + (j + 1))
    OBVIOUS
  <2> DEFINE i == lo + j
  <2>1. i \in lo .. hi /\ Closed(i - 1)
    <3>1. lo - 1 + j = i - 1
      OBVIOUS
    <3> QED BY <1>8, <3>1
  <2>2. f[i] = Swap(f[i - 1], ofs, i, i - n)
    <3>1. i \in lo - 1 .. hi /\ i # lo - 1
      BY <2>1
    <3> QED BY <1>5, <3>1
  <2>3. lo - 1 + (j + 1) = i
    OBVIOUS
  <2> HIDE DEF i, k
  <2>4. /\ f[i] \in X
        /\ f[i][P(i - n)] = f[i - 1][P(i)]
        /\ f[i][P(i)] = f[i - 1][P(i - n)]
        /\ \A p \in Ring \ {P(i - n), P(i)} : f[i][p] = f[i - 1][p]
    <3>1. f[i - 1] \in [Ring -> S] /\ i \in Int /\ i - n \in Int
      BY <2>1
    <3> HIDE DEF Closed, T, g, Rec, step, X, P
    <3>2. Swapped(Swap(f[i - 1], ofs, i, i - n), f[i - 1], S, ofs, i, i - n)
      BY <3>1, SwapIs
    <3>3. Swapped(f[i], f[i - 1], S, ofs, i, i - n)
      BY <3>2, <2>2
    <3> QED BY <3>3 DEF Swapped, P, X
  <2>5. ASSUME NEW a \in lo - n .. hi, NEW b \in lo - n .. hi, a # b PROVE P(a) # P(b)
    BY <2>5, RowsDiffer, Sizes
  <2>6. \A a \in Int : P(a) \in Ring
    BY RowInRing
  <2>7. f[i - 1][P(i)] = ring[P(i)]
    BY <2>1, <2>5, <2>6
  <2>8. ASSUME NEW r \in lo - n .. i - n PROVE f[i][P(r)] = ring[P(r + n)]
    <3>1. CASE r = i - n
      BY <3>1, <2>1, <2>4, <2>7
    <3>2. CASE r # i - n
      <4>1. P(r) # P(i) /\ P(r) # P(i - n) /\ P(r) \in Ring
        <5>1. /\ r \in lo - n .. hi /\ i \in lo - n .. hi /\ i - n \in lo - n .. hi
              /\ r # i /\ r # i - n /\ r \in Int
          BY <3>2, <2>1
        <5> HIDE DEF P
        <5> QED BY <5>1, <2>5, <2>6
      <4> QED BY <4>1, <2>4, <2>1, <3>2
    <3> QED BY <3>1, <3>2
  <2>9. ASSUME NEW r \in i - n + 1 .. i PROVE f[i][P(r)] = ring[P(Up(r))]
    <3>1. CASE r = i
      <4>1. Up(i - n) = Up(i)
        <5> DEFINE a == i - n - lo
        <5>1. a \in Int /\ i - lo = a + n * 1
          BY <3>1, <2>1
        <5>2. (a + n * 1) % n = a % n
          <6> HIDE DEF a, P, Up, T, X, g, step
          <6>1. 1 \in Int /\ n \in Nat \ {0}
            OBVIOUS
          <6> QED BY <5>1, <6>1, RemainderShift, Zenon
        <5> QED BY <5>1, <5>2
      <4>2. f[i - 1][P(i - n)] = ring[P(Up(i - n))]
        BY <2>1
      <4> QED BY <4>1, <4>2, <3>1, <2>4
    <3>2. CASE r # i
      <4>1. P(r) # P(i) /\ P(r) # P(i - n) /\ P(r) \in Ring
        <5>1. /\ r \in lo - n .. hi /\ i \in lo - n .. hi /\ i - n \in lo - n .. hi
              /\ r # i /\ r # i - n /\ r \in Int
          BY <3>2, <2>1
        <5> HIDE DEF P
        <5> QED BY <5>1, <2>5, <2>6
      <4> QED BY <4>1, <2>4, <2>1, <3>2
    <3> QED BY <3>1, <3>2
  <2>10. ASSUME NEW p \in Ring, \A r \in lo - n .. i : P(r) # p PROVE f[i][p] = ring[p]
    <3>1. P(i) # p /\ P(i - n) # p
      BY <2>10, <2>1
    <3> QED BY <3>1, <2>10, <2>4, <2>1
  <2> QED BY <2>1, <2>3, <2>4, <2>8, <2>9, <2>10
<1>9. Closed(hi)
  <2>1. k \in T
    <3> HIDE DEF T, k
    <3> QED BY <1>1, <1>7, <1>8, Induction
  <2> QED BY <2>1
<1> QED BY <1>6, <1>9 DEF ShiftedUp

-----------------------------------------------------------------------------
(* Lines are numbered from the first one of the screen; those of the       *)
(* history are negative.  N lines, R - N .. R - 1, are all rows.           *)
AllLines == R - N .. R - 1

(* Reducing a number before an addition or after it is the same.           *)
LEMMA MaskPlus ==
  ASSUME NEW a \in Int, NEW b \in Int
  PROVE  Mask(Mask(a) + b) = Mask(a + b)
<1>1. PICK q \in Int, r \in 0 .. N - 1 : a = N * q + r /\ a % N = r
  BY RemainderOf, Sizes
<1> DEFINE c == r + b
<1>2. c \in Int /\ a + b = c + N * q
  BY <1>1, Sizes
<1>3. (c + N * q) % N = c % N
  <2> HIDE DEF c
  <2> QED BY <1>2, RemainderShift, Sizes
<1> QED BY <1>1, <1>2, <1>3 DEF Mask

(* Line r of a screen that begins n rows further is line r + n.            *)
LEMMA MovedRow ==
  ASSUME NEW ofs \in Int, NEW n \in Int, NEW r \in Int
  PROVE  ScreenRow(Mask(ofs + n), r) = ScreenRow(ofs, r + n)
<1> DEFINE a == ofs + n
<1>1. Mask(Mask(a) + r) = Mask(a + r)
  <2>1. a \in Int
    OBVIOUS
  <2> HIDE DEF a
  <2> QED BY <2>1, MaskPlus
<1>2. a + r = ofs + (r + n)
  OBVIOUS
<1> QED BY <1>1, <1>2 DEF ScreenRow

(* Lines a ring apart are the same row.                                    *)
LEMMA WrappedRow ==
  ASSUME NEW ofs \in Int, NEW r \in Int
  PROVE  ScreenRow(ofs, r + N) = ScreenRow(ofs, r) /\ ScreenRow(ofs, r - N) = ScreenRow(ofs, r)
<1> DEFINE a == ofs + r
<1>1. (a + N * 1) % N = a % N /\ (a + N * (-1)) % N = a % N
  <2>1. a \in Int /\ 1 \in Int /\ -1 \in Int
    OBVIOUS
  <2> HIDE DEF a
  <2> QED BY <2>1, RemainderShift, Sizes
<1>2. ofs + (r + N) = a + N * 1 /\ ofs + (r - N) = a + N * (-1)
  BY Sizes
<1> QED BY <1>1, <1>2 DEF ScreenRow, Mask

(* The distance of a row from the start of the scrollback, case by case.   *)
LEMMA SbOf ==
  ASSUME NEW ofs \in Ring, NEW p \in Ring
  PROVE  /\ AbsToSb(ofs, p) \in Ring
         /\ p - ofs - R >= 0 => AbsToSb(ofs, p) = p - ofs - R
         /\ p - ofs - R < 0 /\ p - ofs - R >= -N => AbsToSb(ofs, p) = p - ofs - R + N
         /\ p - ofs - R < -N => AbsToSb(ofs, p) = p - ofs - R + 2 * N
<1> DEFINE a == p - ofs - R
<1>1. a \in Int /\ a \in -(2 * N) .. N - 1
  BY Sizes DEF Ring
<1>2. AbsToSb(ofs, p) = Mask(a)
  BY DEF AbsToSb
<1>3. /\ a >= 0 => a \in Ring
      /\ a < 0 /\ a >= -N => a \in -N .. -1
      /\ a < -N => a \in -(2 * N) .. -N - 1
  BY <1>1, Sizes DEF Ring
<1> HIDE DEF a
<1>4. /\ Mask(a) \in Ring
      /\ a >= 0 => Mask(a) = a
      /\ a < 0 /\ a >= -N => Mask(a) = a + N
      /\ a < -N => Mask(a) = a + 2 * N
  BY <1>1, <1>3, MaskIs
<1> QED BY <1>2, <1>4 DEF a

(* SbToAbs is the inverse of AbsToSb; the line that far from the start of  *)
(* the scrollback.                                                         *)
LEMMA RowOfSb ==
  ASSUME NEW ofs \in Ring, NEW sb \in Ring
  PROVE  /\ SbToAbs(ofs, sb) \in Ring
         /\ AbsToSb(ofs, SbToAbs(ofs, sb)) = sb
         /\ SbToAbs(ofs, sb) = ScreenRow(ofs, sb + R - N)
         /\ SbToAbs(ofs, sb) = ScreenRow(ofs, sb + R)
<1> DEFINE a == sb + ofs + R
           r == sb + R
<1>1. a \in Int /\ a \in 0 .. 3 * N - 1 /\ ofs \in Int /\ r \in Int
  BY Sizes DEF Ring
<1>2. SbToAbs(ofs, sb) = Mask(a) /\ ScreenRow(ofs, r) = Mask(a)
  <2>1. ofs + r = a
    BY Sizes DEF Ring
  <2> QED BY <2>1 DEF SbToAbs, ScreenRow
<1>3. ScreenRow(ofs, r - N) = ScreenRow(ofs, r)
  <2> HIDE DEF r, a
  <2> QED BY <1>1, WrappedRow
<1>4. sb + R - N = r - N
  BY Sizes DEF Ring
<1>5. /\ Mask(a) \in Ring
      /\ a < N => Mask(a) = a
      /\ N <= a /\ a < 2 * N => Mask(a) = a - N
      /\ 2 * N <= a => Mask(a) = a - 2 * N
  <2>1. /\ a < N => a \in Ring
        /\ N <= a /\ a < 2 * N => a \in N .. 2 * N - 1
        /\ 2 * N <= a => a \in 2 * N .. 3 * N - 1
    BY <1>1, Sizes DEF Ring
  <2> HIDE DEF a
  <2> QED BY <1>1, <2>1, MaskIs
<1>6. AbsToSb(ofs, Mask(a)) = sb
  <2> DEFINE p == Mask(a)
  <2>1. p \in Ring /\ p - ofs - R \in {sb, sb - N, sb - 2 * N} /\ sb \in 0 .. N - 1
    BY <1>1, <1>5, Sizes DEF Ring
  <2>2. N \in Nat /\ N > 0
    BY Sizes
  <2> DEFINE x == p - ofs - R
  <2>3. /\ x >= 0 => AbsToSb(ofs, p) = x
        /\ x < 0 /\ x >= -N => AbsToSb(ofs, p) = x + N
        /\ x < -N => AbsToSb(ofs, p) = x + 2 * N
    <3> HIDE DEF p
    <3> QED BY <2>1, SbOf
  <2>4. x \in {sb, sb - N, sb - 2 * N}
    BY <2>1
  <2>5. AbsToSb(ofs, p) = sb
    <3> HIDE DEF x, p, a
    <3> QED BY <2>1, <2>2, <2>3, <2>4
  <2> QED BY <2>5
<1> QED BY <1>2, <1>3, <1>4, <1>5, <1>6

(* Each row is one of the lines.                                           *)
LEMMA LineOfRow ==
  ASSUME NEW ofs \in Ring, NEW p \in Ring
  PROVE  /\ AbsToSb(ofs, p) + R - N \in AllLines
         /\ ScreenRow(ofs, AbsToSb(ofs, p) + R - N) = p
         /\ SbToAbs(ofs, AbsToSb(ofs, p)) = p
<1> DEFINE sb == AbsToSb(ofs, p)
<1>1. sb \in Ring
  BY SbOf
<1>2. sb + R - N \in AllLines
  BY <1>1, Sizes DEF AllLines, Ring
<1>3. SbToAbs(ofs, sb) = p
  <2> DEFINE a == sb + ofs + R
  <2>1. a \in Int /\ a - p \in {0, N, 2 * N} /\ p \in 0 .. N - 1
    <3> DEFINE x == p - ofs - R
    <3>1. /\ x >= 0 => sb = x
          /\ x < 0 /\ x >= -N => sb = x + N
          /\ x < -N => sb = x + 2 * N
      BY SbOf
    <3>2. x \in Int /\ sb \in Int /\ N \in Nat /\ p \in 0 .. N - 1 /\ a = sb + (p - x)
      BY <1>1, Sizes DEF Ring
    <3> HIDE DEF x, sb
    <3> QED BY <3>1, <3>2
  <2>2. N \in Nat /\ N > 0
    BY Sizes
  <2>3. Mask(a) = p
    <3>1. /\ a = p => a \in Ring
          /\ a = p + N => a \in N .. 2 * N - 1
          /\ a = p + 2 * N => a \in 2 * N .. 3 * N - 1
      BY <2>1, <2>2 DEF Ring
    <3> HIDE DEF a, sb
    <3> QED BY <2>1, <2>2, <3>1, MaskIs
  <2> QED BY <2>3 DEF SbToAbs
<1> QED BY <1>1, <1>2, <1>3, RowOfSb

-----------------------------------------------------------------------------
(* Scrolling.                                                              *)

(* What a row may hold.                                                    *)
Contents == {Null, "blank", "prompt"}

(* erase_line() on lines lo .. hi: these are blank, the others as they     *)
(* were.                                                                   *)
LEMMA ErasedIs ==
  ASSUME NEW ring \in [Ring -> Contents], NEW ofs \in Int, NEW lo \in Int, NEW hi \in Int
  PROVE  /\ Erased(ring, ofs, lo, hi) \in [Ring -> Contents]
         /\ \A r \in lo .. hi : Erased(ring, ofs, lo, hi)[ScreenRow(ofs, r)] = "blank"
         /\ \A p \in Ring : (\A r \in lo .. hi : ScreenRow(ofs, r) # p)
              => Erased(ring, ofs, lo, hi)[p] = ring[p]
BY RowInRing DEF Erased, Contents

(* A region, and a number of lines by which it scrolls.                    *)
IsRegion(top, bottom, n) ==
  /\ top \in 0 .. R - 1
  /\ bottom \in top + 1 .. R
  /\ n \in 1 .. bottom - top

(* What a region that scrolled up leaves; line r was line r + n.           *)
ScrolledUp(new, ofs, top, bottom, n) ==
  /\ new \in [Ring -> Contents]
  /\ \A r \in R - N .. -1 : r < -n => new[ScreenRow(ofs, r)] = rows[ScreenRow(ofs, r)]
  /\ \A r \in R - N .. -1 : r >= -n =>
       new[ScreenRow(ofs, r)] = rows[ScreenRow(ofs, top - 1 - ((top - 1 - r) % n))]
  /\ \A r \in 0 .. top - 1 : new[ScreenRow(ofs, r)] = rows[ScreenRow(ofs, r - n)]
  /\ \A r \in top .. bottom - n - 1 : new[ScreenRow(ofs, r)] = rows[ScreenRow(ofs, r)]
  /\ \A r \in bottom - n .. bottom - 1 : new[ScreenRow(ofs, r)] = "blank"
  /\ \A r \in bottom .. R - 1 : new[ScreenRow(ofs, r)] = rows[ScreenRow(ofs, r - n)]

(* The ring after term_scroll_partial(), line by line of the new screen.   *)
LEMMA ScrolledRingIs ==
  ASSUME rows \in [Ring -> Contents], NEW ofs \in Int,
         NEW top, NEW bottom, NEW n, IsRegion(top, bottom, n)
  PROVE  ScrolledUp(ScrolledRing(ofs, top, bottom, n), ofs, top, bottom, n)
<1> DEFINE P(r) == ScreenRow(ofs, r)
           m == SwapsDown(rows, ofs, n, 0, top - 1)
           l == SwapsDown(m, ofs, n, bottom, R - 1)
           new == Erased(l, ofs, bottom - n, bottom - 1)
<1>1. /\ top \in Nat /\ bottom \in Nat /\ n \in Nat \ {0}
      /\ top + n <= bottom /\ bottom <= R /\ R < N /\ R \in Nat /\ N \in Nat
  BY Sizes DEF IsRegion
<1>2. \A a, b \in Int : a # b /\ a - b < N /\ b - a < N => P(a) # P(b)
  BY RowsDiffer
<1>3. \A a \in Int : P(a) \in Ring
  BY RowInRing
<1>4. /\ m \in [Ring -> Contents]
      /\ \A r \in 0 .. top - 1 : m[P(r)] = rows[P(r - n)]
      /\ \A r \in -n .. -1 : m[P(r)] = rows[P(top - 1 - ((top - 1 - r) % n))]
      /\ \A p \in Ring : (\A r \in -n .. top - 1 : P(r) # p) => m[p] = rows[p]
  <2>1. CASE top = 0
    <3>1. m = rows
      BY <2>1 DEF SwapsDown
    <3>2. ASSUME NEW r \in -n .. -1 PROVE top - 1 - ((top - 1 - r) % n) = r
      BY <1>1, <2>1
    <3> QED BY <3>1, <3>2, <2>1
  <2>2. CASE top # 0
    <3>1. ShiftedDown(m, rows, Contents, ofs, n, 0, top - 1)
      <4>1. 0 \in Int /\ top - 1 \in Int /\ 0 <= top - 1 /\ (top - 1) - 0 + n < N
        BY <1>1, <2>2
      <4> QED BY <1>1, <4>1, SwapsDownAre
    <3>2. 0 - n = -n
      BY <1>1
    <3> QED BY <3>1, <3>2 DEF ShiftedDown
  <2> QED BY <2>1, <2>2
<1>5. /\ l \in [Ring -> Contents]
      /\ \A r \in bottom .. R - 1 : l[P(r)] = m[P(r - n)]
      /\ \A p \in Ring : (\A r \in bottom - n .. R - 1 : P(r) # p) => l[p] = m[p]
  <2> HIDE DEF m
  <2>1. CASE bottom = R
    <3>1. l = m
      BY <2>1, <1>1 DEF SwapsDown
    <3> QED BY <3>1, <2>1, <1>1, <1>4
  <2>2. CASE bottom # R
    <3>1. ShiftedDown(l, m, Contents, ofs, n, bottom, R - 1)
      <4>1. /\ bottom \in Int /\ R - 1 \in Int /\ bottom <= R - 1
            /\ (R - 1) - bottom + n < N /\ m \in [Ring -> Contents]
        BY <1>1, <2>2, <1>4
      <4> QED BY <1>1, <4>1, SwapsDownAre
    <3> QED BY <3>1 DEF ShiftedDown
  <2> QED BY <2>1, <2>2
<1>6. /\ new \in [Ring -> Contents]
      /\ \A r \in bottom - n .. bottom - 1 : new[P(r)] = "blank"
      /\ \A p \in Ring : (\A r \in bottom - n .. bottom - 1 : P(r) # p) => new[p] = l[p]
  <2> HIDE DEF l
  <2>1. bottom - n \in Int /\ bottom - 1 \in Int
    BY <1>1
  <2> QED BY <1>5, <2>1, ErasedIs
<1> HIDE DEF m, l, new
\* Lines that no loop comes to.
<1>7. ASSUME NEW r \in R - N .. bottom - n - 1 PROVE new[P(r)] = m[P(r)]
  <2>1. \A s \in bottom - n .. R - 1 : P(s) # P(r)
    BY <1>1, <1>2
  <2>2. P(r) \in Ring
    BY <1>1, <1>3
  <2>3. \A s \in bottom - n .. bottom - 1 : P(s) # P(r)
    BY <1>1, <2>1
  <2> QED BY <2>1, <2>2, <2>3, <1>5, <1>6
<1>8. ASSUME NEW r \in R - N .. R - 1 - n, r < -n \/ r >= top PROVE m[P(r)] = rows[P(r)]
  <2>1. \A s \in -n .. top - 1 : P(s) # P(r)
    <3> SUFFICES ASSUME NEW s \in -n .. top - 1 PROVE P(s) # P(r)
      OBVIOUS
    <3>1. s # r /\ s - r < N /\ r - s < N /\ s \in Int /\ r \in Int
      BY <1>1, <1>8
    <3> QED BY <3>1, <1>2
  <2> QED BY <2>1, <1>1, <1>3, <1>4
<1>9. ASSUME NEW r \in R - N .. -1, r < -n PROVE new[P(r)] = rows[P(r)]
  BY <1>1, <1>7, <1>8, <1>9
<1>10. ASSUME NEW r \in R - N .. -1, r >= -n
       PROVE  new[P(r)] = rows[P(top - 1 - ((top - 1 - r) % n))]
  <2>1. r \in R - N .. bottom - n - 1 /\ r \in -n .. -1
    BY <1>1, <1>10
  <2> QED BY <2>1, <1>4, <1>7
<1>11. ASSUME NEW r \in 0 .. top - 1 PROVE new[P(r)] = rows[P(r - n)]
  <2>1. r \in R - N .. bottom - n - 1
    BY <1>1
  <2> QED BY <2>1, <1>4, <1>7
<1>12. ASSUME NEW r \in top .. bottom - n - 1 PROVE new[P(r)] = rows[P(r)]
  <2>1. r \in R - N .. bottom - n - 1 /\ r \in R - N .. R - 1 - n /\ r >= top
    BY <1>1
  <2> QED BY <2>1, <1>7, <1>8
<1>13. ASSUME NEW r \in bottom .. R - 1 PROVE new[P(r)] = rows[P(r - n)]
  <2>1. r - n \in R - N .. R - 1 - n /\ r - n >= top
    BY <1>1
  <2>2. m[P(r - n)] = rows[P(r - n)]
    BY <2>1, <1>8
  <2>3. new[P(r)] = l[P(r)]
    <3>1. \A s \in bottom - n .. bottom - 1 : P(s) # P(r)
      <4> SUFFICES ASSUME NEW s \in bottom - n .. bottom - 1 PROVE P(s) # P(r)
        OBVIOUS
      <4>1. s # r /\ s - r < N /\ r - s < N /\ s \in Int /\ r \in Int
        BY <1>1
      <4> QED BY <4>1, <1>2
    <3>2. P(r) \in Ring
      BY <1>1, <1>3
    <3> QED BY <3>1, <3>2, <1>6
  <2> QED BY <2>2, <2>3, <1>5
<1>14. new = ScrolledRing(ofs, top, bottom, n)
  BY DEF new, l, m, ScrolledRing
<1> HIDE DEF P
<1>15. ScrolledUp(new, ofs, top, bottom, n)
  BY <1>6, <1>9, <1>10, <1>11, <1>12, <1>13 DEF ScrolledUp, P
<1> QED BY <1>14, <1>15

(* What a region that scrolled down leaves; line r was line r - n.  The n  *)
(* oldest rows are freed, or as many as the history has.                   *)
ScrolledDown(new, ofs, top, bottom, n) ==
  /\ new \in [Ring -> Contents]
  /\ \A r \in R - N .. -1 : r < R - N + n => new[ScreenRow(ofs, r)] = Null
  /\ \A r \in R - N .. -1 : r >= R - N + n => new[ScreenRow(ofs, r)] = rows[ScreenRow(ofs, r)]
  /\ \A r \in 0 .. top - 1 : new[ScreenRow(ofs, r)] = rows[ScreenRow(ofs, r + n)]
  /\ \A r \in top .. top + n - 1 : new[ScreenRow(ofs, r)] = "blank"
  /\ \A r \in top + n .. bottom - 1 : new[ScreenRow(ofs, r)] = rows[ScreenRow(ofs, r)]
  /\ \A r \in bottom .. R - 1 : new[ScreenRow(ofs, r)] = rows[ScreenRow(ofs, r + n)]

(* The rows that term_scroll_reverse_partial() frees before it swaps.      *)
Freed(lo, hi) ==
  [p \in Ring |-> IF \E r \in lo .. hi : ScreenRow(offset, r) = p THEN Null ELSE rows[p]]

(* The ring after term_scroll_reverse_partial(), line by line of the new   *)
(* screen.                                                                 *)
LEMMA ReversedRingIs ==
  ASSUME rows \in [Ring -> Contents], offset \in Ring,
         NEW top, NEW bottom, NEW n, IsRegion(top, bottom, n),
         NEW ofs, ofs = Mask(offset - n)
  PROVE  ScrolledDown(ReversedRing(ofs, top, bottom, n), ofs, top, bottom, n)
<1> DEFINE P(r) == ScreenRow(ofs, r)
           freed == Freed(bottom - n, bottom - 1)
           m == SwapsUp(freed, ofs, n, bottom + n, R + n - 1)
           l == SwapsUp(m, ofs, n, n, top + n - 1)
           new == Erased(l, ofs, top, top + n - 1)
<1>1. /\ top \in Nat /\ bottom \in Nat /\ n \in Nat \ {0}
      /\ top + n <= bottom /\ bottom <= R /\ R < N /\ R \in Nat /\ N \in Nat
  BY Sizes DEF IsRegion
<1>2. ofs \in Int /\ ofs \in Ring /\ offset \in Int
  <2>1. offset - n \in Int /\ offset \in Int
    BY <1>1 DEF Ring
  <2> QED BY <2>1, MaskIs DEF Ring
<1>3. \A a, b \in Int : a # b /\ a - b < N /\ b - a < N => P(a) # P(b)
  BY <1>2, RowsDiffer
<1>4. \A a \in Int : P(a) \in Ring
  BY <1>2, RowInRing
<1>5. \A r \in Int : ScreenRow(offset, r) = P(r + n)
  <2> SUFFICES ASSUME NEW r \in Int PROVE ScreenRow(offset, r) = P(r + n)
    OBVIOUS
  <2> DEFINE d == -n
             s == r + n
  <2>1. d \in Int /\ s \in Int /\ ofs = Mask(offset + d) /\ s + d = r
    <3>1. offset + d = offset - n /\ s + d = r
      BY <1>1, <1>2
    <3> QED BY <1>1, <3>1
  <2>2. ScreenRow(Mask(offset + d), s) = ScreenRow(offset, s + d)
    <3> HIDE DEF d, s, P
    <3> QED BY <1>2, <2>1, MovedRow
  <2> QED BY <2>1, <2>2
<1>6. /\ freed \in [Ring -> Contents]
      /\ \A r \in bottom .. bottom + n - 1 : freed[P(r)] = Null
      /\ \A p \in Ring : (\A r \in bottom .. bottom + n - 1 : P(r) # p) => freed[p] = rows[p]
  <2>1. freed \in [Ring -> Contents]
    BY DEF Freed, Contents
  <2>2. ASSUME NEW r \in bottom .. bottom + n - 1 PROVE freed[P(r)] = Null
    <3>1. r - n \in bottom - n .. bottom - 1 /\ r - n \in Int /\ (r - n) + n = r /\ r \in Int
      BY <1>1
    <3>2. ScreenRow(offset, r - n) = P(r) /\ P(r) \in Ring
      BY <3>1, <1>4, <1>5
    <3> QED BY <3>1, <3>2 DEF Freed
  <2>3. ASSUME NEW p \in Ring, \A r \in bottom .. bottom + n - 1 : P(r) # p
        PROVE  freed[p] = rows[p]
    <3>1. ASSUME NEW r \in bottom - n .. bottom - 1 PROVE ScreenRow(offset, r) # p
      <4>1. r + n \in bottom .. bottom + n - 1 /\ r \in Int
        BY <1>1
      <4> QED BY <4>1, <1>5, <2>3
    <3> QED BY <3>1 DEF Freed
  <2> QED BY <2>1, <2>2, <2>3
<1>7. /\ m \in [Ring -> Contents]
      /\ \A r \in bottom .. R - 1 : m[P(r)] = freed[P(r + n)]
      /\ \A r \in R .. R + n - 1 : m[P(r)] = Null
      /\ \A p \in Ring : (\A r \in bottom .. R + n - 1 : P(r) # p) => m[p] = freed[p]
  <2> HIDE DEF freed
  <2>1. CASE bottom = R
    <3>1. m = freed
      BY <2>1, <1>1 DEF SwapsUp
    <3> QED BY <3>1, <2>1, <1>1, <1>6
  <2>2. CASE bottom # R
    <3>1. ShiftedUp(m, freed, Contents, ofs, n, bottom + n, R + n - 1)
      <4>1. /\ bottom + n \in Int /\ R + n - 1 \in Int /\ bottom + n <= R + n - 1
            /\ (R + n - 1) - (bottom + n) + n < N /\ freed \in [Ring -> Contents]
        BY <1>1, <2>2, <1>6
      <4> QED BY <1>1, <1>2, <4>1, SwapsUpAre
    <3> HIDE DEF m
    <3>2. PICK lo \in Int, hi \in Int : lo = bottom + n /\ hi = R + n - 1
      BY <1>1
    <3>7. /\ \A r \in lo - n .. hi - n : m[P(r)] = freed[P(r + n)]
          /\ \A r \in hi - n + 1 .. hi : m[P(r)] = freed[P((lo - n) + ((r - lo) % n))]
          /\ \A p \in Ring : (\A r \in lo - n .. hi : P(r) # p) => m[p] = freed[p]
      <4>1. ShiftedUp(m, freed, Contents, ofs, n, lo, hi)
        BY <3>1, <3>2
      <4> QED BY <4>1 DEF ShiftedUp
    <3>8. lo - n = bottom /\ hi - n = R - 1 /\ hi - n + 1 = R
      BY <1>1, <3>2
    <3>3. ASSUME NEW r \in R .. R + n - 1 PROVE m[P(r)] = Null
      <4>1. ((r - lo) % n) \in 0 .. n - 1
        BY <1>1
      <4>2. (lo - n) + ((r - lo) % n) \in bottom .. bottom + n - 1
        <5> DEFINE a == ((r - lo) % n)
        <5> HIDE DEF a
        <5> QED BY <4>1, <1>1, <3>8
      <4>3. r \in hi - n + 1 .. hi
        BY <1>1, <3>2
      <4>4. m[P(r)] = freed[P((lo - n) + ((r - lo) % n))]
        BY <4>3, <3>7
      <4> QED BY <4>2, <4>4, <1>6
    <3>4. ASSUME NEW r \in bottom .. R - 1 PROVE m[P(r)] = freed[P(r + n)]
      BY <3>7, <3>8
    <3>5. ASSUME NEW p \in Ring, \A r \in bottom .. R + n - 1 : P(r) # p PROVE m[p] = freed[p]
      BY <3>2, <3>5, <3>7, <3>8
    <3>6. m \in [Ring -> Contents]
      BY <3>1 DEF ShiftedUp
    <3> QED BY <3>3, <3>4, <3>5, <3>6
  <2> QED BY <2>1, <2>2
<1>8. /\ l \in [Ring -> Contents]
      /\ \A r \in 0 .. top - 1 : l[P(r)] = m[P(r + n)]
      /\ \A p \in Ring : (\A r \in 0 .. top + n - 1 : P(r) # p) => l[p] = m[p]
  <2> HIDE DEF m
  <2>1. CASE top = 0
    <3>1. l = m
      BY <2>1, <1>1 DEF SwapsUp
    <3> QED BY <3>1, <2>1, <1>1, <1>7
  <2>2. CASE top # 0
    <3>1. ShiftedUp(l, m, Contents, ofs, n, n, top + n - 1)
      <4>1. /\ n \in Int /\ top + n - 1 \in Int /\ n <= top + n - 1
            /\ (top + n - 1) - n + n < N /\ m \in [Ring -> Contents]
        BY <1>1, <2>2, <1>7
      <4> QED BY <1>1, <1>2, <4>1, SwapsUpAre
    <3> HIDE DEF l
    <3>2. PICK lo \in Int, hi \in Int : lo = n /\ hi = top + n - 1
      BY <1>1
    <3>7. /\ \A r \in lo - n .. hi - n : l[P(r)] = m[P(r + n)]
          /\ \A p \in Ring : (\A r \in lo - n .. hi : P(r) # p) => l[p] = m[p]
      <4>1. ShiftedUp(l, m, Contents, ofs, n, lo, hi)
        BY <3>1, <3>2
      <4> QED BY <4>1 DEF ShiftedUp
    <3>8. lo - n = 0 /\ hi - n = top - 1
      BY <1>1, <3>2
    <3>3. ASSUME NEW r \in 0 .. top - 1 PROVE l[P(r)] = m[P(r + n)]
      BY <3>7, <3>8
    <3>4. ASSUME NEW p \in Ring, \A r \in 0 .. top + n - 1 : P(r) # p PROVE l[p] = m[p]
      BY <3>2, <3>4, <3>7, <3>8
    <3>5. l \in [Ring -> Contents]
      BY <3>1 DEF ShiftedUp
    <3> QED BY <3>3, <3>4, <3>5
  <2> QED BY <2>1, <2>2
<1>9. /\ new \in [Ring -> Contents]
      /\ \A r \in top .. top + n - 1 : new[P(r)] = "blank"
      /\ \A p \in Ring : (\A r \in top .. top + n - 1 : P(r) # p) => new[p] = l[p]
  <2> HIDE DEF l
  <2>1. top \in Int /\ top + n - 1 \in Int
    BY <1>1
  <2> QED BY <1>2, <1>8, <2>1, ErasedIs
<1> HIDE DEF freed, m, l, new
\* Lines that the upper loop does not come to, or the lower one.
<1>10. ASSUME NEW r \in R - N .. R - 1, r < 0 \/ r >= top + n PROVE new[P(r)] = m[P(r)]
  <2>1. \A s \in 0 .. top + n - 1 : P(s) # P(r)
    <3> SUFFICES ASSUME NEW s \in 0 .. top + n - 1 PROVE P(s) # P(r)
      OBVIOUS
    <3>1. s # r /\ s - r < N /\ r - s < N /\ s \in Int /\ r \in Int
      BY <1>1, <1>10
    <3> QED BY <3>1, <1>3
  <2>2. P(r) \in Ring
    BY <1>1, <1>4
  <2>3. \A s \in top .. top + n - 1 : P(s) # P(r)
    BY <1>1, <2>1
  <2> QED BY <2>1, <2>2, <2>3, <1>8, <1>9
<1>11. ASSUME NEW r \in R - N + n .. bottom - 1 PROVE m[P(r)] = rows[P(r)]
  <2>1. \A s \in bottom .. R + n - 1 : P(s) # P(r)
    <3> SUFFICES ASSUME NEW s \in bottom .. R + n - 1 PROVE P(s) # P(r)
      OBVIOUS
    <3>1. s # r /\ s - r < N /\ r - s < N /\ s \in Int /\ r \in Int
      BY <1>1
    <3> QED BY <3>1, <1>3
  <2>2. P(r) \in Ring
    BY <1>1, <1>4
  <2>3. \A s \in bottom .. bottom + n - 1 : P(s) # P(r)
    BY <1>1, <2>1
  <2> QED BY <2>1, <2>2, <2>3, <1>6, <1>7
<1>12. ASSUME NEW r \in R - N .. -1, r < R - N + n PROVE new[P(r)] = Null
  <2>1. r + N \in R .. R + n - 1 /\ r \in R - N .. R - 1 /\ r < 0 /\ r \in Int
    BY <1>1, <1>12
  <2>2. P(r + N) = P(r)
    BY <1>2, <2>1, WrappedRow
  <2> QED BY <2>1, <2>2, <1>7, <1>10
<1>13. ASSUME NEW r \in R - N .. -1, r >= R - N + n PROVE new[P(r)] = rows[P(r)]
  BY <1>1, <1>10, <1>11, <1>13
<1>14. ASSUME NEW r \in 0 .. top - 1 PROVE new[P(r)] = rows[P(r + n)]
  <2>1. r + n \in R - N + n .. bottom - 1 /\ r \in Int
    BY <1>1
  <2>2. \A s \in top .. top + n - 1 : P(s) # P(r)
    <3> SUFFICES ASSUME NEW s \in top .. top + n - 1 PROVE P(s) # P(r)
      OBVIOUS
    <3>1. s # r /\ s - r < N /\ r - s < N /\ s \in Int /\ r \in Int
      BY <1>1
    <3> QED BY <3>1, <1>3
  <2>3. P(r) \in Ring
    BY <2>1, <1>4
  <2>4. new[P(r)] = l[P(r)]
    BY <2>2, <2>3, <1>9
  <2> QED BY <2>1, <2>4, <1>8, <1>11
<1>15. ASSUME NEW r \in top + n .. bottom - 1 PROVE new[P(r)] = rows[P(r)]
  <2>1. r \in R - N .. R - 1 /\ r >= top + n /\ r \in R - N + n .. bottom - 1
    BY <1>1
  <2> QED BY <2>1, <1>10, <1>11
<1>16. ASSUME NEW r \in bottom .. R - 1 PROVE new[P(r)] = rows[P(r + n)]
  <2>1. r \in R - N .. R - 1 /\ r >= top + n /\ r + n \in Int
    BY <1>1
  <2>2. \A s \in bottom .. bottom + n - 1 : P(s) # P(r + n)
    <3> SUFFICES ASSUME NEW s \in bottom .. bottom + n - 1 PROVE P(s) # P(r + n)
      OBVIOUS
    <3>1. s # r + n /\ s - (r + n) < N /\ (r + n) - s < N /\ s \in Int
      BY <1>1
    <3> QED BY <2>1, <3>1, <1>3
  <2>3. freed[P(r + n)] = rows[P(r + n)]
    BY <2>1, <2>2, <1>4, <1>6
  <2> QED BY <2>1, <2>3, <1>7, <1>10
<1>17. new = ReversedRing(ofs, top, bottom, n)
  BY DEF new, l, m, freed, Freed, ReversedRing
<1> HIDE DEF P
<1>18. ScrolledDown(new, ofs, top, bottom, n)
  BY <1>9, <1>12, <1>13, <1>14, <1>15, <1>16 DEF ScrolledDown, P
<1> QED BY <1>17, <1>18

-----------------------------------------------------------------------------
(* The line a row holds.                                                   *)
LineOf(ofs, p) == AbsToSb(ofs, p) + R - N

(* The line of a row is one of the N lines, and names that row.            *)
LEMMA LineIs ==
  ASSUME NEW ofs \in Ring, NEW p \in Ring
  PROVE  /\ LineOf(ofs, p) \in AllLines /\ LineOf(ofs, p) \in Int
         /\ ScreenRow(ofs, LineOf(ofs, p)) = p
         /\ AbsToSb(ofs, p) = LineOf(ofs, p) + N - R
<1>1. AbsToSb(ofs, p) \in Ring
  BY SbOf
<1>2. LineOf(ofs, p) \in Int /\ AbsToSb(ofs, p) = LineOf(ofs, p) + N - R
  BY <1>1, Sizes DEF LineOf, Ring
<1> QED BY <1>2, LineOfRow DEF LineOf

(* The row of a line holds that line.                                      *)
LEMMA LineOfLine ==
  ASSUME NEW ofs \in Ring, NEW r \in AllLines
  PROVE  LineOf(ofs, ScreenRow(ofs, r)) = r
<1> DEFINE p == ScreenRow(ofs, r)
           l == LineOf(ofs, p)
<1>1. ofs \in Int /\ r \in Int /\ N \in Nat
  BY Sizes DEF Ring, AllLines
<1>2. p \in Ring
  BY <1>1, RowInRing
<1>3. l \in AllLines /\ ScreenRow(ofs, l) = p
  BY <1>2, LineIs
<1>4. l \in Int /\ l - r < N /\ r - l < N
  BY <1>3, <1>1, Sizes DEF AllLines
<1>5. l = r
  <2> HIDE DEF l
  <2>1. ScreenRow(ofs, l) = ScreenRow(ofs, r)
    BY <1>3
  <2> HIDE DEF p
  <2> QED BY <1>1, <2>1, <1>4, RowsDiffer
<1> QED BY <1>5

(* The same row once the screen begins n lines below.                      *)
LEMMA LineMoves ==
  ASSUME NEW ofs \in Ring, NEW n \in Int, NEW p \in Ring
  PROVE  /\ Mask(ofs + n) \in Ring
         /\ LineOf(ofs, p) - n \in AllLines => LineOf(Mask(ofs + n), p) = LineOf(ofs, p) - n
         /\ LineOf(ofs, p) - n + N \in AllLines => LineOf(Mask(ofs + n), p) = LineOf(ofs, p) - n + N
         /\ LineOf(ofs, p) - n - N \in AllLines => LineOf(Mask(ofs + n), p) = LineOf(ofs, p) - n - N
<1> DEFINE new == Mask(ofs + n)
           l == LineOf(ofs, p)
<1>1. ofs \in Int /\ N \in Nat
  BY Sizes DEF Ring
<1>2. new \in Ring
  BY <1>1, MaskIs
<1>3. l \in Int /\ ScreenRow(ofs, l) = p
  BY LineIs
<1>4. \A r \in Int : ScreenRow(new, r) = ScreenRow(ofs, r + n)
  BY <1>1, MovedRow
<1> HIDE DEF l
<1>5. ScreenRow(new, l - n) = p
  <2>1. l - n \in Int /\ (l - n) + n = l
    BY <1>3
  <2> QED BY <2>1, <1>3, <1>4
<1> HIDE DEF new
<1>6. ScreenRow(new, l - n + N) = p /\ ScreenRow(new, l - n - N) = p
  <2> DEFINE a == l - n
  <2>1. a \in Int /\ new \in Int
    BY <1>2, <1>3 DEF Ring
  <2> HIDE DEF a
  <2>2. ScreenRow(new, a + N) = ScreenRow(new, a) /\ ScreenRow(new, a - N) = ScreenRow(new, a)
    BY <2>1, WrappedRow
  <2> QED BY <2>2, <1>5 DEF a
<1>7. \A r \in AllLines : ScreenRow(new, r) = p => LineOf(new, p) = r
  BY <1>2, LineOfLine
<1> QED BY <1>2, <1>5, <1>6, <1>7 DEF new, l

(* The row d rows further holds the line d lines below, if there is one.   *)
LEMMA LineAhead ==
  ASSUME NEW ofs \in Ring, NEW p \in Ring, NEW d \in Int
  PROVE  /\ Mask(p + d) \in Ring
         /\ Mask(p + d) = ScreenRow(ofs, LineOf(ofs, p) + d)
         /\ LineOf(ofs, p) + d \in AllLines => LineOf(ofs, Mask(p + d)) = LineOf(ofs, p) + d
<1> DEFINE l == LineOf(ofs, p)
<1>1. l \in Int /\ ScreenRow(ofs, l) = p /\ ofs \in Int
  BY LineIs DEF Ring
<1> HIDE DEF l
<1>2. Mask(p + d) = ScreenRow(ofs, l + d)
  <2> DEFINE a == ofs + l
  <2>1. a \in Int /\ p = Mask(a) /\ a + d = ofs + (l + d)
    BY <1>1 DEF ScreenRow
  <2>2. Mask(Mask(a) + d) = Mask(a + d)
    <3> HIDE DEF a
    <3> QED BY <2>1, MaskPlus
  <2> QED BY <2>1, <2>2 DEF ScreenRow
<1>3. ScreenRow(ofs, l + d) \in Ring
  BY <1>1, RowInRing
<1>4. l + d \in AllLines => LineOf(ofs, ScreenRow(ofs, l + d)) = l + d
  BY LineOfLine
<1> QED BY <1>2, <1>3, <1>4 DEF l

-----------------------------------------------------------------------------
(* The rows in use are the newest ones: the lines from first on.           *)
InUse(ring, ofs, first) ==
  /\ first \in R - N .. 0
  /\ \A r \in AllLines : ring[ScreenRow(ofs, r)] # Null <=> r >= first

(* A row is allocated exactly if its line is not above the first in use.   *)
LEMMA RowInUse ==
  ASSUME NEW ring, NEW ofs \in Ring, NEW first, InUse(ring, ofs, first), NEW p \in Ring
  PROVE  ring[p] # Null <=> LineOf(ofs, p) >= first
BY LineIs DEF InUse

(* grid_sb_start_ignore_uninitialized() finds the first line in use.       *)
LEMMA OldestIs ==
  ASSUME offset \in Ring, NEW first, InUse(rows, offset, first)
  PROVE  /\ OldestSb = first + N - R
         /\ SbToAbs(offset, OldestSb) = ScreenRow(offset, first)
<1>1. first \in R - N .. 0 /\ R \in Nat /\ N \in Nat /\ R < N /\ R > 0
  BY Sizes DEF InUse
<1>2. ASSUME NEW sb \in Ring PROVE rows[SbToAbs(offset, sb)] # Null <=> sb + R - N >= first
  <2>1. sb + R - N \in AllLines
    BY <1>1 DEF AllLines, Ring
  <2>2. SbToAbs(offset, sb) = ScreenRow(offset, sb + R - N)
    BY RowOfSb
  <2> QED BY <2>1, <2>2 DEF InUse
<1> DEFINE IsOldest(sb) ==
             /\ rows[SbToAbs(offset, sb)] # Null
             /\ \A lower \in 0 .. sb - 1 : rows[SbToAbs(offset, lower)] = Null
           old == first + N - R
<1>3. old \in Ring /\ old \in Int /\ old + R - N = first
  BY <1>1 DEF Ring
<1>4. IsOldest(old)
  <2>1. \A lower \in 0 .. old - 1 : lower \in Ring /\ ~ (lower + R - N >= first)
    BY <1>1, <1>3 DEF Ring
  <2> QED BY <1>1, <1>2, <1>3, <2>1
<1>5. ASSUME NEW sb \in Ring, IsOldest(sb) PROVE sb = old
  <2>1. sb + R - N >= first /\ sb \in Int
    BY <1>2, <1>5 DEF Ring
  <2>2. ~ (old \in 0 .. sb - 1)
    BY <1>4, <1>5
  <2> QED BY <2>1, <2>2, <1>1 DEF Ring
<1>6. OldestSb = old
  <2>1. OldestSb = CHOOSE sb \in Ring : IsOldest(sb)
    BY DEF OldestSb
  <2> HIDE DEF IsOldest, old
  <2> QED BY <2>1, <1>3, <1>4, <1>5
<1>7. SbToAbs(offset, old) = ScreenRow(offset, first)
  <2>1. SbToAbs(offset, old) = ScreenRow(offset, old + R - N)
    BY <1>3, RowOfSb
  <2> QED BY <2>1, <1>3
<1> QED BY <1>6, <1>7

(* A view is good when it begins with a line in use, at most the first one *)
(* of the screen.                                                          *)
GoodView(ring, ofs, v) ==
  /\ AbsToSb(ofs, v) <= N - R
  /\ \A r \in 0 .. R - 1 : ring[Mask(v + r)] # Null

(* A view is good exactly if its first line is in use and not below the    *)
(* screen's first.                                                         *)
LEMMA GoodViewIs ==
  ASSUME NEW ring, NEW ofs \in Ring, NEW v \in Ring, NEW first, InUse(ring, ofs, first)
  PROVE  GoodView(ring, ofs, v) <=> LineOf(ofs, v) >= first /\ LineOf(ofs, v) <= 0
<1> DEFINE l == LineOf(ofs, v)
<1>1. l \in Int /\ l \in AllLines /\ AbsToSb(ofs, v) = l + N - R
  BY LineIs
<1>2. first \in R - N .. 0 /\ R \in Nat /\ N \in Nat /\ R < N /\ R > 0
  BY Sizes DEF InUse
<1>3. \A d \in Int : Mask(v + d) = ScreenRow(ofs, l + d)
  BY LineAhead
<1>4. ASSUME GoodView(ring, ofs, v) PROVE l >= first /\ l <= 0
  <2>1. l <= 0
    BY <1>1, <1>2, <1>4 DEF GoodView
  <2>2. ring[Mask(v + 0)] # Null
    BY <1>2, <1>4 DEF GoodView
  <2>3. Mask(v + 0) = ScreenRow(ofs, l)
    BY <1>3, <1>1
  <2> HIDE DEF l
  <2> QED BY <2>1, <2>2, <2>3, <1>1 DEF InUse
<1>5. ASSUME l >= first, l <= 0 PROVE GoodView(ring, ofs, v)
  <2>1. AbsToSb(ofs, v) <= N - R
    BY <1>1, <1>2, <1>5
  <2>2. ASSUME NEW r \in 0 .. R - 1 PROVE ring[Mask(v + r)] # Null
    <3>1. l + r \in AllLines /\ l + r >= first /\ r \in Int
      BY <1>1, <1>2, <1>5 DEF AllLines
    <3> HIDE DEF l
    <3> QED BY <3>1, <1>3 DEF InUse
  <2> QED BY <2>1, <2>2 DEF GoodView
<1> QED BY <1>4, <1>5

(* The view of the state is good.                                          *)
LEMMA ViewOkIs == ViewOk <=> GoodView(rows, offset, view)
BY DEF ViewOk, GoodView, ViewSb

(* A selection is good when neither end is above the lines in use.         *)
GoodSelection(ofs, first, s, e) ==
  s >= 0 /\ e >= 0 => LineOf(ofs, s) >= first /\ LineOf(ofs, e) >= first

(* The rows between the ends of a selection.                               *)
WalkedRows(ofs, s, e) ==
  {SbToAbs(ofs, sb) : sb \in Min2(AbsToSb(ofs, s), AbsToSb(ofs, e))
                               .. Max2(AbsToSb(ofs, s), AbsToSb(ofs, e))}

(* A walk between two rows meets only allocated rows exactly if both hold  *)
(* lines in use.                                                           *)
LEMMA WalkedIs ==
  ASSUME NEW ring, NEW ofs \in Ring, NEW s \in Ring, NEW e \in Ring,
         NEW first, InUse(ring, ofs, first)
  PROVE  (\A p \in WalkedRows(ofs, s, e) : ring[p] # Null)
           <=> LineOf(ofs, s) >= first /\ LineOf(ofs, e) >= first
<1> DEFINE a == AbsToSb(ofs, s)
           b == AbsToSb(ofs, e)
           lo == Min2(a, b)
           hi == Max2(a, b)
<1>1. first \in R - N .. 0 /\ first \in Int /\ R \in Nat /\ N \in Nat /\ R < N /\ R > 0
  BY Sizes DEF InUse
<1>2. a \in Ring /\ b \in Ring /\ a \in Int /\ b \in Int
  BY SbOf DEF Ring
<1>3. LineOf(ofs, s) = a + R - N /\ LineOf(ofs, e) = b + R - N
  BY DEF LineOf
<1> HIDE DEF a, b
<1>4. lo \in Ring /\ hi \in Ring /\ lo <= a /\ lo <= b /\ a <= hi /\ b <= hi /\ (lo = a \/ lo = b)
  BY <1>2 DEF Min2, Max2
<1>5. ASSUME NEW sb \in Ring PROVE ring[SbToAbs(ofs, sb)] # Null <=> sb + R - N >= first
  <2>1. sb + R - N \in AllLines
    BY <1>1 DEF AllLines, Ring
  <2>2. SbToAbs(ofs, sb) = ScreenRow(ofs, sb + R - N)
    BY RowOfSb
  <2> QED BY <2>1, <2>2 DEF InUse
<1> HIDE DEF lo, hi
<1>6. \A sb \in lo .. hi : sb \in Ring
  BY <1>1, <1>4 DEF Ring
<1>7. WalkedRows(ofs, s, e) = {SbToAbs(ofs, sb) : sb \in lo .. hi}
  BY DEF WalkedRows, lo, hi, a, b
<1>8. (\A sb \in lo .. hi : ring[SbToAbs(ofs, sb)] # Null) <=> lo + R - N >= first
  <2>1. lo \in lo .. hi /\ lo \in Int /\ hi \in Int
    BY <1>4, <1>2 DEF Ring
  <2>2. ASSUME lo + R - N >= first, NEW sb \in lo .. hi PROVE ring[SbToAbs(ofs, sb)] # Null
    <3>1. sb \in Ring /\ sb + R - N >= first
      BY <1>1, <1>6, <2>1, <2>2
    <3> QED BY <3>1, <1>5
  <2>3. ASSUME \A sb \in lo .. hi : ring[SbToAbs(ofs, sb)] # Null PROVE lo + R - N >= first
    BY <2>1, <2>3, <1>4, <1>5
  <2> QED BY <2>2, <2>3
<1>9. lo + R - N >= first <=> a + R - N >= first /\ b + R - N >= first
  <2>1. lo \in Int
    BY <1>4 DEF Ring
  <2> QED BY <1>1, <1>2, <1>4, <2>1
<1> QED BY <1>3, <1>7, <1>8, <1>9

(* foreach_selected() meets only allocated rows exactly if both ends of    *)
(* the selection hold lines in use.                                        *)
LEMMA SelectionIs ==
  ASSUME offset \in Ring, start \in Ring \cup {NoRow}, end \in Ring \cup {NoRow},
         NEW first, InUse(rows, offset, first)
  PROVE  (\A p \in Selected : rows[p] # Null) <=> GoodSelection(offset, first, start, end)
<1>1. CASE start >= 0 /\ end >= 0
  <2>1. start \in Ring /\ end \in Ring
    BY <1>1 DEF NoRow
  <2>2. Selected = WalkedRows(offset, start, end)
    BY <1>1, <2>1 DEF Selected, WalkedRows, FirstSb, LastSb, Ring
  <2> QED BY <1>1, <2>1, <2>2, WalkedIs DEF GoodSelection
<1>2. CASE ~ (start >= 0 /\ end >= 0)
  <2>1. Selected = {}
    BY <1>2 DEF Selected, Ring, NoRow
  <2> QED BY <1>2, <2>1 DEF GoodSelection
<1> QED BY <1>1, <1>2

-----------------------------------------------------------------------------
(* The lines after a region scrolled up, from the lines before.            *)
LinesUp(new, ofs, top, bottom, n) ==
  /\ new \in [Ring -> Contents]
  /\ \A r \in R - N .. -n - 1 : new[ScreenRow(ofs, r)] = rows[ScreenRow(offset, r + n)]
  /\ \A r \in R - N .. -1 : r >= -n =>
       new[ScreenRow(ofs, r)] = rows[ScreenRow(offset, top + n - 1 - ((top - 1 - r) % n))]
  /\ \A r \in 0 .. top - 1 : new[ScreenRow(ofs, r)] = rows[ScreenRow(offset, r)]
  /\ \A r \in top .. bottom - n - 1 : new[ScreenRow(ofs, r)] = rows[ScreenRow(offset, r + n)]
  /\ \A r \in bottom - n .. bottom - 1 : new[ScreenRow(ofs, r)] = "blank"
  /\ \A r \in bottom .. R - 1 : new[ScreenRow(ofs, r)] = rows[ScreenRow(offset, r)]

(* term_scroll_partial(), by the lines of the screen before it and after   *)
(* it.                                                                     *)
LEMMA LinesScrollUp ==
  ASSUME rows \in [Ring -> Contents], offset \in Ring,
         NEW top, NEW bottom, NEW n, IsRegion(top, bottom, n)
  PROVE  LinesUp(ScrolledRing(Mask(offset + n), top, bottom, n), Mask(offset + n), top, bottom, n)
<1> DEFINE ofs == Mask(offset + n)
           new == ScrolledRing(ofs, top, bottom, n)
<1>1. /\ top \in Nat /\ bottom \in Nat /\ n \in Nat \ {0}
      /\ top + n <= bottom /\ bottom <= R /\ R < N /\ R \in Nat /\ N \in Nat
  BY Sizes DEF IsRegion
<1>2. offset \in Int /\ ofs \in Int
  <2>1. offset \in Int /\ offset + n \in Int
    BY <1>1 DEF Ring
  <2> QED BY <2>1, MaskIs DEF Ring
<1>3. \A r \in Int : ScreenRow(ofs, r) = ScreenRow(offset, r + n)
  BY <1>1, <1>2, MovedRow
<1>4. ScrolledUp(new, ofs, top, bottom, n)
  BY <1>2, ScrolledRingIs
<1> HIDE DEF new, ofs
<1>5. ASSUME NEW r \in R - N .. -n - 1
      PROVE  new[ScreenRow(ofs, r)] = rows[ScreenRow(offset, r + n)]
  <2>1. r \in R - N .. -1 /\ r < -n /\ r \in Int
    BY <1>1
  <2>2. new[ScreenRow(ofs, r)] = rows[ScreenRow(ofs, r)]
    BY <2>1, <1>4 DEF ScrolledUp
  <2> QED BY <2>1, <2>2, <1>3
<1>6. ASSUME NEW r \in R - N .. -1, r >= -n
      PROVE  new[ScreenRow(ofs, r)] = rows[ScreenRow(offset, top + n - 1 - ((top - 1 - r) % n))]
  <2>1. new[ScreenRow(ofs, r)] = rows[ScreenRow(ofs, top - 1 - ((top - 1 - r) % n))]
    BY <1>6, <1>4 DEF ScrolledUp
  <2> DEFINE a == ((top - 1 - r) % n)
  <2>2. a \in Int
    BY <1>1
  <2> HIDE DEF a
  <2>3. top - 1 - a \in Int /\ (top - 1 - a) + n = top + n - 1 - a
    BY <1>1, <2>2
  <2>4. ScreenRow(ofs, top - 1 - a) = ScreenRow(offset, top + n - 1 - a)
    BY <2>3, <1>3
  <2> QED BY <2>1, <2>4 DEF a
<1>7. ASSUME NEW r \in Int, r \in 0 .. top - 1 \/ r \in bottom .. R - 1
      PROVE  new[ScreenRow(ofs, r)] = rows[ScreenRow(offset, r)]
  <2>1. new[ScreenRow(ofs, r)] = rows[ScreenRow(ofs, r - n)]
    BY <1>4, <1>7 DEF ScrolledUp
  <2>2. r - n \in Int /\ (r - n) + n = r
    BY <1>1
  <2> QED BY <2>1, <2>2, <1>3
<1>8. ASSUME NEW r \in top .. bottom - n - 1
      PROVE  new[ScreenRow(ofs, r)] = rows[ScreenRow(offset, r + n)]
  <2>1. new[ScreenRow(ofs, r)] = rows[ScreenRow(ofs, r)]
    BY <1>4 DEF ScrolledUp
  <2> QED BY <2>1, <1>3
<1>9. LinesUp(new, ofs, top, bottom, n)
  <2>1. \A r \in 0 .. top - 1 : new[ScreenRow(ofs, r)] = rows[ScreenRow(offset, r)]
    BY <1>7
  <2>2. \A r \in bottom .. R - 1 : new[ScreenRow(ofs, r)] = rows[ScreenRow(offset, r)]
    BY <1>7
  <2>3. new \in [Ring -> Contents]
    BY <1>4 DEF ScrolledUp
  <2>4. \A r \in bottom - n .. bottom - 1 : new[ScreenRow(ofs, r)] = "blank"
    BY <1>4 DEF ScrolledUp
  <2> QED BY <2>1, <2>2, <2>3, <2>4, <1>5, <1>6, <1>8, Zenon DEF LinesUp
<1> QED BY <1>9 DEF new, ofs

(* The lines after a region scrolled down.                                 *)
LinesDown(new, ofs, top, bottom, n) ==
  /\ new \in [Ring -> Contents]
  /\ \A r \in R - N .. -1 : r < R - N + n => new[ScreenRow(ofs, r)] = Null
  /\ \A r \in R - N + n .. -1 : new[ScreenRow(ofs, r)] = rows[ScreenRow(offset, r - n)]
  /\ \A r \in 0 .. top - 1 : new[ScreenRow(ofs, r)] = rows[ScreenRow(offset, r)]
  /\ \A r \in top .. top + n - 1 : new[ScreenRow(ofs, r)] = "blank"
  /\ \A r \in top + n .. bottom - 1 : new[ScreenRow(ofs, r)] = rows[ScreenRow(offset, r - n)]
  /\ \A r \in bottom .. R - 1 : new[ScreenRow(ofs, r)] = rows[ScreenRow(offset, r)]

(* term_scroll_reverse_partial(), by the lines of the screen before it and *)
(* after it.                                                               *)
LEMMA LinesScrollDown ==
  ASSUME rows \in [Ring -> Contents], offset \in Ring,
         NEW top, NEW bottom, NEW n, IsRegion(top, bottom, n)
  PROVE  LinesDown(ReversedRing(Mask(offset - n), top, bottom, n), Mask(offset - n), top, bottom, n)
<1> DEFINE ofs == Mask(offset - n)
           new == ReversedRing(ofs, top, bottom, n)
<1>1. /\ top \in Nat /\ bottom \in Nat /\ n \in Nat \ {0}
      /\ top + n <= bottom /\ bottom <= R /\ R < N /\ R \in Nat /\ N \in Nat
  BY Sizes DEF IsRegion
<1>2. offset \in Int /\ ofs \in Int
  <2>1. offset \in Int /\ offset - n \in Int
    BY <1>1 DEF Ring
  <2> QED BY <2>1, MaskIs DEF Ring
<1>3. \A r \in Int : ScreenRow(ofs, r) = ScreenRow(offset, r - n)
  <2> SUFFICES ASSUME NEW r \in Int PROVE ScreenRow(ofs, r) = ScreenRow(offset, r - n)
    OBVIOUS
  <2> DEFINE d == -n
  <2>1. d \in Int /\ offset - n = offset + d /\ r - n = r + d
    BY <1>1, <1>2
  <2>2. ScreenRow(Mask(offset + d), r) = ScreenRow(offset, r + d)
    <3> HIDE DEF d, ofs
    <3> QED BY <2>1, <1>2, MovedRow
  <2> QED BY <2>1, <2>2
<1>4. ScrolledDown(new, ofs, top, bottom, n)
  BY ReversedRingIs
<1> HIDE DEF new, ofs
<1>5. ASSUME NEW r \in Int, r \in R - N + n .. -1 \/ r \in top + n .. bottom - 1
      PROVE  new[ScreenRow(ofs, r)] = rows[ScreenRow(offset, r - n)]
  <2>1. new[ScreenRow(ofs, r)] = rows[ScreenRow(ofs, r)]
    <3>1. CASE r \in R - N + n .. -1
      <4>1. r \in R - N .. -1 /\ r >= R - N + n
        BY <1>1, <3>1
      <4> QED BY <4>1, <1>4 DEF ScrolledDown
    <3>2. CASE r \in top + n .. bottom - 1
      BY <3>2, <1>4 DEF ScrolledDown
    <3> QED BY <3>1, <3>2, <1>5
  <2> QED BY <2>1, <1>3
<1>6. ASSUME NEW r \in Int, r \in 0 .. top - 1 \/ r \in bottom .. R - 1
      PROVE  new[ScreenRow(ofs, r)] = rows[ScreenRow(offset, r)]
  <2>1. new[ScreenRow(ofs, r)] = rows[ScreenRow(ofs, r + n)]
    BY <1>4, <1>6 DEF ScrolledDown
  <2>2. r + n \in Int /\ (r + n) - n = r
    BY <1>1
  <2> QED BY <2>1, <2>2, <1>3
<1>9. LinesDown(new, ofs, top, bottom, n)
  <2>1. \A r \in 0 .. top - 1 : new[ScreenRow(ofs, r)] = rows[ScreenRow(offset, r)]
    BY <1>6
  <2>2. \A r \in bottom .. R - 1 : new[ScreenRow(ofs, r)] = rows[ScreenRow(offset, r)]
    BY <1>6
  <2>3. new \in [Ring -> Contents]
    BY <1>4 DEF ScrolledDown
  <2>4. \A r \in top .. top + n - 1 : new[ScreenRow(ofs, r)] = "blank"
    BY <1>4 DEF ScrolledDown
  <2>5. \A r \in R - N .. -1 : r < R - N + n => new[ScreenRow(ofs, r)] = Null
    BY <1>4 DEF ScrolledDown
  <2>6. \A r \in R - N + n .. -1 : new[ScreenRow(ofs, r)] = rows[ScreenRow(offset, r - n)]
    BY <1>5
  <2>7. \A r \in top + n .. bottom - 1 : new[ScreenRow(ofs, r)] = rows[ScreenRow(offset, r - n)]
    BY <1>5
  <2> QED BY <2>1, <2>2, <2>3, <2>4, <2>5, <2>6, <2>7, Zenon DEF LinesDown
<1> QED BY <1>9 DEF new, ofs

(* The rows in use after a scroll: n more, or n fewer.                     *)
LEMMA UseAfterUp ==
  ASSUME NEW first, InUse(rows, offset, first), NEW new, NEW ofs,
         NEW top, NEW bottom, NEW n, IsRegion(top, bottom, n),
         LinesUp(new, ofs, top, bottom, n)
  PROVE  InUse(new, ofs, Max2(first - n, R - N))
<1>1. /\ top \in Nat /\ bottom \in Nat /\ n \in Nat \ {0} /\ first \in Int
      /\ top + n <= bottom /\ bottom <= R /\ R < N /\ R \in Nat /\ N \in Nat
      /\ R - N <= first /\ first <= 0
  BY Sizes DEF IsRegion, InUse
<1> DEFINE f == Max2(first - n, R - N)
<1>2. f \in R - N .. 0 /\ (f = first - n \/ f = R - N) /\ first - n <= f /\ f \in Int
  BY <1>1 DEF Max2
<1>3. ASSUME NEW r \in AllLines PROVE rows[ScreenRow(offset, r)] # Null <=> r >= first
  BY DEF InUse
<1> HIDE DEF f
<1>4. ASSUME NEW r \in AllLines PROVE new[ScreenRow(ofs, r)] # Null <=> r >= f
  <2>1. r \in Int /\ R - N <= r /\ r <= R - 1
    BY <1>1 DEF AllLines
  <2>2. CASE r < -n
    <3>1. r \in R - N .. -n - 1 /\ r + n \in AllLines
      BY <1>1, <2>1, <2>2 DEF AllLines
    <3>2. new[ScreenRow(ofs, r)] = rows[ScreenRow(offset, r + n)]
      BY <3>1 DEF LinesUp
    <3>3. r + n >= first <=> r >= f
      BY <1>1, <1>2, <2>1
    <3> QED BY <3>1, <3>2, <3>3, <1>3
  <2>3. CASE -n <= r /\ r < 0
    <3> DEFINE x == top + n - 1 - ((top - 1 - r) % n)
    <3>1. x \in AllLines /\ x >= first
      <4>1. ((top - 1 - r) % n) \in 0 .. n - 1
        BY <1>1, <2>1
      <4> DEFINE a == ((top - 1 - r) % n)
      <4> HIDE DEF a
      <4>2. top + n - 1 - a \in AllLines /\ top + n - 1 - a >= first
        BY <4>1, <1>1 DEF a, AllLines
      <4> QED BY <4>2 DEF a
    <3>2. r \in R - N .. -1 /\ r >= -n
      BY <2>1, <2>3, <1>1
    <3>3. new[ScreenRow(ofs, r)] = rows[ScreenRow(offset, x)]
      BY <3>2 DEF LinesUp
    <3>4. r >= f
      BY <1>1, <1>2, <2>1, <2>3
    <3> HIDE DEF x
    <3> QED BY <3>1, <3>3, <3>4, <1>3
  <2>4. CASE r >= 0 /\ (r < top \/ r >= bottom)
    <3>1. new[ScreenRow(ofs, r)] = rows[ScreenRow(offset, r)]
      <4>1. r \in 0 .. top - 1 \/ r \in bottom .. R - 1
        BY <2>1, <2>4, <1>1
      <4> QED BY <4>1 DEF LinesUp
    <3> QED BY <3>1, <2>4, <2>1, <1>1, <1>2, <1>3
  <2>5. CASE r >= top /\ r < bottom - n
    <3>1. r \in top .. bottom - n - 1 /\ r + n \in AllLines /\ r + n >= first
      BY <2>1, <2>5, <1>1 DEF AllLines
    <3>2. new[ScreenRow(ofs, r)] = rows[ScreenRow(offset, r + n)]
      BY <3>1 DEF LinesUp
    <3> QED BY <3>1, <3>2, <2>5, <2>1, <1>1, <1>2, <1>3
  <2>6. CASE r >= bottom - n /\ r < bottom
    <3>1. r \in bottom - n .. bottom - 1
      BY <2>1, <2>6, <1>1
    <3>2. new[ScreenRow(ofs, r)] = "blank"
      BY <3>1 DEF LinesUp
    <3> QED BY <3>2, <2>6, <2>1, <1>1, <1>2, ScreenAssumption
  <2> QED BY <2>1, <2>2, <2>3, <2>4, <2>5, <2>6, <1>1
<1> QED BY <1>2, <1>4 DEF InUse, f

(* Scrolling down gives n of the lines in use back.                        *)
LEMMA UseAfterDown ==
  ASSUME NEW first, InUse(rows, offset, first), NEW new, NEW ofs,
         NEW top, NEW bottom, NEW n, IsRegion(top, bottom, n),
         LinesDown(new, ofs, top, bottom, n)
  PROVE  InUse(new, ofs, Min2(first + n, 0))
<1>1. /\ top \in Nat /\ bottom \in Nat /\ n \in Nat \ {0} /\ first \in Int
      /\ top + n <= bottom /\ bottom <= R /\ R < N /\ R \in Nat /\ N \in Nat
      /\ R - N <= first /\ first <= 0
  BY Sizes DEF IsRegion, InUse
<1> DEFINE f == Min2(first + n, 0)
<1>2. /\ f \in R - N .. 0 /\ f \in Int /\ f <= first + n /\ f <= 0
      /\ (f = first + n \/ f = 0)
  BY <1>1 DEF Min2
<1>3. ASSUME NEW r \in AllLines PROVE rows[ScreenRow(offset, r)] # Null <=> r >= first
  BY DEF InUse
<1> HIDE DEF f
<1>4. ASSUME NEW r \in AllLines PROVE new[ScreenRow(ofs, r)] # Null <=> r >= f
  <2>1. r \in Int /\ R - N <= r /\ r <= R - 1
    BY <1>1 DEF AllLines
  <2>2. CASE r < 0 /\ r < R - N + n
    <3>1. r \in R - N .. -1
      BY <2>1, <2>2, <1>1
    <3>2. new[ScreenRow(ofs, r)] = Null
      BY <3>1, <2>2 DEF LinesDown
    <3>3. r < f
      BY <2>1, <2>2, <1>1, <1>2
    <3> QED BY <3>2, <3>3, <2>1, <1>2
  <2>3. CASE r < 0 /\ r >= R - N + n
    <3>1. r \in R - N + n .. -1 /\ r - n \in AllLines
      BY <2>1, <2>3, <1>1 DEF AllLines
    <3>2. new[ScreenRow(ofs, r)] = rows[ScreenRow(offset, r - n)]
      BY <3>1 DEF LinesDown
    <3>3. r - n >= first <=> r >= f
      BY <1>1, <1>2, <2>1, <2>3
    <3> QED BY <3>1, <3>2, <3>3, <1>3
  <2>4. CASE r >= 0 /\ (r < top \/ r >= bottom)
    <3>1. new[ScreenRow(ofs, r)] = rows[ScreenRow(offset, r)]
      <4>1. r \in 0 .. top - 1 \/ r \in bottom .. R - 1
        BY <2>1, <2>4, <1>1
      <4> QED BY <4>1 DEF LinesDown
    <3> QED BY <3>1, <2>4, <2>1, <1>1, <1>2, <1>3
  <2>5. CASE r >= top + n /\ r < bottom
    <3>1. r \in top + n .. bottom - 1 /\ r - n \in AllLines /\ r - n >= first
      BY <2>1, <2>5, <1>1 DEF AllLines
    <3>2. new[ScreenRow(ofs, r)] = rows[ScreenRow(offset, r - n)]
      BY <3>1 DEF LinesDown
    <3> QED BY <3>1, <3>2, <2>5, <2>1, <1>1, <1>2, <1>3
  <2>6. CASE r >= top /\ r < top + n
    <3>1. r \in top .. top + n - 1
      BY <2>1, <2>6, <1>1
    <3>2. new[ScreenRow(ofs, r)] = "blank"
      BY <3>1 DEF LinesDown
    <3> QED BY <3>2, <2>6, <2>1, <1>1, <1>2, ScreenAssumption
  <2> QED BY <2>1, <2>2, <2>3, <2>4, <2>5, <2>6, <1>1
<1> QED BY <1>2, <1>4 DEF InUse, f

-----------------------------------------------------------------------------
(* The selection and the view after a scroll.                              *)

(* FirstSb() and LastSb(), as lines.                                       *)
LEMMA EndsAre ==
  ASSUME NEW ofs \in Ring, start \in Ring, end \in Ring
  PROVE  /\ FirstSb(ofs) \in Int /\ LastSb(ofs) \in Int
         /\ FirstSb(ofs) + R - N = Min2(LineOf(ofs, start), LineOf(ofs, end))
         /\ LastSb(ofs) + R - N = Max2(LineOf(ofs, start), LineOf(ofs, end))
<1>1. AbsToSb(ofs, start) \in Int /\ AbsToSb(ofs, end) \in Int
  BY SbOf DEF Ring
<1> QED BY <1>1, Sizes DEF FirstSb, LastSb, Min2, Max2, LineOf

(* selection_scroll_up(): a selection that is kept still lies on lines in  *)
(* use.                                                                    *)
LEMMA SelectionAfterUp ==
  ASSUME TypeOK, NEW first, InUse(rows, offset, first), GoodSelection(offset, first, start, end),
         NEW top, NEW bottom, NEW n, IsRegion(top, bottom, n),
         NEW sel, sel = AfterScrollUp(top, bottom, n)
  PROVE  GoodSelection(Mask(offset + n), Max2(first - n, R - N), sel[1], sel[2])
<1> DEFINE ofs == Mask(offset + n)
<1>1. /\ n \in Nat /\ first \in Int /\ R < N /\ R \in Nat /\ N \in Nat /\ first >= R - N
  BY Sizes DEF IsRegion, InUse
<1>2. CASE sel = NoSelection
  BY <1>2 DEF NoSelection, GoodSelection, NoRow
<1>3. CASE sel # NoSelection /\ start >= 0 /\ end >= 0
  <2>1. sel = selection /\ FirstSb(offset) - n >= 0
    <3>1. start \in Ring /\ end \in Ring
      BY <1>3 DEF TypeOK, NoRow
    <3>2. FirstSb(offset) \in Int
      BY <3>1, EndsAre DEF TypeOK
    <3> QED BY <1>1, <1>3, <3>2 DEF AfterScrollUp
  <2>2. sel[1] = start /\ sel[2] = end
    BY <2>1 DEF selection
  <2>3. ASSUME NEW p \in Ring, LineOf(offset, p) + N - R >= FirstSb(offset), LineOf(offset, p) >= first
        PROVE  LineOf(ofs, p) >= Max2(first - n, R - N)
    <3>1. LineOf(offset, p) \in AllLines /\ LineOf(offset, p) \in Int /\ offset \in Ring
      BY LineIs DEF TypeOK
    <3>2. FirstSb(offset) \in Int
      BY <1>3, EndsAre DEF TypeOK, NoRow
    <3>3. LineOf(offset, p) - n \in AllLines
      BY <1>1, <2>1, <2>3, <3>1, <3>2 DEF AllLines
    <3>4. LineOf(ofs, p) = LineOf(offset, p) - n
      BY <1>1, <3>1, <3>3, LineMoves
    <3> QED BY <1>1, <2>3, <3>1, <3>3, <3>4 DEF Max2, AllLines
  <2>4. start \in Ring /\ end \in Ring /\ offset \in Ring
    BY <1>3 DEF TypeOK, NoRow
  <2>5. /\ LineOf(offset, start) + N - R >= FirstSb(offset)
        /\ LineOf(offset, end) + N - R >= FirstSb(offset)
    <3>1. /\ FirstSb(offset) \in Int
          /\ FirstSb(offset) + R - N = Min2(LineOf(offset, start), LineOf(offset, end))
      BY <2>4, EndsAre
    <3>2. LineOf(offset, start) \in Int /\ LineOf(offset, end) \in Int
      BY <2>4, LineIs
    <3> QED BY <1>1, <3>1, <3>2 DEF Min2
  <2>6. LineOf(offset, start) >= first /\ LineOf(offset, end) >= first
    BY <1>3 DEF GoodSelection
  <2> QED BY <2>2, <2>3, <2>4, <2>5, <2>6 DEF GoodSelection
<1>4. CASE sel # NoSelection /\ ~ (start >= 0 /\ end >= 0)
  <2>1. sel = selection
    BY <1>4 DEF AfterScrollUp
  <2> QED BY <1>4, <2>1 DEF GoodSelection, selection
<1> QED BY <1>2, <1>3, <1>4

(* selection_scroll_down(): a selection that is kept still lies on lines   *)
(* in use.                                                                 *)
LEMMA SelectionAfterDown ==
  ASSUME TypeOK, NEW first, InUse(rows, offset, first), GoodSelection(offset, first, start, end),
         NEW top, NEW bottom, NEW n, IsRegion(top, bottom, n),
         NEW sel, sel = AfterScrollDown(top, bottom, n)
  PROVE  GoodSelection(Mask(offset - n), Min2(first + n, 0), sel[1], sel[2])
<1> DEFINE ofs == Mask(offset - n)
<1>1. /\ n \in Nat /\ first \in Int /\ R < N /\ R \in Nat /\ N \in Nat /\ first >= R - N
  BY Sizes DEF IsRegion, InUse
<1>2. CASE sel = NoSelection
  BY <1>2 DEF NoSelection, GoodSelection, NoRow
<1>3. CASE sel # NoSelection /\ start >= 0 /\ end >= 0
  <2>1. sel = selection /\ LastSb(offset) <= N - 1 - n
    <3>1. start \in Ring /\ end \in Ring
      BY <1>3 DEF TypeOK, NoRow
    <3>2. LastSb(offset) \in Int
      BY <3>1, EndsAre DEF TypeOK
    <3> QED BY <1>1, <1>3, <3>2 DEF AfterScrollDown
  <2>2. sel[1] = start /\ sel[2] = end
    BY <2>1 DEF selection
  <2>3. ASSUME NEW p \in Ring, LineOf(offset, p) + N - R <= LastSb(offset), LineOf(offset, p) >= first
        PROVE  LineOf(ofs, p) >= Min2(first + n, 0)
    <3>1. LineOf(offset, p) \in AllLines /\ LineOf(offset, p) \in Int /\ offset \in Ring
      BY LineIs DEF TypeOK
    <3>2. LastSb(offset) \in Int
      BY <1>3, EndsAre DEF TypeOK, NoRow
    <3> DEFINE d == -n
    <3>3. d \in Int /\ LineOf(offset, p) - d = LineOf(offset, p) + n /\ offset + d = offset - n
      BY <1>1, <3>1 DEF Ring
    <3>4. LineOf(offset, p) - d \in AllLines
      BY <1>1, <2>1, <2>3, <3>1, <3>2, <3>3 DEF AllLines
    <3>5. LineOf(Mask(offset + d), p) = LineOf(offset, p) - d
      <4> HIDE DEF d
      <4> QED BY <3>1, <3>3, <3>4, LineMoves
    <3>6. LineOf(ofs, p) = LineOf(offset, p) + n
      BY <3>3, <3>5
    <3> QED BY <1>1, <2>3, <3>1, <3>6 DEF Min2
  <2>4. start \in Ring /\ end \in Ring /\ offset \in Ring
    BY <1>3 DEF TypeOK, NoRow
  <2>5. /\ LineOf(offset, start) + N - R <= LastSb(offset)
        /\ LineOf(offset, end) + N - R <= LastSb(offset)
    <3>1. /\ LastSb(offset) \in Int
          /\ LastSb(offset) + R - N = Max2(LineOf(offset, start), LineOf(offset, end))
      BY <2>4, EndsAre
    <3>2. LineOf(offset, start) \in Int /\ LineOf(offset, end) \in Int
      BY <2>4, LineIs
    <3> QED BY <1>1, <3>1, <3>2 DEF Max2
  <2>6. LineOf(offset, start) >= first /\ LineOf(offset, end) >= first
    BY <1>3 DEF GoodSelection
  <2> QED BY <2>2, <2>3, <2>4, <2>5, <2>6 DEF GoodSelection
<1>4. CASE sel # NoSelection /\ ~ (start >= 0 /\ end >= 0)
  <2>1. sel = selection
    BY <1>4 DEF AfterScrollDown
  <2> QED BY <1>4, <2>1 DEF GoodSelection, selection
<1> QED BY <1>2, <1>3, <1>4

(* The distance from one row down to another, as lines.                    *)
LEMMA Distance ==
  ASSUME NEW ofs \in Ring, NEW p \in Ring, NEW q \in Ring,
         LineOf(ofs, p) <= LineOf(ofs, q)
  PROVE  Mask(q - p) = LineOf(ofs, q) - LineOf(ofs, p)
<1> DEFINE d == LineOf(ofs, q) - LineOf(ofs, p)
<1>1. /\ LineOf(ofs, p) \in Int /\ LineOf(ofs, p) \in AllLines
      /\ LineOf(ofs, q) \in Int /\ LineOf(ofs, q) \in AllLines
  BY LineIs
<1>2. d \in Ring /\ d \in Int /\ LineOf(ofs, p) + d = LineOf(ofs, q)
  BY <1>1, Sizes DEF Ring, AllLines
<1>3. Mask(p + d) = q
  <2>1. Mask(p + d) = ScreenRow(ofs, LineOf(ofs, p) + d)
    <3> HIDE DEF d
    <3> QED BY <1>2, LineAhead
  <2> QED BY <2>1, <1>2, LineIs
<1>4. p \in Int /\ q \in Int /\ p \in 0 .. N - 1 /\ d \in 0 .. N - 1 /\ N \in Nat
  BY <1>2, Sizes DEF Ring
<1> DEFINE a == p + d
<1>5. q = a \/ q = a - N
  <2>1. a \in Int /\ (a \in Ring \/ a \in N .. 2 * N - 1)
    BY <1>4 DEF Ring
  <2> HIDE DEF d
  <2>2. Mask(a) = q
    BY <1>3
  <2> HIDE DEF a
  <2> QED BY <2>1, <2>2, MaskIs
<1> DEFINE b == q - p
<1>6. b \in Int /\ (b = d \/ b = d - N)
  BY <1>4, <1>5
<1>7. Mask(b) = d
  <2>1. /\ b = d => b \in Ring
        /\ b = d - N => b \in -N .. -1
    BY <1>2, <1>4 DEF Ring
  <2> HIDE DEF b, d
  <2>2. d \in Int /\ N \in Nat
    BY <1>2, <1>4
  <2> QED BY <1>6, <2>1, <2>2, MaskIs
<1> QED BY <1>7

(* The screen begins at line 0.                                            *)
LEMMA ScreenBegins ==
  ASSUME NEW ofs \in Ring
  PROVE  LineOf(ofs, ofs) = 0 /\ ScreenRow(ofs, 0) = ofs
<1>1. ScreenRow(ofs, 0) = ofs
  <2>1. ofs + 0 = ofs /\ ofs \in Int
    BY Sizes DEF Ring
  <2> QED BY <2>1, MaskIs DEF ScreenRow
<1>2. 0 \in AllLines
  BY Sizes DEF AllLines
<1> QED BY <1>1, <1>2, LineOfLine

(* term_scroll_partial(): a good view stays good, and a view that is       *)
(* scrolled back stays where it is or starts at the oldest line.           *)
LEMMA ViewAfterUp ==
  ASSUME TypeOK, NEW first, InUse(rows, offset, first),
         first <= LineOf(offset, view), LineOf(offset, view) <= 0,
         NEW top, NEW bottom, NEW n, IsRegion(top, bottom, n), mode # "urls",
         NEW ofs, ofs = Mask(offset + n),
         NEW v, v = IF view = offset THEN ofs ELSE ViewAfterScroll(ofs, n)
  PROVE  /\ v \in Ring
         /\ Max2(first - n, R - N) <= LineOf(ofs, v) /\ LineOf(ofs, v) <= 0
         /\ view # offset => v = view \/ AbsToSb(ofs, v) = 0
<1> DEFINE l == LineOf(offset, view)
<1>1. /\ n \in Nat /\ n <= R /\ n > 0 /\ n \in Int /\ first \in Int /\ R < N /\ R \in Nat
      /\ N \in Nat /\ first >= R - N /\ first <= 0
  BY Sizes DEF IsRegion, InUse
<1>2. offset \in Ring /\ view \in Ring /\ offset \in Int /\ view \in Int
  BY DEF TypeOK, Ring
<1>3. /\ l \in Int /\ l >= R - N /\ l >= first /\ l <= 0 /\ l <= R - 1
      /\ ViewSb = l + N - R
  BY <1>1, <1>2, LineIs DEF AllLines, ViewSb
<1>4. ofs \in Ring
  BY <1>1, <1>2, LineMoves
<1>5. CASE view = offset
  <2>1. v = ofs
    BY <1>5
  <2> QED BY <1>1, <1>4, <1>5, <2>1, ScreenBegins DEF Max2
<1>6. CASE view # offset /\ n <= ViewSb
  <2>1. v = view
    BY <1>1, <1>3, <1>6 DEF ViewAfterScroll
  <2>2. l - n \in AllLines
    BY <1>1, <1>3, <1>6 DEF AllLines
  <2>3. LineOf(ofs, view) = l - n
    BY <1>1, <1>2, <2>2, LineMoves
  <2> HIDE DEF l
  <2> QED BY <1>1, <1>2, <1>3, <1>6, <2>1, <2>3 DEF Max2
<1>7. CASE view # offset /\ n > ViewSb
  <2> DEFINE m == Mask(ofs - view)
  <2>1. v = Mask(view + Min2(n - ViewSb, m))
    BY <1>1, <1>3, <1>7 DEF ViewAfterScroll
  <2>2. CASE n - l = N
    <3>1. l - n + N \in AllLines
      BY <1>1, <1>3, <2>2 DEF AllLines
    <3>2. LineOf(ofs, view) = 0
      <4>1. LineOf(ofs, view) = l - n + N
        BY <1>1, <1>2, <3>1, LineMoves
      <4> QED BY <4>1, <1>1, <1>3, <2>2
    <3>3. ofs = view
      BY <1>2, <1>4, <3>2, ScreenBegins, LineIs
    <3>4. m = 0
      <4>1. ofs - view = 0 /\ 0 \in Ring /\ 0 \in Int
        BY <3>3, <1>1, <1>2 DEF Ring
      <4> QED BY <4>1, MaskIs
    <3>5. v = Mask(view + 0)
      <4>1. Min2(n - ViewSb, 0) = 0
        BY <1>1, <1>3, <1>7 DEF Min2
      <4> QED BY <2>1, <3>4, <4>1
    <3>6. v = view
      BY <3>5, <1>2, MaskIs
    <3> QED BY <1>1, <1>2, <3>2, <3>6 DEF Max2
  <2>3. CASE n - l # N
    <3>1. l - n + N \in AllLines
      BY <1>1, <1>3, <1>7 DEF AllLines
    <3>2. LineOf(ofs, view) = l - n + N
      BY <1>1, <1>2, <3>1, LineMoves
    <3>3. m = n - l
      <4> DEFINE a == ofs - view
                 b == n - l
      <4>1. ofs \in Int /\ a \in Int /\ b \in Int
        BY <1>1, <1>2, <1>3, <1>4 DEF Ring
      <4>2. b \in Ring
        BY <1>1, <1>3, <2>3 DEF Ring
      <4>3. LineOf(ofs, ofs) = 0
        BY <1>4, ScreenBegins
      <4>4. Mask(view - ofs) = LineOf(ofs, view)
        <5>1. LineOf(ofs, ofs) <= LineOf(ofs, view)
          BY <1>1, <1>3, <3>2, <4>3
        <5>2. Mask(view - ofs) = LineOf(ofs, view) - LineOf(ofs, ofs)
          BY <1>2, <1>4, <5>1, Distance
        <5> QED BY <5>2, <4>3, <1>1, <1>3, <3>2
      <4>5. Mask(a) = b
        <5> DEFINE c == view - ofs
                   k == l - n + N
        <5>1. c \in Int /\ a = 0 - c /\ k = N - b /\ k \in 0 .. N - 1 /\ c \in -N + 1 .. N - 1
          BY <1>1, <1>2, <1>3, <1>4, <2>3 DEF Ring
        <5>2. Mask(c) = k
          BY <3>2, <4>4
        <5>3. c = k \/ c = k - N
          <6>1. /\ c >= 0 => c \in Ring
                /\ c < 0 => c \in -N .. -1
            BY <5>1, <1>1 DEF Ring
          <6> HIDE DEF c, k, a, b
          <6> QED BY <5>1, <5>2, <6>1, <1>1, MaskIs
        <5>4. a = b - N \/ a = b
          BY <5>1, <5>3, <1>1, <4>1
        <5>5. /\ a = b => a \in Ring
              /\ a = b - N => a \in -N .. -1
          BY <4>1, <4>2, <1>1 DEF Ring
        <5> HIDE DEF a, b
        <5> QED BY <4>1, <5>4, <5>5, <1>1, MaskIs
      <4> QED BY <4>5
    <3>4. Min2(n - ViewSb, m) = n - ViewSb
      BY <1>1, <1>3, <3>3 DEF Min2
    <3> DEFINE d == n - ViewSb
    <3>5. LineOf(ofs, v) = R - N /\ v \in Ring
      <4>1. d \in Int /\ l - n + N + d = R /\ R - N \in AllLines
        BY <1>1, <1>3 DEF AllLines
      <4>2. v = Mask(view + d)
        BY <2>1, <3>4
      <4>3. Mask(view + d) = ScreenRow(ofs, LineOf(ofs, view) + d) /\ Mask(view + d) \in Ring
        <5> HIDE DEF d
        <5> QED BY <1>2, <1>4, <4>1, LineAhead
      <4>4. v = ScreenRow(ofs, R)
        BY <3>2, <4>1, <4>2, <4>3
      <4>5. ScreenRow(ofs, R) = ScreenRow(ofs, R - N)
        BY <1>1, <1>4, WrappedRow DEF Ring
      <4> QED BY <1>4, <4>1, <4>2, <4>3, <4>4, <4>5, LineOfLine
    <3>6. first - n <= R - N
      BY <1>1, <1>3, <1>7
    <3>7. AbsToSb(ofs, v) = 0
      BY <1>1, <1>4, <3>5, LineIs
    <3> QED BY <1>1, <3>5, <3>6, <3>7 DEF Max2
  <2> QED BY <2>2, <2>3
<1> QED BY <1>1, <1>3, <1>5, <1>6, <1>7

(* term_scroll_reverse_partial(): a good view stays good.                  *)
LEMMA ViewAfterDown ==
  ASSUME TypeOK, NEW first, InUse(rows, offset, first),
         first <= LineOf(offset, view), LineOf(offset, view) <= 0,
         NEW top, NEW bottom, NEW n, IsRegion(top, bottom, n),
         NEW ofs, ofs = Mask(offset - n),
         NEW v, v = IF view = offset \/ AbsToSb(ofs, view) > AbsToSb(ofs, ofs) THEN ofs ELSE view
  PROVE  /\ v \in Ring
         /\ Min2(first + n, 0) <= LineOf(ofs, v) /\ LineOf(ofs, v) <= 0
<1> DEFINE l == LineOf(offset, view)
<1>1. /\ n \in Nat /\ n <= R /\ n > 0 /\ n \in Int /\ first \in Int /\ R < N /\ R \in Nat
      /\ N \in Nat /\ first >= R - N /\ first <= 0
  BY Sizes DEF IsRegion, InUse
<1>2. offset \in Ring /\ view \in Ring /\ offset \in Int /\ view \in Int
  BY DEF TypeOK, Ring
<1> DEFINE d == -n
<1>3. d \in Int /\ ofs = Mask(offset + d)
  <2>1. offset + d = offset - n
    BY <1>1, <1>2
  <2> QED BY <2>1, <1>1
<1>4. ofs \in Ring
  <2>1. offset + d \in Int
    BY <1>2, <1>3
  <2>2. Mask(offset + d) \in Ring
    <3> HIDE DEF d
    <3> QED BY <2>1, MaskIs
  <2> QED BY <2>2, <1>3
<1>5. LineOf(ofs, ofs) = 0 /\ AbsToSb(ofs, ofs) = N - R
  <2>1. LineOf(ofs, ofs) = 0 /\ AbsToSb(ofs, ofs) = LineOf(ofs, ofs) + N - R
    BY <1>4, ScreenBegins, LineIs
  <2> QED BY <2>1, <1>1
<1>6. CASE v = ofs
  BY <1>1, <1>4, <1>5, <1>6 DEF Min2
<1>7. CASE v # ofs
  <2>1. v = view /\ AbsToSb(ofs, view) <= N - R
    <3>1. AbsToSb(ofs, view) \in Int
      BY <1>2, <1>4, SbOf DEF Ring
    <3> QED BY <3>1, <1>1, <1>5, <1>7
  <2>2. LineOf(ofs, view) \in Int /\ LineOf(ofs, view) <= 0
    <3>1. LineOf(ofs, view) \in Int /\ AbsToSb(ofs, view) = LineOf(ofs, view) + N - R
      BY <1>2, <1>4, LineIs
    <3> QED BY <3>1, <2>1, <1>1
  <2>3. l \in Int /\ l >= first /\ l < 0 /\ l \in AllLines
    <3>1. l \in Int /\ l \in AllLines /\ ScreenRow(offset, l) = view
      BY <1>2, LineIs
    <3>2. l # 0
      BY <1>2, <1>7, <3>1, ScreenBegins
    <3> QED BY <3>1, <3>2
  <2>4. l - d \in AllLines
    BY <2>3, <1>1 DEF AllLines
  <2>5. LineOf(Mask(offset + d), view) = l - d
    <3> HIDE DEF d
    <3> QED BY <1>2, <1>3, <2>4, LineMoves, Zenon
  <2> QED BY <1>1, <1>2, <1>3, <2>1, <2>2, <2>3, <2>5 DEF Min2
<1> QED BY <1>6, <1>7

-----------------------------------------------------------------------------
(* The inductive invariant: the rows in use are contiguous, and the view   *)
(* and the selection lie within them.                                      *)
ViewIn(ofs, first, v) == first <= LineOf(ofs, v) /\ LineOf(ofs, v) <= 0

(* The rows in use are the lines from one line on; a view that has not     *)
(* strayed, and the selection, lie among them.                             *)
Fits ==
  \E first \in R - N .. 0 :
    /\ InUse(rows, offset, first)
    /\ dead \/ stray \/ ViewIn(offset, first, view)
    /\ dead \/ GoodSelection(offset, first, start, end)

(* The inductive invariant.                                                *)
SInv == TypeOK /\ Fits

(* It implies what the run checks.                                         *)
LEMMA SInvImplies == SInv => ScreenKept
<1> SUFFICES ASSUME SInv PROVE ScreenKept
  OBVIOUS
<1>1. PICK first : /\ InUse(rows, offset, first)
                   /\ dead \/ stray \/ ViewIn(offset, first, view)
                   /\ dead \/ GoodSelection(offset, first, start, end)
  BY DEF SInv, Fits
<1>2. /\ offset \in Ring /\ view \in Ring
      /\ start \in Ring \cup {NoRow} /\ end \in Ring \cup {NoRow}
  BY DEF SInv, TypeOK
<1>3. ViewShowsLines
  BY <1>1, <1>2, GoodViewIs, ViewOkIs DEF ViewShowsLines, ViewIn
<1>4. SelectionAllocated
  BY <1>1, <1>2, SelectionIs DEF SelectionAllocated
<1> QED BY <1>3, <1>4 DEF ScreenKept, SInv

(* The note that the view strayed is kept true by every action that either *)
(* keeps the view good or makes the note.                                  *)
LEMMA StrayAfter ==
  ASSUME offset' \in Ring, view' \in Ring, NEW first, InUse(rows', offset', first),
         \/ Settles /\ (~stray => ViewIn(offset', first, view'))
         \/ MayStray
  PROVE  stray' \in BOOLEAN /\ (dead' \/ stray' \/ ViewIn(offset', first, view'))
<1>1. GoodView(rows', offset', view') <=> ViewIn(offset', first, view')
  BY GoodViewIs DEF ViewIn
<1>2. ViewOk' <=> GoodView(rows', offset', view')
  BY DEF ViewOk, GoodView, ViewSb
<1>3. stray' \in BOOLEAN
  BY DEF Settles, MayStray
<1> QED BY <1>1, <1>2, <1>3 DEF Settles, MayStray

(* What has to be shown of a step.                                         *)
LEMMA SInvAfter ==
  ASSUME TypeOK', NEW first, InUse(rows', offset', first),
         dead' \/ stray' \/ ViewIn(offset', first, view'),
         dead' \/ GoodSelection(offset', first, start', end')
  PROVE  SInv'
BY DEF SInv, Fits, InUse

(* The invariant before a step of a live terminal.                         *)
LEMMA Now ==
  ASSUME SInv, Live
  PROVE  /\ TypeOK
         /\ \E first \in R - N .. 0 :
              /\ InUse(rows, offset, first)
              /\ stray \/ ViewIn(offset, first, view)
              /\ GoodSelection(offset, first, start, end)
BY DEF SInv, Fits, Live

(* A selection that stays or is cancelled has its type.                    *)
LEMMA SelectionType ==
  ASSUME TypeOK, NEW sel, sel = NoSelection \/ sel = selection, Select(sel)
  PROVE  start' \in Ring \cup {NoRow} /\ end' \in Ring \cup {NoRow} /\ ongoing' \in BOOLEAN
<1>1. CASE sel = NoSelection
  BY <1>1 DEF Select, NoSelection
<1>2. CASE sel = selection
  <2>1. start' = start /\ end' = end
    BY <1>2 DEF Select, selection
  <2>2. ongoing' = ongoing
    BY <1>2 DEF Select, selection
  <2> QED BY <2>1, <2>2 DEF TypeOK
<1> QED BY <1>1, <1>2

(* Scrolling a region up keeps the invariant.                              *)
LEMMA ScrollKeeps ==
  ASSUME SInv, NEW top, NEW bottom, NEW n, IsRegion(top, bottom, n), Scroll(top, bottom, n)
  PROVE  SInv'
<1> DEFINE ofs == Mask(offset + n)
           sel == AfterScrollUp(top, bottom, n)
<1>1. PICK first : /\ InUse(rows, offset, first)
                   /\ stray \/ ViewIn(offset, first, view)
                   /\ GoodSelection(offset, first, start, end)
  BY Now DEF Scroll, OnNormal
<1> DEFINE f == Max2(first - n, R - N)
<1>2. TypeOK /\ Live /\ offset \in Ring /\ view \in Ring
      /\ rows \in [Ring -> Contents]
  BY DEF SInv, TypeOK, Contents, Scroll, OnNormal
<1>3. /\ rows' = ScrolledRing(ofs, top, bottom, n) /\ offset' = ofs
      /\ view' = IF view = offset THEN ofs ELSE ViewAfterScroll(ofs, n)
      /\ Select(sel) /\ alt' = alt /\ mode' = mode /\ original' = original /\ dead' = dead
      /\ IF mode = "urls" THEN MayStray ELSE Settles
  BY DEF Scroll, search
<1>4. LinesUp(rows', ofs, top, bottom, n)
  BY <1>2, <1>3, LinesScrollUp
<1>5. InUse(rows', offset', f)
  BY <1>1, <1>3, <1>4, UseAfterUp
<1>6. n \in Int /\ n \in Nat /\ offset \in Int /\ view \in Int
  BY <1>2, Sizes DEF IsRegion, Ring
<1>7. offset' \in Ring
  <2>1. offset + n \in Int
    BY <1>6
  <2> QED BY <2>1, <1>3, MaskIs
<1>8. view' \in Ring
  <2>1. \A x \in Int : Mask(x) \in Ring
    BY MaskIs
  <2> DEFINE m == Mask(ofs - view)
             k == Min2(n - ViewSb, m)
  <2>2. ofs \in Int /\ ViewSb \in Int
    BY <1>2, <1>3, <1>7, SbOf DEF Ring, ViewSb
  <2>3. m \in Int
    BY <2>1, <2>2, <1>6 DEF Ring
  <2>4. view + k \in Int
    <3> HIDE DEF m
    <3> QED BY <2>2, <2>3, <1>6 DEF Min2
  <2>5. Mask(view + k) \in Ring
    BY <2>1, <2>4
  <2> QED BY <2>5, <1>2, <1>3, <1>7 DEF ViewAfterScroll
<1>9. mode # "urls" /\ ~stray => ViewIn(offset', f, view')
  BY <1>1, <1>2, <1>3, ViewAfterUp DEF ViewIn
<1>10. GoodSelection(offset', f, start', end')
  <2>1. GoodSelection(ofs, f, sel[1], sel[2])
    BY <1>1, <1>2, SelectionAfterUp
  <2> QED BY <2>1, <1>3 DEF Select
<1> HIDE DEF f, ofs
<1>11. stray' \in BOOLEAN /\ (dead' \/ stray' \/ ViewIn(offset', f, view'))
  BY <1>3, <1>5, <1>7, <1>8, <1>9, StrayAfter
<1>12. TypeOK'
  <2>1. start' \in Ring \cup {NoRow} /\ end' \in Ring \cup {NoRow} /\ ongoing' \in BOOLEAN
    <3>1. sel = NoSelection \/ sel = selection
      BY DEF AfterScrollUp
    <3> QED BY <3>1, <1>2, <1>3, SelectionType
  <2>2. rows' \in [Ring -> {Null, "blank", "prompt"}]
    BY <1>4 DEF LinesUp, Contents
  <2> QED BY <2>1, <2>2, <1>2, <1>3, <1>7, <1>8, <1>11 DEF TypeOK
<1> QED BY <1>5, <1>10, <1>11, <1>12, SInvAfter

(* Scrolling a region down keeps it.                                       *)
LEMMA ScrollReverseKeeps ==
  ASSUME SInv, NEW top, NEW bottom, NEW n, IsRegion(top, bottom, n), ScrollReverse(top, bottom, n)
  PROVE  SInv'
<1> DEFINE ofs == Mask(offset - n)
           sel == AfterScrollDown(top, bottom, n)
<1>1. PICK first : /\ InUse(rows, offset, first)
                   /\ stray \/ ViewIn(offset, first, view)
                   /\ GoodSelection(offset, first, start, end)
  BY Now DEF ScrollReverse, OnNormal
<1> DEFINE f == Min2(first + n, 0)
<1>2. TypeOK /\ Live /\ offset \in Ring /\ view \in Ring
      /\ rows \in [Ring -> Contents]
  BY DEF SInv, TypeOK, Contents, ScrollReverse, OnNormal
<1>3. /\ rows' = ReversedRing(ofs, top, bottom, n) /\ offset' = ofs
      /\ view' = IF view = offset \/ AbsToSb(ofs, view) > AbsToSb(ofs, ofs)
                   THEN ofs ELSE view
      /\ Select(sel) /\ alt' = alt /\ mode' = mode /\ original' = original /\ dead' = dead
      /\ Settles
  BY DEF ScrollReverse, search
<1>4. LinesDown(rows', ofs, top, bottom, n)
  BY <1>2, <1>3, LinesScrollDown
<1>5. InUse(rows', offset', f)
  BY <1>1, <1>3, <1>4, UseAfterDown
<1>7. offset' \in Ring
  <2>1. offset - n \in Int
    BY <1>2, Sizes DEF IsRegion, Ring
  <2> QED BY <2>1, <1>3, MaskIs
<1>8. view' \in Ring
  BY <1>2, <1>3, <1>7
<1>9. ~stray => ViewIn(offset', f, view')
  BY <1>1, <1>2, <1>3, ViewAfterDown DEF ViewIn
<1>10. GoodSelection(offset', f, start', end')
  <2>1. GoodSelection(ofs, f, sel[1], sel[2])
    BY <1>1, <1>2, SelectionAfterDown
  <2> QED BY <2>1, <1>3 DEF Select
<1> HIDE DEF f, ofs
<1>11. stray' \in BOOLEAN /\ (dead' \/ stray' \/ ViewIn(offset', f, view'))
  BY <1>3, <1>5, <1>7, <1>8, <1>9, StrayAfter
<1>12. TypeOK'
  <2>1. start' \in Ring \cup {NoRow} /\ end' \in Ring \cup {NoRow} /\ ongoing' \in BOOLEAN
    <3>1. sel = NoSelection \/ sel = selection
      BY DEF AfterScrollDown
    <3> QED BY <3>1, <1>2, <1>3, SelectionType
  <2>2. rows' \in [Ring -> {Null, "blank", "prompt"}]
    BY <1>4 DEF LinesDown, Contents
  <2> QED BY <2>1, <2>2, <1>2, <1>3, <1>7, <1>8, <1>11 DEF TypeOK
<1> QED BY <1>5, <1>10, <1>11, <1>12, SInvAfter

(* A step that leaves the rows where they are.                             *)
LEMMA StaysPut ==
  ASSUME SInv, rows' = rows, offset' = offset, NEW first, InUse(rows, offset, first),
         view' \in Ring, alt' \in BOOLEAN, mode' \in {"plain", "search", "urls"},
         original' \in Ring \cup {NoRow}, dead' \in BOOLEAN,
         start' \in Ring \cup {NoRow}, end' \in Ring \cup {NoRow}, ongoing' \in BOOLEAN,
         \/ Settles /\ (~stray => ViewIn(offset, first, view'))
         \/ MayStray,
         dead' \/ GoodSelection(offset, first, start', end')
  PROVE  SInv'
<1>1. offset' \in Ring /\ InUse(rows', offset', first)
  BY DEF SInv, TypeOK
<1>2. stray' \in BOOLEAN /\ (dead' \/ stray' \/ ViewIn(offset', first, view'))
  BY <1>1, StrayAfter
<1>3. TypeOK'
  BY <1>1, <1>2 DEF SInv, TypeOK
<1> QED BY <1>1, <1>2, <1>3, SInvAfter

(* No selection lies on no line.                                           *)
LEMMA NoneSelected ==
  ASSUME Select(NoSelection), NEW ofs, NEW first
  PROVE  /\ start' \in Ring \cup {NoRow} /\ end' \in Ring \cup {NoRow} /\ ongoing' \in BOOLEAN
         /\ GoodSelection(ofs, first, start', end')
BY DEF Select, NoSelection, GoodSelection, NoRow

(* Rows that change without being allocated or freed.                      *)
LEMMA WriteKeeps ==
  ASSUME SInv, Live, NEW r \in 0 .. R - 1, NEW line \in {"blank", "prompt"},
         rows' = [rows EXCEPT ![ScreenRow(offset, r)] = line],
         UNCHANGED <<offset, view, alt, selection, search, dead>>, Settles
  PROVE  SInv'
<1>1. PICK first : /\ InUse(rows, offset, first)
                   /\ stray \/ ViewIn(offset, first, view)
                   /\ GoodSelection(offset, first, start, end)
  BY Now
<1>2. /\ offset \in Ring /\ rows \in [Ring -> Contents] /\ view \in Ring
      /\ offset' = offset /\ view' = view /\ start' = start /\ end' = end
  BY DEF SInv, TypeOK, Contents, selection
<1>3. r \in AllLines /\ first \in R - N .. 0 /\ r >= first /\ ScreenRow(offset, r) \in Ring
  <2>1. r \in Int /\ offset \in Int
    BY <1>2 DEF Ring
  <2> QED BY <1>1, <2>1, Sizes, RowInRing DEF InUse, AllLines
<1>4. InUse(rows', offset', first)
  <2>1. ASSUME NEW s \in AllLines PROVE rows'[ScreenRow(offset, s)] # Null <=> s >= first
    <3>1. ScreenRow(offset, s) \in Ring
      BY <1>2, RowInRing DEF Ring, AllLines
    <3>2. CASE ScreenRow(offset, s) = ScreenRow(offset, r)
      <4>1. s = r
        BY <1>2, <1>3, <3>2, LineOfLine
      <4>2. rows'[ScreenRow(offset, s)] = line
        BY <1>2, <3>1, <3>2 DEF Contents
      <4> QED BY <4>1, <4>2, <1>3, ScreenAssumption
    <3>3. CASE ScreenRow(offset, s) # ScreenRow(offset, r)
      <4>1. rows'[ScreenRow(offset, s)] = rows[ScreenRow(offset, s)]
        BY <1>2, <3>1, <3>3 DEF Contents
      <4> QED BY <4>1, <1>1 DEF InUse
    <3> QED BY <3>2, <3>3
  <2> QED BY <2>1, <1>2, <1>3 DEF InUse
<1>5. stray' \in BOOLEAN /\ (dead' \/ stray' \/ ViewIn(offset', first, view'))
  BY <1>1, <1>2, <1>4, StrayAfter
<1>6. TypeOK'
  <2>1. rows' \in [Ring -> {Null, "blank", "prompt"}]
    BY <1>2, <1>3 DEF Contents
  <2>2. ongoing' = ongoing /\ alt' = alt /\ mode' = mode /\ original' = original /\ dead' = dead
    BY DEF selection, search
  <2> QED BY <2>1, <2>2, <1>2, <1>5 DEF SInv, TypeOK
<1> QED BY <1>1, <1>2, <1>4, <1>5, <1>6, SInvAfter

(* Erasing the scrollback keeps the invariant: a selection that touches it *)
(* is cancelled.                                                           *)
LEMMA EraseScrollbackKeeps ==
  ASSUME SInv, EraseScrollback
  PROVE  SInv'
<1>1. PICK first : /\ InUse(rows, offset, first)
                   /\ stray \/ ViewIn(offset, first, view)
                   /\ GoodSelection(offset, first, start, end)
  BY Now DEF EraseScrollback, OnNormal
<1>2. /\ offset \in Ring /\ rows \in [Ring -> Contents] /\ TypeOK
      /\ R \in Nat /\ N \in Nat /\ R < N /\ R > 0
  BY Sizes DEF SInv, TypeOK, Contents
<1> DEFINE last == N - R - 1
           from == AbsToSb(offset, start)
           to == AbsToSb(offset, end)
           touched == end >= 0 /\ (\/ from = 0
                                   \/ from <= last /\ to >= last
                                   \/ to <= last)
           sel == IF touched THEN NoSelection ELSE selection
<1>3. /\ Select(sel)
      /\ rows' = [p \in Ring |-> IF AbsToSb(offset, p) <= last THEN Null ELSE rows[p]]
      /\ view' = offset /\ offset' = offset /\ alt' = alt /\ mode' = mode
      /\ original' = original /\ dead' = dead /\ Settles
  BY DEF EraseScrollback, search
<1>4. InUse(rows', offset', 0)
  <2>1. 0 \in R - N .. 0
    BY <1>2
  <2>2. ASSUME NEW r \in AllLines PROVE rows'[ScreenRow(offset, r)] # Null <=> r >= 0
    <3>1. ScreenRow(offset, r) \in Ring /\ LineOf(offset, ScreenRow(offset, r)) = r /\ r \in Int
      <4>1. r \in Int /\ offset \in Int
        BY <1>2 DEF Ring, AllLines
      <4> QED BY <1>2, <4>1, RowInRing, LineOfLine
    <3>2. AbsToSb(offset, ScreenRow(offset, r)) = r + N - R
      BY <1>2, <3>1, LineIs
    <3>3. AbsToSb(offset, ScreenRow(offset, r)) <= last <=> r < 0
      BY <3>1, <3>2, <1>2
    <3>4. r >= 0 => rows[ScreenRow(offset, r)] # Null
      <4>1. first \in R - N .. 0
        BY <1>1 DEF InUse
      <4> QED BY <4>1, <3>1, <1>1, <1>2 DEF InUse
    <3> QED BY <3>1, <3>3, <3>4, <1>3
  <2> QED BY <2>1, <2>2, <1>3 DEF InUse
<1>5. GoodSelection(offset, 0, start', end')
  <2>1. CASE touched
    BY <2>1, <1>3, NoneSelected
  <2>2. CASE ~touched /\ start >= 0 /\ end >= 0
    <3>1. start \in Ring /\ end \in Ring
      BY <1>2, <2>2 DEF TypeOK, NoRow
    <3>2. from \in Int /\ to \in Int
      BY <1>2, <3>1, SbOf DEF Ring
    <3>3. from > last /\ to > last
      BY <3>2, <2>2, <1>2
    <3>4. LineOf(offset, start) >= 0 /\ LineOf(offset, end) >= 0
      BY <3>2, <3>3, <1>2 DEF LineOf
    <3>5. start' = start /\ end' = end
      BY <2>2, <1>3 DEF Select, selection
    <3> QED BY <3>4, <3>5 DEF GoodSelection
  <2>3. CASE ~touched /\ ~ (start >= 0 /\ end >= 0)
    <3>1. start' = start /\ end' = end
      BY <2>3, <1>3 DEF Select, selection
    <3> QED BY <3>1, <2>3 DEF GoodSelection
  <2> QED BY <2>1, <2>2, <2>3
<1>6. ViewIn(offset', 0, view')
  BY <1>2, <1>3, ScreenBegins DEF ViewIn
<1>7. stray' \in BOOLEAN /\ (dead' \/ stray' \/ ViewIn(offset', 0, view'))
  BY <1>2, <1>3, <1>4, <1>6, StrayAfter
<1>8. TypeOK'
  <2>1. start' \in Ring \cup {NoRow} /\ end' \in Ring \cup {NoRow} /\ ongoing' \in BOOLEAN
    <3>1. sel = NoSelection \/ sel = selection
      OBVIOUS
    <3> HIDE DEF sel
    <3> QED BY <3>1, <1>2, <1>3, SelectionType
  <2>2. rows' \in [Ring -> {Null, "blank", "prompt"}]
    BY <1>2, <1>3 DEF Contents
  <2> QED BY <2>1, <2>2, <1>2, <1>3, <1>7 DEF TypeOK
<1> QED BY <1>3, <1>4, <1>5, <1>7, <1>8, SInvAfter

(* A new grid: the screen, and no history.                                 *)
LEMMA FreshInUse ==
  InUse([p \in Ring |-> IF p < R THEN "blank" ELSE Null], 0, 0)
<1>1. R \in Nat /\ N \in Nat /\ R < N /\ R > 0
  BY Sizes
<1> DEFINE new == [p \in Ring |-> IF p < R THEN "blank" ELSE Null]
<1>2. ASSUME NEW r \in AllLines PROVE new[ScreenRow(0, r)] # Null <=> r >= 0
  <2>1. r \in Int /\ R - N <= r /\ r <= R - 1
    BY <1>1 DEF AllLines
  <2>2. CASE r >= 0
    <3>1. r \in Ring /\ 0 + r = r
      BY <1>1, <2>1, <2>2 DEF Ring
    <3>2. ScreenRow(0, r) = r
      BY <3>1, <2>1, MaskIs DEF ScreenRow
    <3> QED BY <3>1, <3>2, <2>1, <2>2, <1>1, ScreenAssumption
  <2>3. CASE r < 0
    <3>1. r \in -N .. -1 /\ 0 + r = r /\ r + N \in Ring /\ r + N >= R
      BY <1>1, <2>1, <2>3 DEF Ring
    <3>2. ScreenRow(0, r) = r + N
      BY <3>1, <2>1, MaskIs DEF ScreenRow
    <3> QED BY <3>1, <3>2, <2>1, <2>3, <1>1
  <2> QED BY <2>1, <2>2, <2>3
<1> QED BY <1>1, <1>2 DEF InUse

(* A reset keeps it.                                                       *)
LEMMA ResetKeeps ==
  ASSUME SInv, Reset
  PROVE  SInv'
<1>1. /\ alt' = FALSE /\ offset' = 0 /\ view' = 0
      /\ rows' = [p \in Ring |-> IF p < R THEN "blank" ELSE Null]
      /\ Select(NoSelection) /\ mode' = mode /\ original' = original /\ dead' = dead /\ Settles
  BY DEF Reset, search
<1>2. 0 \in Ring
  BY Sizes DEF Ring
<1>3. InUse(rows', offset', 0)
  BY <1>1, FreshInUse
<1>4. ViewIn(offset', 0, view')
  BY <1>1, <1>2, ScreenBegins DEF ViewIn
<1>5. stray' \in BOOLEAN /\ (dead' \/ stray' \/ ViewIn(offset', 0, view'))
  BY <1>1, <1>2, <1>3, <1>4, StrayAfter
<1>6. /\ start' \in Ring \cup {NoRow} /\ end' \in Ring \cup {NoRow} /\ ongoing' \in BOOLEAN
      /\ GoodSelection(offset', 0, start', end')
  BY <1>1, NoneSelected
<1>7. TypeOK'
  <2>1. rows' \in [Ring -> {Null, "blank", "prompt"}]
    BY <1>1
  <2>2. TypeOK
    BY DEF SInv
  <2> QED BY <2>1, <2>2, <1>1, <1>2, <1>5, <1>6 DEF TypeOK
<1> QED BY <1>3, <1>5, <1>6, <1>7, SInvAfter

(* Switching to the alternate screen or back keeps it.                     *)
LEMMA SwitchScreenKeeps ==
  ASSUME SInv, SwitchScreen
  PROVE  SInv'
<1>1. PICK first : /\ InUse(rows, offset, first)
                   /\ stray \/ ViewIn(offset, first, view)
  BY Now DEF SwitchScreen
<1>2. /\ alt' = ~alt /\ Select(NoSelection) /\ Settles
      /\ rows' = rows /\ offset' = offset /\ view' = view /\ mode' = mode
      /\ original' = original /\ dead' = dead
  BY DEF SwitchScreen, search
<1>3. TypeOK
  BY DEF SInv
<1>4. /\ start' \in Ring \cup {NoRow} /\ end' \in Ring \cup {NoRow} /\ ongoing' \in BOOLEAN
      /\ GoodSelection(offset, first, start', end')
  BY <1>2, NoneSelected
<1>5. /\ view' \in Ring /\ alt' \in BOOLEAN /\ mode' \in {"plain", "search", "urls"}
      /\ original' \in Ring \cup {NoRow} /\ dead' \in BOOLEAN
  BY <1>2, <1>3 DEF TypeOK
<1>6. Settles /\ (~stray => ViewIn(offset, first, view'))
  BY <1>1, <1>2
<1> QED BY <1>1, <1>2, <1>4, <1>5, <1>6, StaysPut

(* Every output of the application keeps it.                               *)
LEMMA OutputKeeps ==
  ASSUME SInv, Output
  PROVE  SInv'
<1>1. CASE \E top \in 0 .. R - 1 : \E bottom \in top + 1 .. R : \E n \in 1 .. bottom - top :
             Scroll(top, bottom, n) \/ ScrollReverse(top, bottom, n)
  BY <1>1, ScrollKeeps, ScrollReverseKeeps DEF IsRegion
<1>2. CASE EraseScrollback
  BY <1>2, EraseScrollbackKeeps
<1>3. CASE \E r \in 0 .. R - 1 : MarkPrompt(r) \/ EraseLine(r)
  <2>1. PICK r \in 0 .. R - 1 : MarkPrompt(r) \/ EraseLine(r)
    BY <1>3
  <2>2. CASE MarkPrompt(r)
    BY <2>2, WriteKeeps DEF MarkPrompt, OnNormal
  <2>3. CASE EraseLine(r)
    BY <2>3, WriteKeeps DEF EraseLine, OnNormal
  <2> QED BY <2>1, <2>2, <2>3
<1>4. CASE Reset
  BY <1>4, ResetKeeps
<1>5. CASE SwitchScreen
  BY <1>5, SwitchScreenKeeps
<1> QED BY <1>1, <1>2, <1>3, <1>4, <1>5 DEF Output

-----------------------------------------------------------------------------
(* The user scrolls and selects.                                           *)

(* cmd_scrollback_up() keeps a good view good, by any number of lines.     *)
LEMMA UpIs ==
  ASSUME TypeOK, NEW first, InUse(rows, offset, first), NEW k \in Nat
  PROVE  /\ UpFrom(k) \in Ring
         /\ ViewIn(offset, first, view) => ViewIn(offset, first, UpFrom(k))
<1> DEFINE l == LineOf(offset, view)
           oldest == SbToAbs(offset, OldestSb)
           m == Mask(view - oldest)
<1>1. /\ offset \in Ring /\ view \in Ring /\ first \in R - N .. 0 /\ first \in Int
      /\ first \in AllLines /\ view \in Int /\ N \in Nat /\ R \in Nat /\ R > 0
  BY Sizes DEF TypeOK, InUse, AllLines, Ring
<1>2. oldest = ScreenRow(offset, first) /\ oldest \in Ring
  <2>1. offset \in Int
    BY <1>1 DEF Ring
  <2> QED BY <1>1, <2>1, OldestIs, RowInRing
<1>3. LineOf(offset, oldest) = first
  BY <1>1, <1>2, LineOfLine
<1>4. l \in Int
  BY <1>1, LineIs
<1>5. CASE alt \/ mode = "urls"
  <2>1. UpFrom(k) = view
    BY <1>5 DEF UpFrom
  <2> QED BY <2>1, <1>1
<1>6. CASE ~ (alt \/ mode = "urls")
  <2>1. UpFrom(k) = Mask(view - Min2(k, m))
    BY <1>6 DEF UpFrom
  <2>2. m \in Nat
    <3>1. view - oldest \in Int
      BY <1>1, <1>2 DEF Ring
    <3> HIDE DEF oldest
    <3> QED BY <3>1, MaskIs DEF Ring
  <2>3. first <= l => m = l - first
    <3> HIDE DEF oldest
    <3> QED BY <1>1, <1>2, <1>3, Distance
  <2> DEFINE d == -Min2(k, m)
  <2>4. d \in Int /\ view - Min2(k, m) = view + d /\ (first <= l => l + d >= first /\ l + d <= l)
    <3> HIDE DEF m, l
    <3> QED BY <1>1, <1>4, <2>2, <2>3 DEF Min2
  <2>5. /\ Mask(view + d) \in Ring
        /\ l + d \in AllLines => LineOf(offset, Mask(view + d)) = l + d
    <3> HIDE DEF d
    <3> QED BY <1>1, <2>4, LineAhead
  <2>6. ViewIn(offset, first, view) => l + d \in AllLines
    <3> HIDE DEF d
    <3> QED BY <1>1, <1>4, <2>4 DEF ViewIn, AllLines
  <2> HIDE DEF d
  <2>7. ViewIn(offset, first, view) => ViewIn(offset, first, Mask(view + d))
    BY <1>1, <1>4, <2>4, <2>5, <2>6 DEF ViewIn
  <2> QED BY <2>1, <2>4, <2>5, <2>7
<1> QED BY <1>5, <1>6

(* cmd_scrollback_down() keeps a good view good, by any number of lines.   *)
LEMMA DownIs ==
  ASSUME TypeOK, NEW first, InUse(rows, offset, first), NEW k \in Nat
  PROVE  /\ DownFrom(k) \in Ring
         /\ ViewIn(offset, first, view) => ViewIn(offset, first, DownFrom(k))
<1> DEFINE l == LineOf(offset, view)
           m == Mask(offset - view)
<1>1. /\ offset \in Ring /\ view \in Ring /\ first \in R - N .. 0 /\ first \in Int
      /\ view \in Int /\ offset \in Int /\ N \in Nat /\ R \in Nat /\ R > 0
  BY Sizes DEF TypeOK, InUse, Ring
<1>2. l \in Int /\ LineOf(offset, offset) = 0
  BY <1>1, LineIs, ScreenBegins
<1>3. CASE alt \/ mode = "urls"
  <2>1. DownFrom(k) = view
    BY <1>3 DEF DownFrom
  <2> QED BY <2>1, <1>1
<1>4. CASE ~ (alt \/ mode = "urls")
  <2>1. DownFrom(k) = Mask(view + Min2(k, m))
    BY <1>4 DEF DownFrom
  <2>2. m \in Nat
    <3>1. offset - view \in Int
      BY <1>1
    <3> QED BY <3>1, MaskIs DEF Ring
  <2>3. l <= 0 => m = 0 - l
    BY <1>1, <1>2, Distance
  <2> DEFINE d == Min2(k, m)
  <2>4. d \in Int /\ (l <= 0 => l + d <= 0 /\ l + d >= l)
    <3> HIDE DEF m, l
    <3> QED BY <1>1, <1>2, <2>2, <2>3 DEF Min2
  <2>5. /\ Mask(view + d) \in Ring
        /\ l + d \in AllLines => LineOf(offset, Mask(view + d)) = l + d
    <3> HIDE DEF d
    <3> QED BY <1>1, <2>4, LineAhead
  <2>6. ViewIn(offset, first, view) => l + d \in AllLines
    <3> HIDE DEF d
    <3> QED BY <1>1, <1>2, <2>4 DEF ViewIn, AllLines
  <2> HIDE DEF d
  <2>7. ViewIn(offset, first, view) => ViewIn(offset, first, Mask(view + d))
    BY <1>1, <1>2, <2>4, <2>5, <2>6 DEF ViewIn
  <2> QED BY <2>1, <2>5, <2>7 DEF d
<1> QED BY <1>3, <1>4

(* A step that moves the view only.                                        *)
LEMMA ViewMoveKeeps ==
  ASSUME SInv, Live, NEW first, InUse(rows, offset, first),
         GoodSelection(offset, first, start, end),
         view' \in Ring, dead' \in BOOLEAN, dead' \/ stray \/ ViewIn(offset, first, view'),
         UNCHANGED <<rows, offset, alt, selection, search>>, Settles
  PROVE  SInv'
<1>1. /\ rows' = rows /\ offset' = offset /\ alt' = alt /\ mode' = mode /\ original' = original
      /\ start' = start /\ end' = end /\ ongoing' = ongoing
  BY DEF selection, search
<1>2. stray' \in BOOLEAN /\ (dead' \/ stray' \/ ViewIn(offset', first, view'))
  <2>1. offset' \in Ring /\ InUse(rows', offset', first)
    BY <1>1 DEF SInv, TypeOK
  <2>2. CASE dead'
    BY <2>2 DEF Settles
  <2>3. CASE ~dead'
    BY <2>1, <2>3, <1>1, StrayAfter
  <2> QED BY <2>2, <2>3
<1>3. TypeOK'
  BY <1>1, <1>2 DEF SInv, TypeOK
<1> QED BY <1>1, <1>2, <1>3, SInvAfter

(* The jump to the prompt above keeps the invariant.                       *)
LEMMA PromptPrevKeeps ==
  ASSUME SInv, PromptPrev
  PROVE  SInv'
<1>1. PICK first : /\ InUse(rows, offset, first)
                   /\ stray \/ ViewIn(offset, first, view)
                   /\ GoodSelection(offset, first, start, end)
  BY Now DEF PromptPrev, OnNormal
<1> DEFINE oldest == SbToAbs(offset, OldestSb)
           At(p) == Mask(p - oldest)
           above == {p \in Prompts : At(p) < At(view)}
           IsLast(p) == \A q \in above : At(q) <= At(p)
<1>2. /\ above # {} /\ view' = CHOOSE p \in above : IsLast(p)
      /\ UNCHANGED <<rows, offset, alt, selection, search, dead>> /\ Settles
  BY DEF PromptPrev
<1>3. /\ offset \in Ring /\ view \in Ring /\ first \in R - N .. 0 /\ first \in Int
      /\ first \in AllLines /\ N \in Nat /\ R \in Nat /\ R > 0 /\ N > 0 /\ TypeOK /\ Live
      /\ offset \in Int
  BY <1>1, Sizes DEF SInv, TypeOK, InUse, AllLines, Ring, PromptPrev, OnNormal
<1>4. oldest = ScreenRow(offset, first) /\ oldest \in Ring
  BY <1>1, <1>3, OldestIs, RowInRing
<1>5. LineOf(offset, oldest) = first
  BY <1>3, <1>4, LineOfLine
<1> HIDE DEF oldest
<1>6. \A p \in Ring : At(p) \in 0 .. N - 1
  <2> SUFFICES ASSUME NEW p \in Ring PROVE At(p) \in 0 .. N - 1
    OBVIOUS
  <2>1. p - oldest \in Int
    BY <1>4 DEF Ring
  <2> QED BY <2>1, MaskIs DEF Ring
<1>7. above \subseteq Ring
  BY DEF Prompts
<1>8. \E p \in above : IsLast(p)
  <2> DEFINE T == {At(p) : p \in above}
  <2>1. T \subseteq 0 .. N - 1 /\ T # {} /\ N - 1 \in Nat
    <3>1. \A p \in above : At(p) \in 0 .. N - 1
      BY <1>6, <1>7
    <3>2. N - 1 \in Nat
      BY <1>3
    <3> HIDE DEF above, At
    <3> QED BY <3>1, <3>2, <1>2
  <2>2. PICK x \in T : \A y \in T : y <= x
    <3> HIDE DEF T
    <3> QED BY <2>1, LargestOf
  <2>3. PICK p \in above : x = At(p)
    BY <2>2
  <2>4. IsLast(p)
    BY <2>2, <2>3
  <2> QED BY <2>4
<1>9. view' \in above
  <2> HIDE DEF IsLast, above
  <2> QED BY <1>2, <1>8
<1>10. view' \in Ring /\ rows[view'] = "prompt" /\ At(view') < At(view)
  BY <1>7, <1>9 DEF Prompts
<1>11. ViewIn(offset, first, view) => ViewIn(offset, first, view')
  <2> SUFFICES ASSUME ViewIn(offset, first, view) PROVE ViewIn(offset, first, view')
    OBVIOUS
  <2>1. first <= LineOf(offset, view')
    BY <1>1, <1>3, <1>10, RowInUse, ScreenAssumption
  <2>2. At(view') = LineOf(offset, view') - first
    BY <1>3, <1>4, <1>5, <1>10, <2>1, Distance
  <2>3. At(view) = LineOf(offset, view) - first
    BY <1>3, <1>4, <1>5, Distance DEF ViewIn
  <2>4. LineOf(offset, view') \in Int /\ LineOf(offset, view) \in Int
    BY <1>3, <1>10, LineIs
  <2> QED BY <2>1, <2>2, <2>3, <2>4, <1>3, <1>10 DEF ViewIn
<1>12. dead' \in BOOLEAN
  BY <1>2, <1>3 DEF TypeOK
<1> HIDE DEF above, IsLast
<1> QED BY <1>1, <1>2, <1>3, <1>10, <1>11, <1>12, ViewMoveKeeps

(* The jump to the prompt below keeps it, unless its loop runs into a row  *)
(* that is not allocated.                                                  *)
LEMMA PromptNextKeeps ==
  ASSUME SInv, PromptNext
  PROVE  SInv'
<1>1. PICK first : /\ InUse(rows, offset, first)
                   /\ stray \/ ViewIn(offset, first, view)
                   /\ GoodSelection(offset, first, start, end)
  BY Now DEF PromptNext, OnNormal
<1> DEFINE oldest == SbToAbs(offset, OldestSb)
           d == CHOOSE x \in NextStop : \A y \in NextStop : x <= y
           p == Mask(view + d)
           a == Mask(offset - oldest)
           b == Mask(p - oldest)
<1>2. /\ IF NextStop = {} \/ rows[p] = Null
           THEN dead' = TRUE /\ UNCHANGED view
           ELSE /\ view' = IF rows[p] = "prompt" THEN Mask(oldest + Min2(a, b)) ELSE view
                /\ UNCHANGED dead
      /\ UNCHANGED <<rows, offset, alt, selection, search>> /\ Settles
  BY DEF PromptNext
<1>3. /\ offset \in Ring /\ view \in Ring /\ first \in R - N .. 0 /\ first \in Int
      /\ first \in AllLines /\ N \in Nat /\ R \in Nat /\ R > 0 /\ N > 0 /\ TypeOK /\ Live
      /\ offset \in Int /\ view \in Int
  BY <1>1, Sizes DEF SInv, TypeOK, InUse, AllLines, Ring, PromptNext, OnNormal
<1>4. oldest = ScreenRow(offset, first) /\ oldest \in Ring
  BY <1>1, <1>3, OldestIs, RowInRing
<1>5. LineOf(offset, oldest) = first
  BY <1>3, <1>4, LineOfLine
<1> HIDE DEF oldest
<1>6. dead' \in BOOLEAN
  BY <1>2, <1>3 DEF TypeOK
<1>7. CASE NextStop = {} \/ rows[p] = Null
  <2>1. dead' /\ view' = view
    BY <1>2, <1>7
  <2> HIDE DEF p, d
  <2> QED BY <2>1, <1>1, <1>2, <1>3, ViewMoveKeeps
<1>8. CASE ~ (NextStop = {} \/ rows[p] = Null) /\ rows[p] # "prompt"
  <2>1. view' = view
    BY <1>2, <1>8
  <2> HIDE DEF p, d
  <2> QED BY <2>1, <1>1, <1>2, <1>3, <1>6, ViewMoveKeeps
<1>9. CASE ~ (NextStop = {} \/ rows[p] = Null) /\ rows[p] = "prompt"
  <2>1. view' = Mask(oldest + Min2(a, b))
    BY <1>2, <1>9
  <2>2. d \in Int
    <3>1. NextStop \subseteq Nat
      BY DEF NextStop
    <3> DEFINE IsMin(x) == \A y \in NextStop : x <= y
    <3>2. \E x \in NextStop : IsMin(x)
      BY <3>1, <1>9, SmallestOf
    <3>3. d = CHOOSE x \in NextStop : IsMin(x)
      OBVIOUS
    <3> HIDE DEF IsMin, d
    <3>4. d \in NextStop
      BY <3>2, <3>3
    <3> QED BY <3>1, <3>4
  <2>3. p \in Ring
    <3>1. view + d \in Int
      BY <2>2, <1>3
    <3> QED BY <3>1, MaskIs
  <2>4. a = 0 - first
    <3>1. LineOf(offset, offset) = 0
      BY <1>3, ScreenBegins
    <3> QED BY <3>1, <1>3, <1>4, <1>5, Distance
  <2> HIDE DEF p
  <2>5. b \in Nat
    <3>1. p - oldest \in Int
      BY <2>3, <1>4 DEF Ring
    <3> QED BY <3>1, MaskIs DEF Ring
  <2> DEFINE c == Min2(a, b)
  <2>6. c \in Int /\ c >= 0 /\ c <= 0 - first
    <3> HIDE DEF a, b
    <3> QED BY <1>3, <2>4, <2>5 DEF Min2
  <2>7. first + c \in AllLines
    <3> HIDE DEF c
    <3> QED BY <1>3, <2>6 DEF AllLines
  <2> HIDE DEF c
  <2>8. Mask(oldest + c) \in Ring /\ LineOf(offset, Mask(oldest + c)) = first + c
    <3>1. LineOf(offset, oldest) + c \in AllLines
      BY <1>5, <2>7
    <3>2. LineOf(offset, Mask(oldest + c)) = LineOf(offset, oldest) + c /\ Mask(oldest + c) \in Ring
      BY <3>1, <1>3, <1>4, <2>6, LineAhead
    <3> QED BY <3>2, <1>5
  <2>9. view' = Mask(oldest + c)
    BY <2>1 DEF c
  <2>10. view' \in Ring /\ ViewIn(offset, first, view')
    BY <2>6, <2>8, <2>9, <1>3 DEF ViewIn
  <2> HIDE DEF a, b
  <2> QED BY <2>10, <1>1, <1>2, <1>3, <1>6, ViewMoveKeeps
<1> QED BY <1>7, <1>8, <1>9

(* A key that resets the view and cancels the selection keeps it.          *)
LEMMA KeyInputKeeps ==
  ASSUME SInv, KeyInput
  PROVE  SInv'
<1>1. PICK first : /\ InUse(rows, offset, first)
                   /\ stray \/ ViewIn(offset, first, view)
  BY Now DEF KeyInput
<1>2. /\ view' = IF alt THEN view ELSE offset
      /\ Select(NoSelection) /\ Settles
      /\ rows' = rows /\ offset' = offset /\ alt' = alt /\ mode' = mode
      /\ original' = original /\ dead' = dead
  BY DEF KeyInput, search
<1>3. TypeOK /\ first \in R - N .. 0
  BY <1>1 DEF SInv, InUse
<1>4. /\ start' \in Ring \cup {NoRow} /\ end' \in Ring \cup {NoRow} /\ ongoing' \in BOOLEAN
      /\ GoodSelection(offset, first, start', end')
  BY <1>2, NoneSelected
<1>5. /\ view' \in Ring /\ alt' \in BOOLEAN /\ mode' \in {"plain", "search", "urls"}
      /\ original' \in Ring \cup {NoRow} /\ dead' \in BOOLEAN
  BY <1>2, <1>3 DEF TypeOK
<1>6. Settles /\ (~stray => ViewIn(offset, first, view'))
  <2>1. ViewIn(offset, first, offset)
    BY <1>3, Sizes, ScreenBegins DEF TypeOK, ViewIn
  <2> QED BY <2>1, <1>1, <1>2
<1> QED BY <1>1, <1>2, <1>4, <1>5, <1>6, StaysPut

(* Every way to move the view keeps the invariant.                         *)
LEMMA ViewMovesKeep ==
  ASSUME SInv, ViewMoves
  PROVE  SInv'
<1>1. ASSUME NEW k \in {1, R, N}, ScrollbackUp(k) \/ ScrollbackDown(k) PROVE SInv'
  <2>1. PICK first : /\ InUse(rows, offset, first)
                     /\ stray \/ ViewIn(offset, first, view)
                     /\ GoodSelection(offset, first, start, end)
    BY <1>1, Now DEF ScrollbackUp, ScrollbackDown
  <2>2. /\ k \in Nat /\ TypeOK /\ Live
        /\ view' = UpFrom(k) \/ view' = DownFrom(k)
        /\ UNCHANGED <<rows, offset, alt, selection, search, dead>> /\ Settles
    BY <1>1, Sizes DEF SInv, ScrollbackUp, ScrollbackDown
  <2>3. view' \in Ring /\ (ViewIn(offset, first, view) => ViewIn(offset, first, view'))
    BY <2>1, <2>2, UpIs, DownIs
  <2>4. dead' \in BOOLEAN
    BY <2>2 DEF TypeOK
  <2> QED BY <2>1, <2>2, <2>3, <2>4, ViewMoveKeeps
<1> QED BY <1>1, PromptPrevKeeps, PromptNextKeeps, KeyInputKeeps DEF ViewMoves

(* A selection that met no row that is not allocated lies in the rows in   *)
(* use.                                                                    *)
LEMMA SelectToIs ==
  ASSUME TypeOK, NEW first, InUse(rows, offset, first),
         NEW from \in Ring, NEW to \in Ring, SelectTo(from, to)
  PROVE  /\ start' \in Ring \cup {NoRow} /\ end' \in Ring \cup {NoRow} /\ ongoing' \in BOOLEAN
         /\ dead' \in BOOLEAN
         /\ dead' \/ GoodSelection(offset, first, start', end')
<1>1. start' = from /\ end' = to /\ ongoing' = TRUE
  BY DEF SelectTo, Select
<1>2. dead' <=> \E p \in WalkedRows(offset, from, to) : rows[p] = Null
  BY DEF SelectTo, WalkedRows
<1>3. offset \in Ring
  BY DEF TypeOK
<1>4. dead' \in BOOLEAN
  BY DEF SelectTo
<1>5. ~dead' => GoodSelection(offset, first, from, to)
  BY <1>2, <1>3, WalkedIs DEF GoodSelection
<1> QED BY <1>1, <1>4, <1>5

(* A row that is shown is a row of the ring.                               *)
LEMMA RowShown ==
  ASSUME TypeOK, NEW r \in Int
  PROVE  Mask(view + r) \in Ring
<1>1. view + r \in Int
  BY DEF TypeOK, Ring
<1> QED BY <1>1, MaskIs

(* A step that selects, and moves nothing else but the view.               *)
LEMMA SelectKeeps ==
  ASSUME SInv, Live, NEW first, InUse(rows, offset, first),
         start' \in Ring \cup {NoRow}, end' \in Ring \cup {NoRow}, ongoing' \in BOOLEAN,
         dead' \in BOOLEAN, dead' \/ GoodSelection(offset, first, start', end'),
         view' \in Ring, stray \/ ViewIn(offset, first, view'),
         UNCHANGED <<rows, offset, alt, search>>, Settles
  PROVE  SInv'
<1>1. /\ rows' = rows /\ offset' = offset /\ alt' = alt /\ mode' = mode /\ original' = original
  BY DEF search
<1>2. /\ alt' \in BOOLEAN /\ mode' \in {"plain", "search", "urls"}
      /\ original' \in Ring \cup {NoRow}
  BY <1>1 DEF SInv, TypeOK
<1> QED BY <1>1, <1>2, StaysPut

(* Every way to select keeps the invariant.                                *)
LEMMA SelectingKeeps ==
  ASSUME SInv, Selecting
  PROVE  SInv'
<1>1. Live
  BY DEF Selecting, SelectStart, SelectUpdate, SelectExtend, AutoScroll, SelectFinalize, OnNormal
<1>2. PICK first : /\ InUse(rows, offset, first)
                   /\ stray \/ ViewIn(offset, first, view)
                   /\ GoodSelection(offset, first, start, end)
  BY <1>1, Now
<1>3. TypeOK /\ view \in Ring
  BY DEF SInv, TypeOK
<1>4. ASSUME NEW r \in 0 .. R - 1, NEW kind \in {"char", "word"}, SelectStart(r, kind)
      PROVE  SInv'
  <2> DEFINE p == Mask(view + r)
  <2>1. p \in Ring
    BY <1>3, RowShown
  <2>2. view' = view /\ UNCHANGED <<rows, offset, alt, search>> /\ Settles
    BY <1>4 DEF SelectStart
  <2>3. CASE kind = "char"
    <3>1. start' = p /\ end' = NoRow /\ ongoing' = TRUE /\ dead' = dead
      BY <1>4, <2>3 DEF SelectStart, Select
    <3>2. GoodSelection(offset, first, start', end')
      BY <3>1 DEF GoodSelection, NoRow
    <3>3. dead' \in BOOLEAN
      BY <1>3, <3>1 DEF TypeOK
    <3> HIDE DEF p
    <3> QED BY <1>1, <1>2, <1>3, <2>1, <2>2, <3>1, <3>2, <3>3, SelectKeeps
  <2>4. CASE kind # "char"
    <3>1. SelectTo(p, p)
      BY <1>4, <2>4 DEF SelectStart
    <3> HIDE DEF p
    <3> QED BY <1>1, <1>2, <1>3, <2>1, <2>2, <3>1, SelectToIs, SelectKeeps
  <2> QED BY <2>3, <2>4
<1>5. ASSUME NEW r \in 0 .. R - 1, SelectUpdate(r) PROVE SInv'
  <2> DEFINE p == Mask(view + r)
  <2>1. p \in Ring /\ start \in Ring
    BY <1>3, <1>5, RowShown DEF SelectUpdate, TypeOK, NoRow
  <2>2. view' = view /\ UNCHANGED <<rows, offset, alt, search>> /\ Settles /\ SelectTo(start, p)
    BY <1>5 DEF SelectUpdate
  <2> HIDE DEF p
  <2> QED BY <1>1, <1>2, <1>3, <2>1, <2>2, SelectToIs, SelectKeeps
<1>6. ASSUME NEW r \in 0 .. R - 1, SelectExtend(r) PROVE SInv'
  <2> DEFINE p == Mask(view + r)
  <2>1. p \in Ring /\ start \in Ring /\ end \in Ring
    BY <1>3, <1>6, RowShown DEF SelectExtend, TypeOK, NoRow
  <2>2. view' = view /\ UNCHANGED <<rows, offset, alt, search>> /\ Settles
    BY <1>6 DEF SelectExtend
  <2>3. PICK fixed \in {start, end} : SelectTo(fixed, p)
    BY <1>6 DEF SelectExtend
  <2> HIDE DEF p
  <2> QED BY <1>1, <1>2, <1>3, <2>1, <2>2, <2>3, SelectToIs, SelectKeeps
<1>7. ASSUME NEW up \in BOOLEAN, NEW k \in 1 .. 2, AutoScroll(up, k) PROVE SInv'
  <2> DEFINE to == IF up THEN UpFrom(k) ELSE DownFrom(k)
             p == Mask(to + (IF up THEN 0 ELSE R - 1))
  <2>1. /\ view' = to /\ SelectTo(start, p)
        /\ UNCHANGED <<rows, offset, alt, search>> /\ Settles
    BY <1>7 DEF AutoScroll
  <2>2. k \in Nat
    OBVIOUS
  <2>3. to \in Ring /\ (ViewIn(offset, first, view) => ViewIn(offset, first, to))
    BY <1>2, <1>3, <2>2, UpIs, DownIs
  <2>4. p \in Ring
    <3>1. to + (IF up THEN 0 ELSE R - 1) \in Int
      <4> HIDE DEF to
      <4> QED BY <2>3, Sizes DEF Ring
    <3> HIDE DEF to
    <3> QED BY <3>1, MaskIs
  <2>5. start \in Ring
    BY <1>3, <1>7 DEF AutoScroll, TypeOK, NoRow
  <2>6. view' \in Ring /\ (stray \/ ViewIn(offset, first, view'))
    BY <1>2, <2>1, <2>3
  <2> HIDE DEF p, to
  <2>7. /\ start' \in Ring \cup {NoRow} /\ end' \in Ring \cup {NoRow} /\ ongoing' \in BOOLEAN
        /\ dead' \in BOOLEAN
        /\ dead' \/ GoodSelection(offset, first, start', end')
    BY <1>2, <1>3, <2>1, <2>4, <2>5, SelectToIs
  <2> QED BY <1>1, <1>2, <2>1, <2>6, <2>7, SelectKeeps
<1>8. CASE SelectFinalize
  <2>1. /\ view' = view /\ start' = start /\ end' = end /\ dead' = dead /\ ongoing' = FALSE
        /\ UNCHANGED <<rows, offset, alt, search>> /\ Settles
    BY <1>8 DEF SelectFinalize
  <2>2. /\ start' \in Ring \cup {NoRow} /\ end' \in Ring \cup {NoRow} /\ ongoing' \in BOOLEAN
        /\ dead' \in BOOLEAN
    BY <1>3, <2>1 DEF TypeOK
  <2> QED BY <1>1, <1>2, <1>3, <2>1, <2>2, SelectKeeps
<1> QED BY <1>4, <1>5, <1>6, <1>7, <1>8 DEF Selecting

-----------------------------------------------------------------------------
(* Search and URL mode.                                                    *)

(* search_update_selection() keeps a good view good.                       *)
LEMMA MatchIs ==
  ASSUME TypeOK, NEW first, InUse(rows, offset, first), NEW p \in Ring
  PROVE  /\ ViewOnMatch(p) \in Ring
         /\ ViewIn(offset, first, view) => ViewIn(offset, first, ViewOnMatch(p))
<1> DEFINE last == Mask(view + R - 1)
           shown == IF last >= view THEN p >= view /\ p <= last
                                    ELSE p >= view \/ p <= last
           sb == Min2(Max2(AbsToSb(offset, p) - (R \div 2), 0), N - R)
           IsTop(s) == /\ rows[SbToAbs(offset, s)] # Null
                       /\ \A t \in sb .. s - 1 : rows[SbToAbs(offset, t)] = Null
           top == CHOOSE s \in sb .. N - 1 : IsTop(s)
<1>1. /\ offset \in Ring /\ view \in Ring /\ first \in R - N .. 0 /\ first \in Int
      /\ N \in Nat /\ R \in Nat /\ R > 0 /\ R < N
  BY Sizes DEF TypeOK, InUse
<1>2. ViewOnMatch(p) = IF shown THEN view ELSE SbToAbs(offset, top)
  BY DEF ViewOnMatch
<1>3. sb \in 0 .. N - R /\ sb \in Int
  <2>1. AbsToSb(offset, p) - (R \div 2) \in Int
    BY <1>1, SbOf DEF Ring
  <2> QED BY <2>1, <1>1 DEF Min2, Max2
<1> HIDE DEF sb, shown
<1> DEFINE old == first + N - R
           best == IF sb >= old THEN sb ELSE old
<1>4. best \in sb .. N - R /\ best \in Int /\ old \in Int /\ best >= old
  BY <1>1, <1>3
<1>5. ASSUME NEW s \in 0 .. N - 1 PROVE rows[SbToAbs(offset, s)] # Null <=> s >= old
  <2>1. s + R - N \in AllLines /\ s \in Ring
    BY <1>1 DEF AllLines, Ring
  <2>2. SbToAbs(offset, s) = ScreenRow(offset, s + R - N)
    BY <1>1, <2>1, RowOfSb
  <2>3. rows[SbToAbs(offset, s)] # Null <=> s + R - N >= first
    BY <2>1, <2>2 DEF InUse
  <2>4. s >= old <=> s + R - N >= first
    BY <1>1
  <2> QED BY <2>3, <2>4
<1>6. IsTop(best) /\ best \in sb .. N - 1
  <2>1. best \in 0 .. N - 1 /\ best \in sb .. N - 1
    BY <1>1, <1>3, <1>4
  <2>2. \A t \in sb .. best - 1 : t \in 0 .. N - 1 /\ ~ (t >= old)
    BY <1>1, <1>3, <1>4
  <2> HIDE DEF best, old
  <2> QED BY <2>1, <2>2, <1>4, <1>5
<1>7. ASSUME NEW s \in sb .. N - 1, IsTop(s) PROVE s <= best
  <2>1. ~ (best \in sb .. s - 1)
    BY <1>6, <1>7
  <2> HIDE DEF best
  <2> QED BY <2>1, <1>3, <1>4
<1>8. top \in sb .. N - 1 /\ IsTop(top)
  <2> HIDE DEF IsTop, best
  <2> QED BY <1>6
<1> HIDE DEF top, best
<1>9. top \in Ring /\ top >= old /\ top <= N - R /\ top \in Int
  <2>1. top \in 0 .. N - 1 /\ top \in Int
    BY <1>1, <1>3, <1>8
  <2>2. top >= old
    BY <2>1, <1>5, <1>8
  <2>3. top <= best
    BY <1>7, <1>8
  <2> QED BY <2>1, <2>2, <2>3, <1>4, <1>3, <1>1 DEF Ring
<1>10. SbToAbs(offset, top) \in Ring /\ ViewIn(offset, first, SbToAbs(offset, top))
  <2>1. top + R - N \in AllLines
    BY <1>1, <1>9 DEF AllLines, Ring
  <2>2. SbToAbs(offset, top) = ScreenRow(offset, top + R - N) /\ SbToAbs(offset, top) \in Ring
    BY <1>1, <1>9, RowOfSb
  <2>3. LineOf(offset, SbToAbs(offset, top)) = top + R - N
    BY <1>1, <2>1, <2>2, LineOfLine
  <2> QED BY <1>1, <1>9, <2>2, <2>3 DEF ViewIn
<1> QED BY <1>1, <1>2, <1>10

(* ensure_view_is_allocated() ends, at a row of the ring.                  *)
LEMMA AllocatedIs ==
  ASSUME TypeOK, NEW first, InUse(rows, offset, first), NEW v \in Ring
  PROVE  Allocated(v) \in Ring
<1> DEFINE IsEnd(d) == rows[Mask(v + d)] # Null
           FirstAhead(d) == IsEnd(d) /\ \A e \in 0 .. d - 1 : ~IsEnd(e)
           ahead == CHOOSE d \in Ring : FirstAhead(d)
           IsBack(d) == rows[Mask(v - d + R - 1)] # Null
           FirstBack(d) == IsBack(d) /\ \A e \in 0 .. d - 1 : ~IsBack(e)
           back == CHOOSE d \in Ring : FirstBack(d)
<1>1. /\ offset \in Ring /\ v \in Int /\ v \in 0 .. N - 1 /\ offset \in 0 .. N - 1
      /\ N \in Nat /\ R \in Nat /\ R > 0 /\ R < N /\ offset \in Int
  BY Sizes DEF TypeOK, Ring
<1>2. rows[offset] # Null
  <2>1. 0 \in AllLines /\ 0 >= first
    BY <1>1 DEF AllLines, InUse
  <2> QED BY <1>1, <2>1, ScreenBegins DEF InUse
<1>3. ASSUME NEW a \in Int PROVE \E d \in Ring : Mask(a + d) = offset /\ d \in Nat
  <2> DEFINE d == Mask(offset - a)
             b == offset - a
  <2>1. b \in Int /\ d \in Ring /\ d \in Nat
    <3>1. b \in Int
      BY <1>1
    <3>2. Mask(b) \in Ring
      <4> HIDE DEF b
      <4> QED BY <3>1, MaskIs
    <3> QED BY <3>1, <3>2 DEF Ring
  <2>2. Mask(d + a) = Mask(b + a)
    <3> HIDE DEF b
    <3> QED BY <2>1, MaskPlus DEF b
  <2>3. b + a = offset /\ d + a = a + d
    <3> HIDE DEF d
    <3> QED BY <1>1, <2>1
  <2>4. Mask(a + d) = offset
    <3>1. Mask(offset) = offset
      BY <1>1, MaskIs
    <3> HIDE DEF d, b
    <3> QED BY <2>2, <2>3, <3>1
  <2> QED BY <2>1, <2>4
<1>4. ASSUME NEW S, S \subseteq Ring, S # {}
      PROVE  \E x \in S : \A e \in 0 .. x - 1 : e \notin S
  <2>1. S \subseteq Nat
    BY <1>4 DEF Ring
  <2>2. PICK x \in S : \A y \in S : x <= y
    BY <1>4, <2>1, SmallestOf
  <2> QED BY <2>1, <2>2
<1>5. \E d \in Ring : FirstAhead(d)
  <2> DEFINE S == {d \in Ring : IsEnd(d)}
  <2>1. S # {}
    BY <1>1, <1>2, <1>3
  <2>2. PICK x \in S : \A e \in 0 .. x - 1 : e \notin S
    <3> HIDE DEF S
    <3> QED BY <2>1, <1>4 DEF S
  <2>3. x \in Ring /\ \A e \in 0 .. x - 1 : e \in Ring
    BY <1>1 DEF Ring
  <2> QED BY <2>2, <2>3
<1>6. \E d \in Ring : FirstBack(d)
  <2> DEFINE S == {d \in Ring : IsBack(d)}
  <2>1. S # {}
    <3> DEFINE a == v + R - 1
    <3>1. a \in Int
      BY <1>1
    <3> DEFINE d == Mask(a - offset)
    <3>2. a - offset \in Int
      BY <1>1
    <3>3. d \in Ring /\ d \in Int
      BY <3>2, MaskIs DEF Ring
    <3>4. v - d + R - 1 = a - d
      <4> HIDE DEF d
      <4> QED BY <1>1, <3>3
    <3>5. Mask(a - d) = offset
      <4> DEFINE b == a - offset
                 q == b \div N
      <4>1. b \in Int
        BY <1>1
      <4>2. q \in Int /\ b = N * q + d
        <5> HIDE DEF a
        <5>1. b = N * (b \div N) + (b % N) /\ b \div N \in Int
          <6> HIDE DEF b
          <6> QED BY <4>1, RemainderOf, Sizes
        <5> QED BY <5>1 DEF Mask
      <4>3. a - d = N * q + offset
        <5> HIDE DEF q, d
        <5> QED BY <1>1, <3>1, <3>3, <4>2
      <4>4. (a - d) % N = offset
        <5> HIDE DEF q, a, d, b
        <5>1. a - d \in Int
          BY <3>1, <3>3
        <5> QED BY <1>1, <4>2, <4>3, <5>1, RemainderIs, Sizes
      <4> QED BY <4>4 DEF Mask
    <3>6. IsBack(d)
      BY <1>2, <3>4, <3>5
    <3> QED BY <3>3, <3>6
  <2>2. PICK x \in S : \A e \in 0 .. x - 1 : e \notin S
    <3> HIDE DEF S
    <3> QED BY <2>1, <1>4 DEF S
  <2>3. x \in Ring /\ \A e \in 0 .. x - 1 : e \in Ring
    BY <1>1 DEF Ring
  <2> QED BY <2>2, <2>3
<1>7. ahead \in Ring /\ back \in Ring
  <2> HIDE DEF FirstAhead, FirstBack
  <2> QED BY <1>5, <1>6
<1>8. Allocated(v) = IF rows[v] = Null THEN Mask(v + ahead) ELSE Mask(v - back)
  BY DEF Allocated
<1> HIDE DEF ahead, back
<1>9. Mask(v + ahead) \in Ring /\ Mask(v - back) \in Ring
  <2>1. v + ahead \in Int /\ v - back \in Int
    BY <1>1, <1>7 DEF Ring
  <2> QED BY <2>1, MaskIs
<1> QED BY <1>8, <1>9

(* Search and URL mode keep the invariant.                                 *)
LEMMA ModesKeep ==
  ASSUME SInv, Modes
  PROVE  SInv'
<1>1. Live
  BY DEF Modes, SearchBegin, SearchFind, SearchCancel, SearchCommit, UrlsBegin, UrlsEnd,
         MousePress, OnNormal
<1>2. PICK first : /\ InUse(rows, offset, first)
                   /\ stray \/ ViewIn(offset, first, view)
                   /\ GoodSelection(offset, first, start, end)
  BY <1>1, Now
<1>3. /\ TypeOK /\ view \in Ring /\ offset \in Ring /\ alt \in BOOLEAN /\ dead \in BOOLEAN
      /\ mode \in {"plain", "search", "urls"} /\ original \in Ring \cup {NoRow}
  BY DEF SInv, TypeOK
<1>4. ASSUME rows' = rows, offset' = offset, view' = view, alt' = alt,
             mode' \in {"plain", "search", "urls"}, original' \in Ring \cup {NoRow}, dead' = dead,
             start' \in Ring \cup {NoRow}, end' \in Ring \cup {NoRow}, ongoing' \in BOOLEAN,
             GoodSelection(offset, first, start', end'), Settles
      PROVE  SInv'
  <2>1. view' \in Ring /\ alt' \in BOOLEAN /\ dead' \in BOOLEAN
    BY <1>3, <1>4
  <2>2. Settles /\ (~stray => ViewIn(offset, first, view'))
    BY <1>2, <1>4
  <2> QED BY <1>2, <1>4, <2>1, <2>2, StaysPut
<1>6. CASE SearchBegin \/ MousePress
  <2>1. /\ rows' = rows /\ offset' = offset /\ view' = view /\ alt' = alt /\ dead' = dead
        /\ mode' \in {"plain", "search", "urls"} /\ original' \in {NoRow, view}
        /\ Select(NoSelection) /\ Settles
    BY <1>6 DEF SearchBegin, MousePress
  <2>2. original' \in Ring \cup {NoRow}
    BY <1>3, <2>1
  <2>3. /\ start' \in Ring \cup {NoRow} /\ end' \in Ring \cup {NoRow} /\ ongoing' \in BOOLEAN
        /\ GoodSelection(offset, first, start', end')
    BY <2>1, NoneSelected
  <2> QED BY <1>4, <2>1, <2>2, <2>3
<1>7. CASE SearchCommit \/ UrlsBegin \/ UrlsEnd
  <2>1. /\ rows' = rows /\ offset' = offset /\ view' = view /\ alt' = alt /\ dead' = dead
        /\ mode' \in {"plain", "search", "urls"} /\ original' \in {NoRow, original}
        /\ start' = start /\ end' = end /\ Settles
    BY <1>7 DEF SearchCommit, UrlsBegin, UrlsEnd, selection
  <2>2. ongoing' = FALSE \/ ongoing' = ongoing
    BY <1>7 DEF SearchCommit, UrlsBegin, UrlsEnd, selection
  <2>3. original' \in Ring \cup {NoRow}
    BY <1>3, <2>1
  <2>4. start' \in Ring \cup {NoRow} /\ end' \in Ring \cup {NoRow} /\ ongoing' \in BOOLEAN
    BY <1>3, <2>1, <2>2 DEF TypeOK
  <2> QED BY <1>2, <1>4, <2>1, <2>3, <2>4
<1>8. ASSUME NEW p \in Ring, SearchFind(p) PROVE SInv'
  <2>1. /\ view' = ViewOnMatch(p) /\ SelectTo(p, p)
        /\ UNCHANGED <<rows, offset, alt, search>> /\ Settles
    BY <1>8 DEF SearchFind
  <2>2. view' \in Ring /\ (stray \/ ViewIn(offset, first, view'))
    BY <1>2, <1>3, <2>1, MatchIs
  <2>3. /\ start' \in Ring \cup {NoRow} /\ end' \in Ring \cup {NoRow} /\ ongoing' \in BOOLEAN
        /\ dead' \in BOOLEAN
        /\ dead' \/ GoodSelection(offset, first, start', end')
    BY <1>2, <1>3, <2>1, SelectToIs
  <2> QED BY <1>1, <1>2, <2>1, <2>2, <2>3, SelectKeeps
<1>9. CASE SearchCancel
  <2>1. /\ mode' = "plain" /\ original' = NoRow
        /\ view' = CASE alt -> view
                     [] ~alt /\ original = NoRow -> offset
                     [] OTHER -> Allocated(original)
        /\ dead' = (alt /\ original >= AltRows)
        /\ Select(NoSelection) /\ MayStray
        /\ rows' = rows /\ offset' = offset /\ alt' = alt
    BY <1>9 DEF SearchCancel
  <2>2. view' \in Ring
    <3>1. CASE alt
      BY <3>1, <2>1, <1>3
    <3>2. CASE ~alt /\ original = NoRow
      BY <3>2, <2>1, <1>3
    <3>3. CASE ~alt /\ original # NoRow
      <4>1. original \in Ring
        BY <3>3, <1>3
      <4>2. Allocated(original) \in Ring
        BY <4>1, <1>2, <1>3, AllocatedIs
      <4>3. view' = Allocated(original)
        BY <3>3, <2>1
      <4> QED BY <4>2, <4>3
    <3> QED BY <3>1, <3>2, <3>3
  <2>3. /\ start' \in Ring \cup {NoRow} /\ end' \in Ring \cup {NoRow} /\ ongoing' \in BOOLEAN
        /\ GoodSelection(offset, first, start', end')
    BY <2>1, NoneSelected
  <2>4. /\ alt' \in BOOLEAN /\ mode' \in {"plain", "search", "urls"}
        /\ original' \in Ring \cup {NoRow} /\ dead' \in BOOLEAN
    BY <1>3, <2>1
  <2> QED BY <1>2, <2>1, <2>2, <2>3, <2>4, StaysPut
<1> QED BY <1>6, <1>7, <1>8, <1>9 DEF Modes

-----------------------------------------------------------------------------
(* The invariant holds when the terminal starts.                           *)
LEMMA SInvInit == Init => SInv
<1> SUFFICES ASSUME Init PROVE SInv
  OBVIOUS
<1>1. 0 \in Ring /\ N \in Nat /\ R \in Nat /\ R < N
  BY Sizes DEF Ring
<1>2. TypeOK
  BY <1>1 DEF Init, TypeOK
<1>3. InUse(rows, offset, 0)
  BY FreshInUse DEF Init
<1>4. ViewIn(offset, 0, view) /\ GoodSelection(offset, 0, start, end)
  BY <1>1, ScreenBegins DEF Init, ViewIn, GoodSelection, NoRow
<1> QED BY <1>1, <1>2, <1>3, <1>4 DEF SInv, Fits

(* Every step keeps it.                                                    *)
LEMMA SInvStep == SInv /\ [Next]_vars => SInv'
<1> SUFFICES ASSUME SInv, [Next]_vars PROVE SInv'
  OBVIOUS
<1>1. CASE UNCHANGED vars
  BY <1>1 DEF vars, selection, search, SInv, TypeOK, Fits, InUse, ViewIn, GoodSelection
<1>2. CASE Next
  BY <1>2, OutputKeeps, ViewMovesKeep, SelectingKeeps, ModesKeep DEF Next
<1> QED BY <1>1, <1>2

(* The invariant of the ring, its view and the selection.                  *)
THEOREM ScreenInvariant == Spec => []SInv
BY SInvInit, SInvStep, PTL DEF Spec

(* The view shows allocated lines of the scrollback and the screen, and    *)
(* the selection's rows are allocated, for every size of the ring and of   *)
(* the screen (grid.c, selection.c, commands.c).                           *)
THEOREM TheScreenKept == Spec => []ScreenKept
BY ScreenInvariant, SInvImplies, PTL

-----------------------------------------------------------------------------
(* Output moves neither the selected lines nor the shown ones.             *)

(* A selected row holds a line between the lines of the selection's ends.  *)
LEMMA SelectedAfter ==
  ASSUME offset' \in Ring, start' \in Ring, end' \in Ring, NEW p \in Selected'
  PROVE  \E r \in AllLines :
           /\ p = ScreenRow(offset', r)
           /\ Min2(LineOf(offset', start'), LineOf(offset', end')) <= r
           /\ r <= Max2(LineOf(offset', start'), LineOf(offset', end'))
<1> DEFINE a == AbsToSb(offset', start')
           b == AbsToSb(offset', end')
<1>1. a \in Ring /\ b \in Ring /\ R \in Nat /\ N \in Nat /\ a \in Int /\ b \in Int
  BY SbOf, Sizes DEF Ring
<1>2. PICK sb \in Min2(a, b) .. Max2(a, b) : p = SbToAbs(offset', sb)
  BY DEF Selected, FirstSb, LastSb, Ring
<1>3. LineOf(offset', start') = a + R - N /\ LineOf(offset', end') = b + R - N
  BY DEF LineOf
<1> HIDE DEF a, b
<1>4. sb \in Ring /\ sb \in Int
  BY <1>1, <1>2 DEF Min2, Max2, Ring
<1> DEFINE r == sb + R - N
<1>5. r \in AllLines
  BY <1>1, <1>4 DEF AllLines, Ring
<1>6. p = ScreenRow(offset', r)
  BY <1>2, <1>4, RowOfSb
<1>7. Min2(a + R - N, b + R - N) <= r /\ r <= Max2(a + R - N, b + R - N)
  BY <1>1, <1>2, <1>4 DEF Min2, Max2
<1> QED BY <1>3, <1>5, <1>6, <1>7

(* A selection that is not on the lines below the region ends above them.  *)
LEMMA NotBelow ==
  ASSUME TypeOK, start \in Ring, end \in Ring, NEW bottom \in 0 .. R - 1,
         ~OnBottomRegion(bottom)
  PROVE  LineOf(offset, start) < bottom /\ LineOf(offset, end) < bottom
<1>1. /\ R \in Nat /\ N \in Nat /\ 0 < R /\ R < N /\ bottom \in Int /\ 0 <= bottom
      /\ bottom <= R - 1 /\ offset \in Ring /\ offset \in Int
  BY Sizes DEF TypeOK, Ring
<1>2. ASSUME NEW r \in 0 .. R - 1 PROVE AbsToSb(offset, offset + r) = r + N - R
  <2> DEFINE a == (offset + r) - offset - R
  <2>1. a \in Int /\ a \in -N .. -1 /\ a + N = r + N - R
    BY <1>1
  <2>2. Mask(a) = a + N
    <3> HIDE DEF a
    <3> QED BY <2>1, MaskIs
  <2>3. AbsToSb(offset, offset + r) = Mask(a)
    BY DEF AbsToSb
  <2> HIDE DEF a
  <2> QED BY <2>1, <2>2, <2>3
<1>3. /\ AbsToSb(offset, offset + bottom) = bottom + N - R
      /\ AbsToSb(offset, offset + (R - 1)) = N - 1
  <2>1. R - 1 \in 0 .. R - 1 /\ (R - 1) + N - R = N - 1
    BY <1>1
  <2> QED BY <1>2, <2>1
<1>4. ~ (\/ bottom + N - R <= FirstSb(offset) /\ FirstSb(offset) <= N - 1
         \/ bottom + N - R <= LastSb(offset) /\ LastSb(offset) <= N - 1
         \/ FirstSb(offset) <= bottom + N - R /\ N - 1 <= LastSb(offset))
  <2>1. ~OnRows(bottom, R - 1)
    BY <1>1 DEF OnBottomRegion
  <2> QED BY <2>1, <1>3 DEF OnRows
<1>5. /\ FirstSb(offset) \in Int /\ LastSb(offset) \in Int
      /\ LastSb(offset) + R - N = Max2(LineOf(offset, start), LineOf(offset, end))
  BY <1>1, EndsAre
<1>6. /\ LineOf(offset, start) \in AllLines /\ LineOf(offset, start) \in Int
      /\ LineOf(offset, end) \in AllLines /\ LineOf(offset, end) \in Int
  BY <1>1, LineIs
<1>7. LastSb(offset) <= N - 1
  BY <1>1, <1>5, <1>6 DEF AllLines, Max2
<1>8. LastSb(offset) < bottom + N - R
  BY <1>1, <1>4, <1>5, <1>7
<1> QED BY <1>1, <1>5, <1>6, <1>8 DEF Max2

(* A selection that is kept as lines scroll out of a region at the top of  *)
(* the screen still covers the rows it did.                                *)
LEMMA SelectedStay ==
  ASSUME TypeOK, NEW n, NEW bottom, IsRegion(0, bottom, n), Scroll(0, bottom, n),
         end' >= 0, NEW p \in Selected'
  PROVE  rows'[p] = rows[p]
<1> DEFINE ofs == Mask(offset + n)
           sel == AfterScrollUp(0, bottom, n)
<1>1. /\ bottom \in Nat /\ n \in Nat \ {0} /\ n \in Int /\ n <= bottom /\ bottom <= R
      /\ R < N /\ R \in Nat /\ N \in Nat
  BY Sizes DEF IsRegion
<1>2. /\ offset' = ofs /\ Select(sel)
      /\ rows' = ScrolledRing(ofs, 0, bottom, n)
  BY DEF Scroll
<1>3. offset \in Ring /\ rows \in [Ring -> Contents] /\ ofs \in Ring
  <2>1. offset \in Ring /\ rows \in [Ring -> Contents] /\ offset + n \in Int
    BY <1>1 DEF TypeOK, Contents, Ring
  <2> QED BY <2>1, MaskIs
<1>4. LinesUp(rows', ofs, 0, bottom, n)
  BY <1>2, <1>3, LinesScrollUp
<1>5. sel # NoSelection /\ sel = selection /\ start' = start /\ end' = end
  <2>1. sel # NoSelection
    <3> SUFFICES ASSUME sel = NoSelection PROVE FALSE
      OBVIOUS
    <3>1. end' = NoSelection[2]
      BY <1>2 DEF Select
    <3>2. end' = -1
      BY <3>1 DEF NoSelection, NoRow
    <3> QED BY <3>2
  <2>2. sel = selection
    BY <2>1 DEF AfterScrollUp
  <2> QED BY <1>2, <2>1, <2>2 DEF Select, selection
<1>6. start \in Ring /\ end \in Ring
  <2>1. start' \in Int /\ end' \in Ring \cup {NoRow} /\ start' \in Ring \cup {NoRow}
    BY <1>5, Sizes DEF TypeOK, NoRow, Ring
  <2>2. ~ (start' < 0)
    BY DEF Selected
  <2> QED BY <2>1, <2>2, <1>5 DEF NoRow
<1>7. ~OnBottomRegion(bottom) /\ ~ (FirstSb(offset) - n < 0)
  BY <1>5, <1>6 DEF AfterScrollUp
<1>8. /\ FirstSb(offset) \in Int
      /\ FirstSb(offset) + R - N = Min2(LineOf(offset, start), LineOf(offset, end))
  BY <1>3, <1>6, EndsAre
<1>9. /\ LineOf(offset, start) \in AllLines /\ LineOf(offset, start) \in Int
      /\ LineOf(offset, end) \in AllLines /\ LineOf(offset, end) \in Int
  BY <1>3, <1>6, LineIs
<1>10. /\ LineOf(offset, start) >= R - N + n /\ LineOf(offset, end) >= R - N + n
       /\ LineOf(offset, start) < bottom /\ LineOf(offset, end) < bottom
  <2>1. CASE bottom < R
    <3>1. bottom \in 0 .. R - 1
      BY <1>1, <2>1
    <3>2. LineOf(offset, start) < bottom /\ LineOf(offset, end) < bottom
      BY <3>1, <1>6, <1>7, NotBelow
    <3> QED BY <3>2, <1>1, <1>7, <1>8, <1>9 DEF Min2
  <2>2. CASE ~ (bottom < R)
    BY <2>2, <1>1, <1>7, <1>8, <1>9 DEF Min2, AllLines
  <2> QED BY <2>1, <2>2
<1>11. /\ LineOf(ofs, start) = LineOf(offset, start) - n
       /\ LineOf(ofs, end) = LineOf(offset, end) - n
  <2>1. LineOf(offset, start) - n \in AllLines /\ LineOf(offset, end) - n \in AllLines
    BY <1>1, <1>9, <1>10 DEF AllLines
  <2> QED BY <2>1, <1>1, <1>3, <1>6, LineMoves
<1>12. PICK r \in AllLines :
         /\ p = ScreenRow(ofs, r)
         /\ Min2(LineOf(ofs, start), LineOf(ofs, end)) <= r
         /\ r <= Max2(LineOf(ofs, start), LineOf(ofs, end))
  BY <1>2, <1>3, <1>5, <1>6, SelectedAfter
<1>13. r \in Int /\ R - N <= r /\ r < bottom - n
  BY <1>1, <1>9, <1>10, <1>11, <1>12 DEF AllLines, Min2, Max2
<1>14. p = ScreenRow(offset, r + n)
  <2>1. offset \in Int
    BY <1>3 DEF Ring
  <2> QED BY <2>1, <1>1, <1>12, <1>13, MovedRow
<1>15. rows'[ScreenRow(ofs, r)] = rows[ScreenRow(offset, r + n)]
  <2>1. CASE r < -n
    <3>1. r \in R - N .. -n - 1
      BY <1>1, <1>13, <2>1
    <3> QED BY <3>1, <1>4 DEF LinesUp
  <2>2. CASE -n <= r /\ r < 0
    <3>1. r \in R - N .. -1 /\ r >= -n
      BY <1>1, <1>13, <2>2
    <3>2. rows'[ScreenRow(ofs, r)] = rows[ScreenRow(offset, 0 + n - 1 - ((0 - 1 - r) % n))]
      BY <3>1, <1>4 DEF LinesUp
    <3> DEFINE a == 0 - 1 - r
    <3>3. a \in 0 .. n - 1 /\ a \in Int /\ a = n * 0 + a
      BY <1>1, <1>13, <2>2
    <3>4. a % n = a
      <4>1. 0 \in Int
        OBVIOUS
      <4> HIDE DEF a
      <4> QED BY <1>1, <3>3, <4>1, RemainderIs
    <3>5. 0 + n - 1 - (a % n) = r + n
      <4>1. 0 + n - 1 - a = r + n
        BY <1>1, <1>13
      <4> QED BY <3>4, <4>1
    <3> QED BY <3>2, <3>5
  <2>3. CASE r >= 0
    <3>1. r \in 0 .. bottom - n - 1
      BY <1>1, <1>13, <2>3
    <3> QED BY <3>1, <1>4 DEF LinesUp
  <2> QED BY <2>1, <2>2, <2>3, <1>1, <1>13
<1> QED BY <1>12, <1>14, <1>15

(* Every step keeps the selected lines.                                    *)
LEMMA SelectedLinesStep ==
  SInv /\ [Next]_vars =>
    [end' >= 0 /\ offset' # offset =>
       \A n \in 1 .. R : \A bottom \in n .. R :
         offset' = Mask(offset + n) /\ Scroll(0, bottom, n)
           => \A p \in Selected' : rows'[p] = rows[p]]_vars
<1> SUFFICES ASSUME SInv, end' >= 0, NEW n \in 1 .. R, NEW bottom \in n .. R,
                    Scroll(0, bottom, n), NEW p \in Selected'
             PROVE  rows'[p] = rows[p]
  OBVIOUS
<1>1. IsRegion(0, bottom, n)
  BY Sizes DEF IsRegion
<1> QED BY <1>1, SelectedStay DEF SInv

(* Every step keeps the lines shown by a view that is scrolled back.       *)
LEMMA ShownLinesStep ==
  SInv /\ [Next]_vars =>
    [view # offset /\ offset' # offset /\ ~stray /\ ~stray' =>
       \A top \in 0 .. R - 1 : \A bottom \in top + 1 .. R :
         \A n \in 1 .. bottom - top :
           offset' = Mask(offset + n) /\ Scroll(top, bottom, n)
             => view' = view \/ AbsToSb(offset', view') = 0]_vars
<1> SUFFICES ASSUME SInv, view # offset, ~stray,
                    NEW top \in 0 .. R - 1, NEW bottom \in top + 1 .. R,
                    NEW n \in 1 .. bottom - top, Scroll(top, bottom, n)
             PROVE  view' = view \/ AbsToSb(offset', view') = 0
  OBVIOUS
<1>1. IsRegion(top, bottom, n)
  BY DEF IsRegion
<1>2. /\ offset' = Mask(offset + n)
      /\ view' = IF view = offset THEN Mask(offset + n) ELSE ViewAfterScroll(Mask(offset + n), n)
      /\ Live
  BY DEF Scroll, OnNormal
<1>3. PICK first : InUse(rows, offset, first) /\ ViewIn(offset, first, view)
  BY <1>2, Now
<1>4. CASE mode = "urls"
  BY <1>2, <1>4 DEF ViewAfterScroll
<1>5. CASE mode # "urls"
  BY <1>1, <1>2, <1>3, <1>5, ViewAfterUp DEF ViewIn, SInv
<1> QED BY <1>4, <1>5

(* Lines selected before term_scroll_partial() are the lines selected      *)
(* after it.                                                               *)
THEOREM TheSelectedLinesStay == Spec => KeepsSelectedLines
BY ScreenInvariant, SelectedLinesStep, PTL DEF Spec, KeepsSelectedLines

(* Output does not move a view that is scrolled back                       *)
(* (term_scroll_partial()).                                                *)
THEOREM TheViewStays == Spec => ScrolledBackViewStays
BY ScreenInvariant, ShownLinesStep, PTL DEF Spec, ScrolledBackViewStays

(* Output moves neither the selected lines nor the lines that are shown.   *)
THEOREM TheLinesStay == Spec => LinesStay
BY TheSelectedLinesStay, TheViewStays DEF LinesStay

-----------------------------------------------------------------------------
(* The ring implements the history and the screen.                         *)

(* HistoryLines and ScreenLines of any ring.                               *)
HistoryOf(ring, ofs) ==
  LET used == {sb \in 0 .. N - R - 1 : ring[SbToAbs(ofs, sb)] # Null}
      first == CHOOSE sb \in used : \A other \in used : sb <= other
  IN IF used = {} THEN <<>>
     ELSE [i \in 1 .. N - R - first |-> ring[SbToAbs(ofs, first + i - 1)]]

(* The lines on the screen.                                                *)
ScreenOf(ring, ofs) == [r \in 1 .. R |-> ring[ScreenRow(ofs, r - 1)]]

(* The history, once the first line in use is known.                       *)
History(ring, ofs, first) == [i \in 1 .. -first |-> ring[ScreenRow(ofs, first + i - 1)]]

(* A sequence without elements.                                            *)
LEMMA EmptyHistory == \A f : f = [i \in 1 .. 0 |-> f[i]] => f = <<>>
BY EmptySeq

(* The history of the refinement mapping is the lines in use above the     *)
(* screen.                                                                 *)
LEMMA HistoryIs ==
  ASSUME NEW ring, NEW ofs \in Ring, NEW first, InUse(ring, ofs, first)
  PROVE  HistoryOf(ring, ofs) = History(ring, ofs, first)
<1> DEFINE used == {sb \in 0 .. N - R - 1 : ring[SbToAbs(ofs, sb)] # Null}
           oldest == CHOOSE sb \in used : \A other \in used : sb <= other
           old == first + N - R
<1>1. /\ R \in Nat /\ N \in Nat /\ 0 < R /\ R < N /\ first \in Int
      /\ R - N <= first /\ first <= 0 /\ old \in Int
  BY Sizes DEF InUse
<1>2. ASSUME NEW sb \in 0 .. N - R - 1 PROVE ring[SbToAbs(ofs, sb)] # Null <=> sb >= old
  <2>1. sb \in Ring /\ sb + R - N \in AllLines /\ (sb + R - N >= first <=> sb >= old)
    BY <1>1 DEF Ring, AllLines
  <2>2. SbToAbs(ofs, sb) = ScreenRow(ofs, sb + R - N)
    BY <2>1, RowOfSb
  <2> QED BY <2>1, <2>2 DEF InUse
<1>3. HistoryOf(ring, ofs) =
        IF used = {} THEN <<>>
        ELSE [i \in 1 .. N - R - oldest |-> ring[SbToAbs(ofs, oldest + i - 1)]]
  BY DEF HistoryOf
<1>4. CASE first >= 0
  <2>0. first = 0
    BY <1>1, <1>4
  <2>1. used = {}
    BY <1>1, <1>2, <2>0
  <2>2. History(ring, ofs, first) = <<>>
    <3>1. -first = 0
      BY <1>1, <1>4
    <3>2. History(ring, ofs, first) = [i \in 1 .. 0 |-> History(ring, ofs, first)[i]]
      BY <3>1 DEF History
    <3> QED BY <3>2, EmptyHistory
  <2> QED BY <1>3, <2>1, <2>2
<1>5. CASE ~ (first >= 0)
  <2>1. old \in 0 .. N - R - 1
    BY <1>1, <1>5
  <2>2. old \in used /\ \A other \in used : old <= other
    BY <1>1, <1>2, <2>1
  <2>3. ASSUME NEW sb \in used, \A other \in used : sb <= other PROVE sb = old
    <3>1. sb <= old /\ sb >= old /\ sb \in Int
      BY <1>1, <1>2, <2>2, <2>3
    <3> QED BY <1>1, <3>1
  <2>4. oldest = old
    <3> HIDE DEF used, old
    <3> QED BY <2>2, <2>3
  <2>5. HistoryOf(ring, ofs) = [i \in 1 .. N - R - old |-> ring[SbToAbs(ofs, old + i - 1)]]
    <3>1. used # {}
      BY <2>2
    <3> HIDE DEF oldest, old, used
    <3> QED BY <1>3, <2>4, <3>1
  <2>6. N - R - old = -first
    BY <1>1
  <2>7. ASSUME NEW i \in 1 .. -first
        PROVE  SbToAbs(ofs, old + i - 1) = ScreenRow(ofs, first + i - 1)
    <3>1. old + i - 1 \in Ring /\ (old + i - 1) + R - N = first + i - 1
      BY <1>1 DEF Ring
    <3> QED BY <3>1, RowOfSb
  <2> QED BY <2>5, <2>6, <2>7 DEF History
<1> QED BY <1>4, <1>5

(* It is a sequence, one element per line.                                 *)
LEMMA HistorySequence ==
  ASSUME NEW ring \in [Ring -> Contents], NEW ofs \in Ring, NEW first \in R - N .. 0
  PROVE  /\ History(ring, ofs, first) \in Seq(Contents)
         /\ Len(History(ring, ofs, first)) = -first
         /\ \A i \in 1 .. -first :
              History(ring, ofs, first)[i] = ring[ScreenRow(ofs, first + i - 1)]
<1> DEFINE h == History(ring, ofs, first)
           k == -first
<1>1. k \in Nat /\ first \in Int
  BY Sizes
<1>2. \A i \in 1 .. k : ring[ScreenRow(ofs, first + i - 1)] \in Contents
  <2> SUFFICES ASSUME NEW i \in 1 .. k PROVE ring[ScreenRow(ofs, first + i - 1)] \in Contents
    OBVIOUS
  <2>1. first + i - 1 \in Int /\ ofs \in Int
    BY <1>1 DEF Ring
  <2> QED BY <2>1, RowInRing
<1>3. h \in [1 .. k -> Contents]
  BY <1>2 DEF History
<1>4. h \in Seq(Contents)
  BY <1>1, <1>3, SeqDef
<1>5. Len(h) = k
  <2>1. DOMAIN h = 1 .. k /\ DOMAIN h = 1 .. Len(h) /\ Len(h) \in Nat
    <3> HIDE DEF h, k
    <3> QED BY <1>3, <1>4, LenProperties
  <2> HIDE DEF h, k
  <2> QED BY <1>1, <2>1
<1> QED BY <1>4, <1>5 DEF History

(* The refinement mapping before a step.                                   *)
LEMMA LinesNow ==
  /\ HistoryLines = HistoryOf(rows, offset)
  /\ ScreenLines = ScreenOf(rows, offset)
BY DEF HistoryLines, ScreenLines, HistoryOf, ScreenOf

(* The refinement mapping after a step.                                    *)
LEMMA LinesThen ==
  /\ HistoryLines' = HistoryOf(rows', offset')
  /\ ScreenLines' = ScreenOf(rows', offset')
BY DEF HistoryLines, ScreenLines, HistoryOf, ScreenOf

(* A block that scrolls out enters the history rotated: the ring's order   *)
(* is a rotation of the screen's.                                          *)
Turn(top, n) == IF top % n = 0 THEN 0 ELSE n - (top % n)

(* By how much a block is rotated as it enters the history. *)
LEMMA RotationIs ==
  ASSUME NEW n \in Nat \ {0}, NEW top \in Nat, NEW i \in 1 .. n
  PROVE  /\ Turn(top, n) \in 0 .. n - 1
         /\ ((i - 1 + Turn(top, n)) % n) = n - 1 - ((top + n - i) % n)
<1> DEFINE by == Turn(top, n)
<1>1. PICK q \in Int, c \in 0 .. n - 1 : top = n * q + c /\ top % n = c
  <2>1. top \in Int
    OBVIOUS
  <2> HIDE DEF by
  <2> QED BY <2>1, RemainderOf
<1>2. by \in 0 .. n - 1 /\ by \in Int /\ (c + by = 0 \/ c + by = n)
  BY <1>1 DEF Turn
<1> HIDE DEF by
<1> DEFINE a == top + n - i
<1>3. a \in Int
  OBVIOUS
<1>4. PICK k \in Int, x \in 0 .. n - 1 : a = n * k + x /\ a % n = x
  <2> HIDE DEF a
  <2> QED BY <1>3, RemainderOf
<1> DEFINE b == i - 1 + by
           y == n - 1 - x
<1>5. y \in 0 .. n - 1 /\ b \in Int
  BY <1>2
<1>6. \E z \in Int : b = n * z + y
  <2>1. CASE c + by = 0
    <3> DEFINE z == q - k
    <3>1. z \in Int /\ n * z = n * q - n * k
      OBVIOUS
    <3>2. b = n * z + y
      <4> HIDE DEF z
      <4> QED BY <1>1, <1>2, <1>4, <2>1, <3>1
    <3> QED BY <3>1, <3>2
  <2>2. CASE c + by = n
    <3> DEFINE z == q - k + 1
    <3>1. z \in Int /\ n * z = n * q - n * k + n
      OBVIOUS
    <3>2. b = n * z + y
      <4> HIDE DEF z
      <4> QED BY <1>1, <1>2, <1>4, <2>2, <3>1
    <3> QED BY <3>1, <3>2
  <2> QED BY <1>2, <2>1, <2>2
<1>7. b % n = y
  <2> HIDE DEF b, y
  <2> QED BY <1>5, <1>6, RemainderIs
<1> QED BY <1>2, <1>4, <1>7 DEF by

(* term_scroll_partial() is a Scroll of the two sequences.                 *)
LEMMA ScrollImplements ==
  ASSUME SInv, NEW top, NEW bottom, NEW n, IsRegion(top, bottom, n), Scroll(top, bottom, n)
  PROVE  Lines!Scroll(top, bottom, n)
<1> DEFINE ofs == Mask(offset + n)
           Old(r) == rows[ScreenRow(offset, r)]
           New(r) == rows'[ScreenRow(ofs, r)]
<1>1. PICK first : InUse(rows, offset, first)
  BY Now DEF Scroll, OnNormal
<1> DEFINE f == Max2(first - n, R - N)
<1>2. /\ top \in Nat /\ bottom \in Nat /\ n \in Nat \ {0} /\ n \in Int
      /\ top + n <= bottom /\ bottom <= R
      /\ R \in Nat /\ N \in Nat /\ 0 < R /\ R < N
      /\ first \in Int /\ first \in R - N .. 0 /\ offset \in Ring
      /\ rows \in [Ring -> Contents] /\ offset' = ofs
      /\ rows' = ScrolledRing(ofs, top, bottom, n)
  BY <1>1, Sizes DEF SInv, TypeOK, InUse, IsRegion, Contents, Scroll
<1>3. LinesUp(rows', ofs, top, bottom, n)
  BY <1>2, LinesScrollUp
<1>4. ofs \in Ring /\ rows' \in [Ring -> Contents]
  <2>1. offset + n \in Int
    BY <1>2 DEF Ring
  <2> QED BY <2>1, <1>3, MaskIs DEF LinesUp
<1>5. InUse(rows', ofs, f) /\ f \in R - N .. 0 /\ f \in Int
  <2>1. InUse(rows', ofs, f)
    BY <1>1, <1>3, UseAfterUp
  <2> HIDE DEF f
  <2> QED BY <2>1, <1>2 DEF InUse
<1>6. f = (IF n - first > N - R THEN R - N ELSE first - n)
  BY <1>2 DEF Max2
<1>7. HistoryLines = History(rows, offset, first) /\ HistoryLines' = History(rows', ofs, f)
  <2>1. HistoryOf(rows, offset) = History(rows, offset, first)
    BY <1>1, <1>2, HistoryIs
  <2>2. HistoryOf(rows', ofs) = History(rows', ofs, f)
    <3> HIDE DEF f, ofs
    <3> QED BY <1>4, <1>5, HistoryIs
  <2> QED BY <2>1, <2>2, <1>2, LinesNow, LinesThen
<1>8. ScreenLines = ScreenOf(rows, offset) /\ ScreenLines' = ScreenOf(rows', ofs)
  BY <1>2, LinesNow, LinesThen
<1> HIDE DEF f, ofs
\* The screen.
<1>9. ScreenLines' = [row \in 1 .. R |->
                        IF row <= top \/ row > bottom THEN ScreenLines[row]
                        ELSE IF row <= bottom - n THEN ScreenLines[row + n] ELSE "blank"]
  <2>1. ASSUME NEW row \in 1 .. R
        PROVE  New(row - 1) = IF row <= top \/ row > bottom THEN ScreenLines[row]
                              ELSE IF row <= bottom - n THEN ScreenLines[row + n] ELSE "blank"
    <3>1. \A s \in 1 .. R : ScreenLines[s] = Old(s - 1)
      BY <1>8 DEF ScreenOf
    <3>2. CASE row <= top
      <4>1. row - 1 \in 0 .. top - 1
        BY <1>2, <3>2
      <4> QED BY <4>1, <3>1, <3>2, <1>3 DEF LinesUp
    <3>3. CASE row > bottom
      <4>1. row - 1 \in bottom .. R - 1
        BY <1>2, <3>3
      <4> QED BY <4>1, <3>1, <3>3, <1>3 DEF LinesUp
    <3>4. CASE row > top /\ row <= bottom - n
      <4>1. row - 1 \in top .. bottom - n - 1 /\ row + n \in 1 .. R /\ (row + n) - 1 = (row - 1) + n
            /\ ~ (row <= top) /\ ~ (row > bottom)
        BY <1>2, <3>4
      <4>2. New(row - 1) = Old((row - 1) + n)
        BY <4>1, <1>3 DEF LinesUp
      <4> QED BY <4>1, <4>2, <3>1, <3>4
    <3>5. CASE row > top /\ row > bottom - n /\ row <= bottom
      <4>1. row - 1 \in bottom - n .. bottom - 1 /\ ~ (row <= top) /\ ~ (row > bottom)
            /\ ~ (row <= bottom - n)
        BY <1>2, <3>5
      <4>2. New(row - 1) = "blank"
        BY <4>1, <1>3 DEF LinesUp
      <4> QED BY <4>1, <4>2
    <3> QED BY <1>2, <3>2, <3>3, <3>4, <3>5
  <2> QED BY <2>1, <1>8 DEF ScreenOf
\* The lines that leave the screen.
<1> DEFINE by == Turn(top, n)
           block == [i \in 1 .. n |-> ScreenLines[top + i]]
           out == Lines!Rotated(block, by)
<1>10. /\ block \in Seq(Contents) /\ Len(block) = n
       /\ \A i \in 1 .. n : block[i] = Old(top + i - 1)
  <2>1. \A i \in 1 .. n : block[i] = Old(top + i - 1) /\ Old(top + i - 1) \in Contents
    <3> SUFFICES ASSUME NEW i \in 1 .. n
                 PROVE  block[i] = Old(top + i - 1) /\ Old(top + i - 1) \in Contents
      OBVIOUS
    <3>1. /\ top + i \in 1 .. R /\ top + i - 1 \in Int /\ offset \in Int
          /\ (top + i) - 1 = top + i - 1
      BY <1>2 DEF Ring
    <3>2. ScreenLines[top + i] = Old(top + i - 1)
      BY <3>1, <1>8 DEF ScreenOf
    <3>3. ScreenRow(offset, top + i - 1) \in Ring
      BY <3>1, RowInRing
    <3> QED BY <3>2, <3>3, <1>2
  <2>2. block \in [1 .. n -> Contents]
    BY <2>1
  <2> HIDE DEF block
  <2>3. block \in Seq(Contents)
    BY <1>2, <2>2, SeqDef
  <2>4. DOMAIN block = 1 .. n /\ DOMAIN block = 1 .. Len(block) /\ Len(block) \in Nat
    BY <2>2, <2>3, LenProperties
  <2> QED BY <1>2, <2>1, <2>3, <2>4
<1>11. by \in 0 .. n - 1 /\ (top % n = 0 => by = 0) /\ by \in Int
  <2>1. (top % n) \in 0 .. n - 1
    BY <1>2, RemainderOf
  <2> QED BY <2>1, <1>2 DEF Turn
<1>12. out \in Lines!Leaving(top, n)
  <2>1. by \in IF top % n = 0 THEN {0} ELSE 0 .. n - 1
    BY <1>11
  <2> HIDE DEF by
  <2> QED BY <2>1 DEF Lines!Leaving
<1>13. /\ out \in Seq(Contents) /\ Len(out) = n
       /\ \A i \in 1 .. n : out[i] = Old(top + n - 1 - ((top + n - i) % n))
  <2>0. \A i \in 1 .. n : ((i - 1 + by) % n) = n - 1 - ((top + n - i) % n)
    BY <1>2, RotationIs
  <2> HIDE DEF block
  <2>1. out = [i \in 1 .. n |-> block[((i - 1 + by) % n) + 1]]
    BY <1>10 DEF Lines!Rotated
  <2>2. ASSUME NEW i \in 1 .. n
        PROVE  /\ ((i - 1 + by) % n) + 1 \in 1 .. n
               /\ top + (((i - 1 + by) % n) + 1) - 1 = top + n - 1 - ((top + n - i) % n)
    <3> DEFINE x == ((i - 1 + by) % n)
               y == ((top + n - i) % n)
    <3>1. x = n - 1 - y
      <4> HIDE DEF x, y
      <4>1. ((i - 1 + by) % n) = n - 1 - ((top + n - i) % n)
        BY <2>0
      <4> QED BY <4>1 DEF x, y
    <3>2. y \in 0 .. n - 1
      <4>1. top + n - i \in Int
        BY <1>2
      <4> QED BY <4>1, <1>2, RemainderOf
    <3> HIDE DEF x, y
    <3>3. x + 1 \in 1 .. n /\ top + (x + 1) - 1 = top + n - 1 - y
      BY <1>2, <3>1, <3>2
    <3> QED BY <3>3 DEF x, y
  <2>3. \A i \in 1 .. n : /\ out[i] = Old(top + n - 1 - ((top + n - i) % n))
                          /\ out[i] \in Contents
    <3> SUFFICES ASSUME NEW i \in 1 .. n
                 PROVE  /\ out[i] = Old(top + n - 1 - ((top + n - i) % n))
                        /\ out[i] \in Contents
      OBVIOUS
    <3>1. out[i] = block[((i - 1 + by) % n) + 1]
      BY <2>1
    <3> DEFINE j == ((i - 1 + by) % n) + 1
               z == top + n - 1 - ((top + n - i) % n)
    <3>2. j \in 1 .. n /\ top + j - 1 = z /\ out[i] = block[j]
      BY <2>2, <3>1
    <3> HIDE DEF j, z, out
    <3>3. block[j] = Old(top + j - 1) /\ block[j] \in Contents
      BY <1>10, <3>2, ElementOfSeq
    <3> QED BY <3>2, <3>3 DEF z
  <2>4. out \in [1 .. n -> Contents]
    BY <2>1, <2>3
  <2> HIDE DEF out
  <2>5. out \in Seq(Contents)
    BY <1>2, <2>4, SeqDef
  <2>6. DOMAIN out = 1 .. n /\ DOMAIN out = 1 .. Len(out) /\ Len(out) \in Nat
    BY <2>4, <2>5, LenProperties
  <2> QED BY <1>2, <2>3, <2>5, <2>6
<1> HIDE DEF by, block, out
\* The history.
<1> DEFINE h == History(rows, offset, first)
           all == h \o out
<1>14. /\ h \in Seq(Contents) /\ Len(h) = -first
       /\ \A i \in 1 .. -first : h[i] = Old(first + i - 1)
  BY <1>2, HistorySequence
<1> HIDE DEF h
<1>15. /\ all \in Seq(Contents) /\ Len(all) = n - first
       /\ \A i \in 1 .. n - first : all[i] = IF i <= -first THEN h[i] ELSE out[i + first]
  <2>1. /\ all \in Seq(Contents) /\ Len(all) = -first + n
        /\ \A i \in 1 .. -first + n : all[i] = IF i <= -first THEN h[i] ELSE out[i - (-first)]
    BY <1>13, <1>14, ConcatProperties
  <2>2. -first + n = n - first /\ \A i \in Int : i - (-first) = i + first
    BY <1>2
  <2> HIDE DEF all
  <2> QED BY <2>1, <2>2
<1> HIDE DEF all
<1>16. ASSUME NEW i \in 1 .. -f PROVE New(f + i - 1) = all[n - first + f + i]
  <2> DEFINE r == f + i - 1
             j == n - first + f + i
  <2>1. r \in Int /\ r \in R - N .. -1 /\ j \in 1 .. n - first /\ j = r + n - first + 1
        /\ first - n <= f
    BY <1>2, <1>5, <1>6
  <2> HIDE DEF r, j
  <2>2. CASE r < -n
    <3>1. r \in R - N .. -n - 1 /\ j <= -first /\ j \in 1 .. -first /\ first + j - 1 = r + n
      BY <1>2, <2>1, <2>2
    <3>2. New(r) = Old(r + n)
      BY <3>1, <1>3 DEF LinesUp
    <3>3. all[j] = Old(first + j - 1)
      BY <3>1, <2>1, <1>14, <1>15
    <3> QED BY <3>1, <3>2, <3>3 DEF r, j
  <2>3. CASE r >= -n
    <3> DEFINE k == j + first
    <3>1. k \in 1 .. n /\ ~ (j <= -first) /\ r >= -n /\ top - 1 - r = top + n - k
      BY <1>2, <2>1, <2>3
    <3>2. New(r) = Old(top + n - 1 - ((top - 1 - r) % n))
      BY <3>1, <2>1, <1>3 DEF LinesUp
    <3>3. all[j] = out[k]
      BY <3>1, <2>1, <1>15
    <3>4. out[k] = Old(top + n - 1 - ((top + n - k) % n))
      BY <3>1, <1>13
    <3> QED BY <3>1, <3>2, <3>3, <3>4 DEF r, j
  <2> QED BY <2>1, <2>2, <2>3, <1>2
<1>17. History(rows', ofs, f) = [i \in 1 .. -f |-> all[n - first + f + i]]
  BY <1>16 DEF History
<1>18. HistoryLines' = IF Len(all) > N - R THEN Lines!Newest(all, N - R) ELSE all
  <2>1. CASE n - first > N - R
    <3>1. -f = N - R /\ n - first + f = (n - first) - (N - R)
      BY <1>2, <1>6, <2>1
    <3>2. Lines!Newest(all, N - R) = [i \in 1 .. N - R |-> all[(n - first) - (N - R) + i]]
      BY <1>15 DEF Lines!Newest
    <3> QED BY <3>1, <3>2, <1>7, <1>15, <1>17, <2>1
  <2>2. CASE ~ (n - first > N - R)
    <3>1. -f = n - first /\ \A i \in 1 .. n - first : n - first + f + i = i
      BY <1>2, <1>6, <2>2
    <3>2. History(rows', ofs, f) = [i \in 1 .. n - first |-> all[i]]
      BY <3>1, <1>17
    <3>3. all = [i \in 1 .. n - first |-> all[i]]
      <4>1. all \in [1 .. n - first -> Contents]
        BY <1>15, LenProperties
      <4> QED BY <4>1
    <3> QED BY <3>2, <3>3, <1>7, <1>15, <2>2
  <2> QED BY <2>1, <2>2
<1>19. all = HistoryLines \o out
  BY <1>7 DEF all, h
<1> QED BY <1>9, <1>12, <1>18, <1>19 DEF Lines!Scroll

(* term_scroll_reverse_partial() is a ScrollReverse of the two sequences.  *)
LEMMA ReverseImplements ==
  ASSUME SInv, NEW top, NEW bottom, NEW n, IsRegion(top, bottom, n), ScrollReverse(top, bottom, n)
  PROVE  Lines!ScrollReverse(top, bottom, n)
<1> DEFINE ofs == Mask(offset - n)
           Old(r) == rows[ScreenRow(offset, r)]
           New(r) == rows'[ScreenRow(ofs, r)]
<1>1. PICK first : InUse(rows, offset, first)
  BY Now DEF ScrollReverse, OnNormal
<1> DEFINE f == Min2(first + n, 0)
<1>2. /\ top \in Nat /\ bottom \in Nat /\ n \in Nat \ {0} /\ n \in Int
      /\ top + n <= bottom /\ bottom <= R
      /\ R \in Nat /\ N \in Nat /\ 0 < R /\ R < N
      /\ first \in Int /\ first \in R - N .. 0 /\ offset \in Ring
      /\ rows \in [Ring -> Contents] /\ offset' = ofs
      /\ rows' = ReversedRing(ofs, top, bottom, n)
  BY <1>1, Sizes DEF SInv, TypeOK, InUse, IsRegion, Contents, ScrollReverse
<1>3. LinesDown(rows', ofs, top, bottom, n)
  BY <1>2, LinesScrollDown
<1>4. ofs \in Ring /\ rows' \in [Ring -> Contents]
  <2>1. offset - n \in Int
    BY <1>2 DEF Ring
  <2> QED BY <2>1, <1>3, MaskIs DEF LinesDown
<1>5. InUse(rows', ofs, f) /\ f \in R - N .. 0 /\ f \in Int
  <2>1. InUse(rows', ofs, f)
    BY <1>1, <1>3, UseAfterDown
  <2> HIDE DEF f
  <2> QED BY <2>1, <1>2 DEF InUse
<1>6. f = (IF first + n > 0 THEN 0 ELSE first + n)
  BY <1>2 DEF Min2
<1>7. HistoryLines = History(rows, offset, first) /\ HistoryLines' = History(rows', ofs, f)
  <2>1. HistoryOf(rows, offset) = History(rows, offset, first)
    BY <1>1, <1>2, HistoryIs
  <2>2. HistoryOf(rows', ofs) = History(rows', ofs, f)
    <3> HIDE DEF f, ofs
    <3> QED BY <1>4, <1>5, HistoryIs
  <2> QED BY <2>1, <2>2, <1>2, LinesNow, LinesThen
<1>8. ScreenLines = ScreenOf(rows, offset) /\ ScreenLines' = ScreenOf(rows', ofs)
  BY <1>2, LinesNow, LinesThen
<1> HIDE DEF f, ofs
<1>9. ScreenLines' = [row \in 1 .. R |->
                        IF row <= top \/ row > bottom THEN ScreenLines[row]
                        ELSE IF row <= top + n THEN "blank" ELSE ScreenLines[row - n]]
  <2>1. ASSUME NEW row \in 1 .. R
        PROVE  New(row - 1) = IF row <= top \/ row > bottom THEN ScreenLines[row]
                              ELSE IF row <= top + n THEN "blank" ELSE ScreenLines[row - n]
    <3>1. \A s \in 1 .. R : ScreenLines[s] = Old(s - 1)
      BY <1>8 DEF ScreenOf
    <3>2. CASE row <= top
      <4>1. row - 1 \in 0 .. top - 1
        BY <1>2, <3>2
      <4> QED BY <4>1, <3>1, <3>2, <1>3 DEF LinesDown
    <3>3. CASE row > bottom
      <4>1. row - 1 \in bottom .. R - 1
        BY <1>2, <3>3
      <4> QED BY <4>1, <3>1, <3>3, <1>3 DEF LinesDown
    <3>4. CASE row > top /\ row <= top + n
      <4>1. row - 1 \in top .. top + n - 1 /\ ~ (row <= top) /\ ~ (row > bottom)
        BY <1>2, <3>4
      <4>2. New(row - 1) = "blank"
        BY <4>1, <1>3 DEF LinesDown
      <4> QED BY <4>1, <4>2, <3>4
    <3>5. CASE row > top + n /\ row <= bottom
      <4>1. row - 1 \in top + n .. bottom - 1 /\ row - n \in 1 .. R /\ (row - n) - 1 = (row - 1) - n
            /\ ~ (row <= top) /\ ~ (row > bottom) /\ ~ (row <= top + n)
        BY <1>2, <3>5
      <4>2. New(row - 1) = Old((row - 1) - n)
        BY <4>1, <1>3 DEF LinesDown
      <4> QED BY <4>1, <4>2, <3>1
    <3> QED BY <1>2, <3>2, <3>3, <3>4, <3>5
  <2> QED BY <2>1, <1>8 DEF ScreenOf
<1> DEFINE h == History(rows, offset, first)
<1>10. /\ Len(h) = -first
       /\ \A i \in 1 .. -first : h[i] = Old(first + i - 1)
  BY <1>2, HistorySequence
<1> HIDE DEF h
<1>11. ASSUME NEW i \in 1 .. -f PROVE New(f + i - 1) = h[i]
  <2> DEFINE r == f + i - 1
  <2>1. /\ f = first + n /\ r \in R - N + n .. -1 /\ r - n = first + i - 1
        /\ i \in 1 .. -first
    BY <1>2, <1>5, <1>6
  <2>2. New(r) = Old(r - n)
    <3> HIDE DEF r
    <3> QED BY <2>1, <1>3 DEF LinesDown
  <2> QED BY <2>1, <2>2, <1>10
<1>12. History(rows', ofs, f) = [i \in 1 .. -f |-> h[i]]
  BY <1>11 DEF History
<1>13. 1 .. Len(h) - n = 1 .. -f
  <2>1. -f = (IF first + n > 0 THEN 0 ELSE (-first) - n)
    BY <1>2, <1>5, <1>6
  <2> QED BY <2>1, <1>2, <1>10
<1>14. HistoryLines' = [i \in 1 .. Len(HistoryLines) - n |-> HistoryLines[i]]
  BY <1>7, <1>12, <1>13 DEF h
<1> QED BY <1>9, <1>14 DEF Lines!ScrollReverse

(* A line that is written: the history keeps its lines.                    *)
LEMMA WriteImplements ==
  ASSUME SInv, NEW r \in 0 .. R - 1, NEW line \in {"blank", "prompt"},
         rows' = [rows EXCEPT ![ScreenRow(offset, r)] = line], offset' = offset
  PROVE  Lines!Write(r + 1, line)
<1>1. PICK first \in R - N .. 0 : InUse(rows, offset, first)
  BY DEF SInv, Fits
<1>2. /\ R \in Nat /\ N \in Nat /\ 0 < R /\ R < N /\ r \in Int /\ first \in Int
      /\ offset \in Ring /\ offset \in Int /\ rows \in [Ring -> Contents]
  BY Sizes DEF SInv, TypeOK, Contents, Ring
<1> DEFINE p == ScreenRow(offset, r)
<1>3. p \in Ring
  BY <1>2, RowInRing
<1>4. line \in Contents /\ line # Null
  BY ScreenAssumption DEF Contents
<1>5. ASSUME NEW x \in Int, x \in R - N .. R - 1
      PROVE  /\ ScreenRow(offset, x) \in Ring
             /\ x # r => ScreenRow(offset, x) # p
  <2>1. x - r < N /\ r - x < N
    BY <1>2, <1>5
  <2> QED BY <2>1, <1>2, RowInRing, RowsDiffer
<1>6. ASSUME NEW x \in Int, x \in R - N .. R - 1
      PROVE  rows'[ScreenRow(offset, x)] = IF x = r THEN line ELSE rows[ScreenRow(offset, x)]
  <2> HIDE DEF p
  <2>1. rows' = [rows EXCEPT ![p] = line]
    BY DEF p
  <2>2. CASE x = r
    BY <2>1, <2>2, <1>2, <1>3 DEF p
  <2>3. CASE x # r
    BY <2>1, <2>3, <1>2, <1>5, <1>6
  <2> QED BY <2>2, <2>3
<1>7. rows' \in [Ring -> Contents]
  BY <1>2, <1>4
<1>8. InUse(rows', offset, first)
  BY <1>1, <1>2, <1>4, <1>6 DEF InUse, AllLines
<1>9. History(rows', offset, first) = History(rows, offset, first)
  <2>1. ASSUME NEW i \in 1 .. -first
        PROVE  rows'[ScreenRow(offset, first + i - 1)] = rows[ScreenRow(offset, first + i - 1)]
    <3> DEFINE x == first + i - 1
    <3>1. x \in Int /\ x \in R - N .. R - 1 /\ x # r
      BY <1>2
    <3> HIDE DEF x
    <3>2. rows'[ScreenRow(offset, x)] = rows[ScreenRow(offset, x)]
      BY <3>1, <1>6
    <3> QED BY <3>2 DEF x
  <2> QED BY <2>1 DEF History
<1>10. HistoryLines' = HistoryLines
  <2>1. HistoryOf(rows, offset) = History(rows, offset, first)
    BY <1>1, <1>2, HistoryIs
  <2>2. HistoryOf(rows', offset) = History(rows', offset, first)
    BY <1>8, <1>2, HistoryIs
  <2> QED BY <2>1, <2>2, <1>9, LinesNow, LinesThen
<1>11. ScreenLines' = [ScreenLines EXCEPT ![r + 1] = line]
  <2>1. ASSUME NEW row \in 1 .. R
        PROVE  rows'[ScreenRow(offset, row - 1)]
                 = IF row = r + 1 THEN line ELSE rows[ScreenRow(offset, row - 1)]
    <3> DEFINE x == row - 1
    <3>1. x \in Int /\ x \in R - N .. R - 1 /\ (x = r <=> row = r + 1)
      BY <1>2
    <3> HIDE DEF x
    <3>2. rows'[ScreenRow(offset, x)] = IF x = r THEN line ELSE rows[ScreenRow(offset, x)]
      BY <3>1, <1>6
    <3> QED BY <3>1, <3>2 DEF x
  <2>2. ScreenLines' = [row \in 1 .. R |-> rows'[ScreenRow(offset, row - 1)]]
    BY LinesThen DEF ScreenOf
  <2>3. ScreenLines = [row \in 1 .. R |-> rows[ScreenRow(offset, row - 1)]]
    BY LinesNow DEF ScreenOf
  <2>4. r + 1 \in 1 .. R
    BY <1>2
  <2> QED BY <2>1, <2>2, <2>3, <2>4
<1> QED BY <1>10, <1>11 DEF Lines!Write

(* Without a line in use above the screen there is no history.             *)
LEMMA NoHistory == \A ring, ofs : History(ring, ofs, 0) = <<>>
<1> SUFFICES ASSUME NEW ring, NEW ofs PROVE History(ring, ofs, 0) = <<>>
  OBVIOUS
<1>1. 1 .. -0 = 1 .. 0
  OBVIOUS
<1>2. History(ring, ofs, 0) = [i \in 1 .. 0 |-> History(ring, ofs, 0)[i]]
  BY <1>1 DEF History
<1> QED BY <1>2, EmptyHistory

(* term_erase_scrollback() frees the lines above the screen.               *)
LEMMA EraseImplements ==
  ASSUME SInv, EraseScrollback
  PROVE  Lines!EraseHistory
<1> DEFINE last == N - R - 1
<1>1. PICK first \in R - N .. 0 : InUse(rows, offset, first)
  BY DEF SInv, Fits
<1>2. /\ R \in Nat /\ N \in Nat /\ 0 < R /\ R < N /\ first \in Int
      /\ offset \in Ring /\ offset \in Int /\ rows \in [Ring -> Contents]
      /\ rows' = [p \in Ring |-> IF AbsToSb(offset, p) <= last THEN Null ELSE rows[p]]
      /\ offset' = offset
  BY Sizes DEF SInv, TypeOK, Contents, Ring, EraseScrollback
<1>3. ASSUME NEW r \in AllLines
      PROVE  rows'[ScreenRow(offset, r)] = IF r < 0 THEN Null ELSE rows[ScreenRow(offset, r)]
  <2> DEFINE p == ScreenRow(offset, r)
  <2>1. r \in Int
    BY <1>2 DEF AllLines
  <2>2. p \in Ring /\ LineOf(offset, p) = r
    BY <1>2, <2>1, RowInRing, LineOfLine
  <2>3. AbsToSb(offset, p) = r + N - R
    BY <2>2, <1>2, LineIs
  <2>4. AbsToSb(offset, p) <= last <=> r < 0
    BY <2>1, <2>3, <1>2
  <2> HIDE DEF p, last
  <2>5. rows'[p] = IF AbsToSb(offset, p) <= last THEN Null ELSE rows[p]
    BY <1>2, <2>2
  <2> QED BY <2>4, <2>5 DEF p
<1>4. InUse(rows', offset, 0)
  <2>1. 0 \in R - N .. 0
    BY <1>2
  <2>2. ASSUME NEW r \in AllLines PROVE rows'[ScreenRow(offset, r)] # Null <=> r >= 0
    <3>1. r \in Int /\ (r >= 0 => r >= first)
      BY <1>2 DEF AllLines
    <3>2. rows[ScreenRow(offset, r)] # Null <=> r >= first
      BY <1>1 DEF InUse
    <3> QED BY <3>1, <3>2, <1>3
  <2> QED BY <2>1, <2>2 DEF InUse
<1>5. HistoryLines' = <<>>
  <2>1. HistoryOf(rows', offset) = History(rows', offset, 0)
    BY <1>4, <1>2, HistoryIs
  <2> QED BY <2>1, <1>2, NoHistory, LinesThen
<1>6. ScreenLines' = ScreenLines
  <2>1. ASSUME NEW row \in 1 .. R
        PROVE  rows'[ScreenRow(offset, row - 1)] = rows[ScreenRow(offset, row - 1)]
    <3>1. row - 1 \in AllLines /\ ~ (row - 1 < 0)
      BY <1>2 DEF AllLines
    <3> QED BY <3>1, <1>3
  <2>2. ScreenOf(rows', offset) = ScreenOf(rows, offset)
    BY <2>1 DEF ScreenOf
  <2> QED BY <2>2, <1>2, LinesNow, LinesThen
<1> QED BY <1>5, <1>6 DEF Lines!EraseHistory

(* The ring of a terminal that starts: no history, a blank screen.         *)
LEMMA FreshLines ==
  LET fresh == [p \in Ring |-> IF p < R THEN "blank" ELSE Null]
  IN HistoryOf(fresh, 0) = <<>> /\ ScreenOf(fresh, 0) = Lines!Blanks(R)
<1> DEFINE fresh == [p \in Ring |-> IF p < R THEN "blank" ELSE Null]
<1>1. R \in Nat /\ N \in Nat /\ 0 < R /\ R < N /\ 0 \in Ring
  BY Sizes DEF Ring
<1>2. HistoryOf(fresh, 0) = <<>>
  <2>1. InUse(fresh, 0, 0)
    BY FreshInUse
  <2> HIDE DEF fresh
  <2>2. HistoryOf(fresh, 0) = History(fresh, 0, 0)
    BY <1>1, <2>1, HistoryIs
  <2> QED BY <2>2, NoHistory
<1>3. ASSUME NEW row \in 1 .. R PROVE fresh[ScreenRow(0, row - 1)] = "blank"
  <2> DEFINE r == row - 1
  <2>1. r \in Ring /\ r < R /\ 0 + r = r /\ r \in Int
    BY <1>1 DEF Ring
  <2> HIDE DEF r
  <2>2. ScreenRow(0, r) = r
    BY <2>1, MaskIs DEF ScreenRow
  <2>3. fresh[r] = "blank"
    BY <2>1
  <2> HIDE DEF fresh
  <2> QED BY <2>2, <2>3 DEF r
<1>4. ScreenOf(fresh, 0) = Lines!Blanks(R)
  BY <1>3 DEF ScreenOf, Lines!Blanks
<1> QED BY <1>2, <1>4

(* term_reset() is a Reset of the two sequences.                           *)
LEMMA ResetImplements == Reset => Lines!Reset
<1> SUFFICES ASSUME Reset PROVE Lines!Reset
  OBVIOUS
<1>1. /\ rows' = [p \in Ring |-> IF p < R THEN "blank" ELSE Null] /\ offset' = 0
  BY DEF Reset
<1> QED BY <1>1, FreshLines, LinesThen DEF Lines!Reset

(* A terminal starts without history, with a blank screen.                 *)
LEMMA InitImplements == Init => Lines!Init
<1> SUFFICES ASSUME Init PROVE Lines!Init
  OBVIOUS
<1>1. /\ rows = [p \in Ring |-> IF p < R THEN "blank" ELSE Null] /\ offset = 0
  BY DEF Init
<1> QED BY <1>1, FreshLines, LinesNow DEF Lines!Init

(* Every other step leaves the ring and the screen's place in it alone.    *)
LEMMA OthersImplement ==
  ASSUME rows' = rows, offset' = offset
  PROVE  UNCHANGED <<HistoryLines, ScreenLines>>
BY LinesNow, LinesThen

(* Every step is a step of the history and the screen, or leaves both      *)
(* alone.                                                                  *)
LEMMA StepImplements ==
  ASSUME SInv, [Next]_vars
  PROVE  [Lines!Next]_<<HistoryLines, ScreenLines>>
<1>1. CASE \E top \in 0 .. R - 1 : \E bottom \in top + 1 .. R : \E n \in 1 .. bottom - top :
             Scroll(top, bottom, n) \/ ScrollReverse(top, bottom, n)
  <2>1. PICK top \in 0 .. R - 1 : \E bottom \in top + 1 .. R : \E n \in 1 .. bottom - top :
               Scroll(top, bottom, n) \/ ScrollReverse(top, bottom, n)
    BY <1>1
  <2>a. PICK bottom \in top + 1 .. R : \E n \in 1 .. bottom - top :
               Scroll(top, bottom, n) \/ ScrollReverse(top, bottom, n)
    BY <2>1
  <2>b. PICK n \in 1 .. bottom - top : Scroll(top, bottom, n) \/ ScrollReverse(top, bottom, n)
    BY <2>a
  <2>2. IsRegion(top, bottom, n)
    BY DEF IsRegion
  <2>3. Lines!Scroll(top, bottom, n) \/ Lines!ScrollReverse(top, bottom, n)
    BY <2>b, <2>2, ScrollImplements, ReverseImplements
  <2> QED BY <2>3 DEF Lines!Next
<1>2. CASE EraseScrollback
  BY <1>2, EraseImplements DEF Lines!Next
<1>3. CASE \E r \in 0 .. R - 1 : MarkPrompt(r) \/ EraseLine(r)
  <2>1. PICK r \in 0 .. R - 1 : MarkPrompt(r) \/ EraseLine(r)
    BY <1>3
  <2>2. offset' = offset
    BY <2>1 DEF MarkPrompt, EraseLine
  <2>3. \E line \in {"blank", "prompt"} : rows' = [rows EXCEPT ![ScreenRow(offset, r)] = line]
    BY <2>1 DEF MarkPrompt, EraseLine
  <2>4. \E line \in {"blank", "prompt"} : Lines!Write(r + 1, line)
    BY <2>2, <2>3, WriteImplements
  <2>5. r + 1 \in 1 .. R
    BY Sizes
  <2> QED BY <2>4, <2>5 DEF Lines!Next
<1>4. CASE Reset
  BY <1>4, ResetImplements DEF Lines!Next
<1>5. CASE SwitchScreen
  BY <1>5, OthersImplement DEF SwitchScreen
<1>6. CASE ViewMoves
  BY <1>6, OthersImplement
     DEF ViewMoves, ScrollbackUp, ScrollbackDown, PromptPrev, PromptNext, KeyInput
<1>7. CASE Selecting
  BY <1>7, OthersImplement
     DEF Selecting, SelectStart, SelectUpdate, SelectExtend, AutoScroll, SelectFinalize
<1>8. CASE Modes
  BY <1>8, OthersImplement
     DEF Modes, SearchBegin, SearchFind, SearchCancel, SearchCommit, UrlsBegin, UrlsEnd, MousePress
<1>9. CASE UNCHANGED vars
  BY <1>9, OthersImplement DEF vars
<1> QED BY <1>1, <1>2, <1>3, <1>4, <1>5, <1>6, <1>7, <1>8, <1>9 DEF Next, Output

(* The ring, its offset and its wrapping implement the two sequences of    *)
(* module Scrollback: no line of the history is lost, doubled or moved     *)
(* beyond the rotation of a block, for every size of the ring and of the   *)
(* screen (grid.c, term_scroll_partial(), term_scroll_reverse_partial()).  *)
THEOREM TheHistoryIsKept == Spec => ImplementsScrollback
<1>1. Spec => []SInv
  BY ScreenInvariant
<1>2. Init => Lines!Init
  BY InitImplements
<1>3. SInv /\ [Next]_vars => [Lines!Next]_<<HistoryLines, ScreenLines>>
  BY StepImplements
<1> QED BY <1>1, <1>2, <1>3, PTL DEF Spec, ImplementsScrollback, Lines!Spec

=============================================================================
