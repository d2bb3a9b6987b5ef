-------------------------- MODULE MultiDisplayProofs --------------------------
(***************************************************************************)
(* Proofs about the display composer, for every number of binder threads,  *)
(* notifiers and link checks, all monitors, videos and clients, and calls  *)
(* without a bound.                                                        *)
(*                                                                         *)
(* Base says who holds mLock and where the threads are.  Sound says, for   *)
(* every place where the operation that holds mLock may be, what mMode has *)
(* to do with the panel, the audio driver, HDMI and what listeners were    *)
(* told; it holds until notifyWidi loses an update of mMode.               *)
(*                                                                         *)
(* The choice of a timing (DrmHdmi) comes first, for every list of modes.  *)
(* The library's rule of induction takes a predicate as a parameter.  Here *)
(* an induction is carried out on a least counterexample (LeastNat), which *)
(* is how the fold of Largest is unfolded over a list of any length.       *)
(***************************************************************************)
EXTENDS MultiDisplay, TLAPS, WellFoundedInduction

-----------------------------------------------------------------------------
(* Least and greatest elements.                                            *)

LEMMA LeastNat ==
    ASSUME NEW S \in SUBSET Nat, S # {}
    PROVE  \E n \in S : \A m \in S : n <= m
<1>1. PICK n \in S : \A m \in S : <<m, n>> \notin OpToRel(<, Nat)
  BY NatLessThanWellFounded, WFMin
<1>2. \A m \in S : ~(m < n)
  BY <1>1 DEF OpToRel
<1> QED
  BY <1>2

LEMMA MinIs ==
    ASSUME NEW S \in SUBSET Nat, S # {}
    PROVE  Min(S) \in S /\ \A m \in S : Min(S) <= m
BY LeastNat DEF Min

LEMMA MaxIs ==
    ASSUME NEW n \in Nat, NEW S \in SUBSET (0..n), S # {}
    PROVE  Max(S) \in S /\ \A m \in S : Max(S) >= m
<1>0. \A m \in S : m \in 0..n /\ n - m \in Nat
  OBVIOUS
<1> DEFINE T == {k \in Nat : \E m \in S : k = n - m}
<1>1. T # {}
  BY <1>0
<1>2. PICK t \in T : \A u \in T : t <= u
  <2> HIDE DEF T
  <2>1. T \in SUBSET Nat
    BY DEF T
  <2> QED
    BY <1>1, <2>1, LeastNat
<1>3. PICK m \in S : t = n - m
  BY <1>2
<1>4. \A u \in S : m >= u
  <2> SUFFICES ASSUME NEW u \in S PROVE m >= u
    OBVIOUS
  <2>1. n - u \in T
    BY <1>0
  <2>2. n - m <= n - u
    BY <1>2, <1>3, <2>1
  <2> QED
    BY <1>0, <2>2
<1> QED
  BY <1>4 DEF Max


\* The set without its largest element is that much smaller.
LEMMA WithoutMax ==
    ASSUME NEW k \in Nat, NEW s \in SUBSET (1..(k + 1)), s # {}
    PROVE  Max(s) \in s /\ s \ {Max(s)} \in SUBSET (1..k)
<1>1. k + 1 \in Nat /\ s \in SUBSET (0..(k + 1))
  OBVIOUS
<1>2. Max(s) \in s /\ \A m \in s : Max(s) >= m
  BY <1>1, MaxIs
<1>3. PICK x \in s : x = Max(s) /\ \A m \in s : x >= m
  BY <1>2
<1>4. \A m \in s : m \in 1..(k + 1) /\ (m # x => m \in 1..k)
  BY <1>3
<1> QED
  BY <1>3, <1>4

LEMMA MaxSegment ==
    ASSUME NEW k \in Nat
    PROVE  Max(1..(k + 1)) = k + 1 /\ 1..(k + 1) \ {k + 1} = 1..k
<1>1. k + 1 \in Nat /\ 1..(k + 1) \in SUBSET (0..(k + 1)) /\ 1..(k + 1) # {}
  OBVIOUS
<1>2. Max(1..(k + 1)) \in 1..(k + 1) /\ \A m \in 1..(k + 1) : Max(1..(k + 1)) >= m
  BY <1>1, MaxIs
<1>3. k + 1 \in 1..(k + 1)
  OBVIOUS
<1>4. Max(1..(k + 1)) = k + 1
  BY <1>2, <1>3
<1> QED
  BY <1>4

-----------------------------------------------------------------------------
(* The monitor's own choice.                                               *)

\* The loop of drm_select_preferredmode comes to a mode it has looked at, or to none (0).
LEMMA LargestIs ==
    ASSUME NEW M \in Seq(DrmMode), NEW n \in 0..Len(M)
    PROVE  Largest(M, n) \in 0..n
<1> DEFINE st(best, i) ==
          IF M[i].r # PREFERRED_VREFRESH THEN best
          ELSE IF M[i].w > best.w /\ M[i].h > best.h
               THEN [index |-> i, w |-> M[i].w, h |-> M[i].h]
          ELSE IF M[i].w = best.w /\ M[i].h = best.h /\ drm_is_preferred_flags(M[i])
               THEN [best EXCEPT !.index = i]
          ELSE best
       base == [index |-> 0, w |-> 0, h |-> 0]
       id == [i \in DOMAIN SubSeq(M, 1, n) |-> i]
       F(g, s) == IF s = {} THEN base ELSE LET x == Max(s) IN st(g[s \ {x}], id[x])
       it == CHOOSE g : g = [s \in SUBSET (DOMAIN id) |-> F(g, s)]
<1>1. DOMAIN id = 1..n /\ \A i \in 1..n : id[i] = i
  OBVIOUS
<1>2. Largest(M, n) = it[DOMAIN id].index
  BY DEF Largest, FoldLeftDomain, FoldLeft, MapThenFoldSet
<1> HIDE DEF st, base, id
<1> DEFINE Unfolds(k) == \E g : g = [s \in SUBSET (1..k) |-> F(g, s)]
<1>3. Unfolds(0)
  <2> DEFINE g == [s \in SUBSET (1..0) |-> base]
  <2>1. SUBSET (1..0) = {{}}
    OBVIOUS
  <2>2. g = [s \in SUBSET (1..0) |-> F(g, s)]
    BY <2>1
  <2> QED
    BY <2>2
<1>4. ASSUME NEW k \in Nat, Unfolds(k) PROVE Unfolds(k + 1)
  <2>1. PICK g : g = [s \in SUBSET (1..k) |-> F(g, s)]
    BY <1>4
  <2> DEFINE f == [s \in SUBSET (1..(k + 1)) |-> F(g, s)]
  <2>2. \A s \in SUBSET (1..k) : f[s] = g[s]
    <3> HIDE DEF F
    <3>1. \A s \in SUBSET (1..k) : s \in SUBSET (1..(k + 1))
      OBVIOUS
    <3> QED
      BY <2>1, <3>1
  <2>3. \A s \in SUBSET (1..(k + 1)) : F(f, s) = F(g, s)
    <3> SUFFICES ASSUME NEW s \in SUBSET (1..(k + 1)), s # {} PROVE F(f, s) = F(g, s)
      OBVIOUS
    <3>1. f[s \ {Max(s)}] = g[s \ {Max(s)}]
      <4> HIDE DEF f
      <4> QED
        BY <2>2, WithoutMax
    <3> HIDE DEF f
    <3> QED
      BY <3>1
  <2>4. f = [s \in SUBSET (1..(k + 1)) |-> F(f, s)]
    <3> DEFINE G(s) == F(f, s)
    <3>1. \A s \in SUBSET (1..(k + 1)) : G(s) = F(g, s)
      BY <2>3
    <3> HIDE DEF F, G
    <3>2. f = [s \in SUBSET (1..(k + 1)) |-> G(s)]
      BY <3>1
    <3> QED
      BY <3>2 DEF G
  <2> HIDE DEF f, F
  <2> QED
    BY <2>4
<1>5. Unfolds(n)
  <2> DEFINE bad == {k \in Nat : ~Unfolds(k)}
  <2> HIDE DEF Unfolds
  <2> SUFFICES ASSUME bad # {} PROVE FALSE
    OBVIOUS
  <2>1. PICK k \in bad : \A m \in bad : k <= m
    <3>1. bad \in SUBSET Nat
      OBVIOUS
    <3> HIDE DEF bad
    <3> QED
      BY <3>1, LeastNat
  <2>2. k # 0 /\ k - 1 \in Nat
    BY <1>3, <2>1
  <2>3. ~Unfolds(k) /\ Unfolds(k - 1)
    BY <2>1, <2>2
  <2> QED
    BY <1>4, <2>2, <2>3
<1>6. it = [s \in SUBSET (1..n) |-> F(it, s)]
  <2> HIDE DEF F
  <2> QED
    BY <1>1, <1>5
<1> HIDE DEF it
<1>7. it[1..0] = base
  <2>1. 1..0 \in SUBSET (1..n) /\ 1..0 = {}
    OBVIOUS
  <2>2. it[1..0] = F(it, 1..0)
    <3> HIDE DEF F
    <3> QED
      BY <1>6, <2>1
  <2> QED
    BY <2>1, <2>2
<1>8. ASSUME NEW k \in Nat, k + 1 <= n PROVE it[1..(k + 1)] = st(it[1..k], k + 1)
  <2>1. k + 1 \in 1..n /\ 1..(k + 1) \in SUBSET (1..n) /\ k + 1 \in 1..(k + 1)
    BY <1>8
  <2>2. it[1..(k + 1)] = F(it, 1..(k + 1))
    <3> HIDE DEF F
    <3> QED
      BY <1>6, <2>1
  <2>3. id[k + 1] = k + 1 /\ 1..(k + 1) # {}
    BY <1>1, <2>1
  <2> QED
    BY <2>2, <2>3, MaxSegment
<1> HIDE DEF F
<1> DEFINE In(k) == it[1..k] \in [index : 0..k, w : Nat, h : Nat]
<1>9. In(0)
  BY <1>7 DEF base
<1>10. ASSUME NEW k \in Nat, k + 1 <= n, In(k) PROVE In(k + 1)
  <2>1. M[k + 1] \in DrmMode
    BY <1>10
  <2>2. it[1..(k + 1)] = st(it[1..k], k + 1)
    BY <1>8, <1>10
  <2>3. st(it[1..k], k + 1) \in [index : 0..(k + 1), w : Nat, h : Nat]
    <3>1. k + 1 \in 0..(k + 1) /\ \A j \in 0..k : j \in 0..(k + 1)
      OBVIOUS
    <3>2. it[1..k] \in [index : 0..(k + 1), w : Nat, h : Nat]
      BY <1>10, <3>1
    <3> QED
      BY <2>1, <3>1, <3>2 DEF st, DrmMode
  <2> QED
    BY <2>2, <2>3
<1>11. In(n)
  <2> DEFINE bad == {k \in 0..n : ~In(k)}
  <2> HIDE DEF In
  <2> SUFFICES ASSUME bad # {} PROVE FALSE
    OBVIOUS
  <2>1. PICK k \in bad : \A m \in bad : k <= m
    <3>1. bad \in SUBSET Nat
      OBVIOUS
    <3> HIDE DEF bad
    <3> QED
      BY <3>1, LeastNat
  <2>2. k # 0 /\ k - 1 \in Nat /\ k - 1 \in 0..n
    BY <1>9, <2>1
  <2>3. ~In(k) /\ In(k - 1)
    BY <2>1, <2>2
  <2> QED
    BY <1>10, <2>1, <2>2, <2>3
<1> QED
  BY <1>1, <1>2, <1>11

LEMMA FirstOrWideIn ==
    ASSUME NEW M, NEW n \in Nat, NEW S \in SUBSET (1..n), S # {}
    PROVE  FirstOrWide(M, S) \in S
<1> DEFINE wide == {i \in S \ {Min(S)} : drm_is_preferred_flags(M[i])}
<1>1. S \in SUBSET Nat /\ wide \in SUBSET (0..n) /\ wide \in SUBSET S
  <2>1. \A i \in 1..n : i \in Nat /\ i \in 0..n
    OBVIOUS
  <2> QED
    BY <2>1
<1>2. Min(S) \in S
  BY <1>1, MinIs
<1>3. wide # {} => Max(wide) \in wide
  <2> HIDE DEF wide
  <2> QED
    BY <1>1, MaxIs
<1> QED
  BY <1>1, <1>2, <1>3 DEF FirstOrWide

LEMMA PreferredIn ==
    ASSUME NEW M \in Seq(DrmMode), Len(M) # 0
    PROVE  drm_select_preferredmode(M) \in 1..Len(M)
<1> DEFINE marked == {i \in DOMAIN M : M[i].preferred}
           own == {i \in marked : i = Min(marked) /\ M[i].r = PREFERRED_VREFRESH}
           scanned == IF marked = {} THEN DOMAIN M ELSE 1..(Min(marked) - 1)
           Sized(w, h) == {i \in scanned : M[i].w = w /\ M[i].h = h
                                           /\ M[i].r = PREFERRED_VREFRESH}
           largest == Largest(M, Max({0} \cup scanned))
<1>1. DOMAIN M = 1..Len(M) /\ Len(M) \in Nat
  OBVIOUS
<1>2. own \in SUBSET (1..Len(M)) /\ own \in SUBSET Nat
  BY <1>1
<1>3. own # {} => Min(own) \in own
  <2> HIDE DEF own
  <2> QED
    BY <1>2, MinIs
<1>4. scanned \in SUBSET (1..Len(M))
  <2>1. CASE marked = {}
    BY <1>1, <2>1
  <2>2. CASE marked # {}
    <3>1. marked \in SUBSET Nat /\ marked \in SUBSET (1..Len(M))
      BY <1>1
    <3>2. Min(marked) \in marked
      <4> HIDE DEF marked
      <4> QED
        BY <2>2, <3>1, MinIs
    <3>3. PICK m \in 1..Len(M) : m = Min(marked)
      BY <3>1, <3>2
    <3>4. 1..(m - 1) \in SUBSET (1..Len(M))
      BY <1>1
    <3> HIDE DEF marked
    <3> QED
      BY <2>2, <3>3, <3>4
  <2> QED
    BY <2>1, <2>2
<1> HIDE DEF marked, scanned
<1>5. \A w, h : Sized(w, h) # {} => FirstOrWide(M, Sized(w, h)) \in 1..Len(M)
  <2> SUFFICES ASSUME NEW w, NEW h, Sized(w, h) # {}
               PROVE  FirstOrWide(M, Sized(w, h)) \in 1..Len(M)
    OBVIOUS
  <2>1. Sized(w, h) \in SUBSET (1..Len(M))
    BY <1>4
  <2> HIDE DEF Sized
  <2> QED
    BY <1>1, <2>1, FirstOrWideIn
<1>6. largest \in 0..Len(M)
  <2>1. {0} \cup scanned \in SUBSET (0..Len(M))
    BY <1>1, <1>4
  <2>2. Max({0} \cup scanned) \in 0..Len(M)
    BY <1>1, <2>1, MaxIs
  <2>3. PICK n \in 0..Len(M) : n = Max({0} \cup scanned)
    BY <2>2
  <2>4. Largest(M, n) \in 0..n
    BY <2>3, LargestIs
  <2> QED
    BY <1>1, <2>3, <2>4
<1> HIDE DEF Sized, largest
<1>7. drm_select_preferredmode(M) =
        CASE own # {} -> Min(own)
          [] own = {} /\ Sized(1920, 1080) # {} -> FirstOrWide(M, Sized(1920, 1080))
          [] own = {} /\ Sized(1920, 1080) = {} /\ Sized(1280, 720) # {} ->
                 FirstOrWide(M, Sized(1280, 720))
          [] OTHER -> IF largest = 0 THEN 1 ELSE largest
  BY DEF drm_select_preferredmode, marked, scanned, Sized, largest
<1> HIDE DEF own
<1>8. (IF largest = 0 THEN 1 ELSE largest) \in 1..Len(M)
  BY <1>1, <1>6
<1> QED
  BY <1>2, <1>3, <1>5, <1>7, <1>8

-----------------------------------------------------------------------------
(* The mode for a video.                                                   *)

LEMMA ModeFields ==
    ASSUME NEW M \in Seq(DrmMode), NEW i \in 1..Len(M)
    PROVE  /\ M[i].w \in Nat /\ M[i].h \in Nat /\ M[i].r \in Nat
           /\ M[i].inter \in BOOLEAN /\ M[i].wide \in BOOLEAN
<1>1. M[i] \in DrmMode
  OBVIOUS
<1> QED
  BY <1>1 DEF DrmMode

\* Of some modes there is one with the highest refresh rate.
LEMMA FastestExists ==
    ASSUME NEW M \in Seq(DrmMode), NEW S \in SUBSET (1..Len(M)), S # {}
    PROVE  \E i \in S : \A j \in S : M[j].r <= M[i].r
<1> DEFINE Has(k) == \A T \in SUBSET (1..k) :
                        T # {} => \E i \in T : \A j \in T : M[j].r <= M[i].r
<1>1. Has(0)
  <2>1. 1..0 = {}
    OBVIOUS
  <2> QED
    BY <2>1
<1>2. ASSUME NEW k \in Nat, k + 1 <= Len(M), Has(k) PROVE Has(k + 1)
  <2> SUFFICES ASSUME NEW T \in SUBSET (1..(k + 1)), T # {}
               PROVE  \E i \in T : \A j \in T : M[j].r <= M[i].r
    OBVIOUS
  <2>1. \A j \in T : M[j].r \in Nat
    <3>1. \A j \in T : j \in 1..Len(M)
      BY <1>2
    <3> QED
      BY <3>1, ModeFields
  <2>2. T \ {k + 1} \in SUBSET (1..k)
    OBVIOUS
  <2>3. CASE T \ {k + 1} = {}
    <3>1. T = {k + 1}
      BY <2>3
    <3> QED
      BY <2>1, <3>1
  <2>4. CASE T \ {k + 1} # {}
    <3>1. PICK i \in T \ {k + 1} : \A j \in T \ {k + 1} : M[j].r <= M[i].r
      BY <1>2, <2>2, <2>4
    <3>2. CASE k + 1 \notin T \/ M[k + 1].r <= M[i].r
      BY <3>1, <3>2
    <3>3. CASE k + 1 \in T /\ ~(M[k + 1].r <= M[i].r)
      <4>1. \A j \in T \ {k + 1} : M[j].r <= M[k + 1].r
        BY <2>1, <3>1, <3>3
      <4>2. M[k + 1].r <= M[k + 1].r
        BY <2>1, <3>3
      <4> QED
        BY <3>3, <4>1, <4>2
    <3> QED
      BY <3>2, <3>3
  <2> QED
    BY <2>3, <2>4
<1>3. Has(Len(M))
  <2> DEFINE bad == {k \in 0..Len(M) : ~Has(k)}
  <2> HIDE DEF Has
  <2> SUFFICES ASSUME bad # {} PROVE FALSE
    OBVIOUS
  <2>1. PICK k \in bad : \A m \in bad : k <= m
    <3>1. bad \in SUBSET Nat
      OBVIOUS
    <3> HIDE DEF bad
    <3> QED
      BY <3>1, LeastNat
  <2>2. k # 0 /\ k - 1 \in Nat /\ k - 1 \in 0..Len(M)
    BY <1>1, <2>1
  <2>3. ~Has(k) /\ Has(k - 1)
    BY <2>1, <2>2
  <2>4. k - 1 + 1 = k /\ k <= Len(M)
    BY <2>1
  <2> QED
    BY <1>2, <2>2, <2>3, <2>4
<1> QED
  BY <1>3

LEMMA FastestIn ==
    ASSUME NEW M \in Seq(DrmMode), NEW S \in SUBSET (1..Len(M)), S # {}
    PROVE  Fastest(M, S) \in S
<1> DEFINE top == {i \in S : \A j \in S : M[j].r <= M[i].r}
           wide == {i \in top : drm_is_preferred_flags(M[i])}
<1>1. top # {}
  BY FastestExists
<1>2. top \in SUBSET Nat /\ wide \in SUBSET (0..Len(M)) /\ Len(M) \in Nat
  <2>1. Len(M) \in Nat /\ \A i \in 1..Len(M) : i \in Nat /\ i \in 0..Len(M)
    OBVIOUS
  <2>2. \A i \in S : i \in Nat /\ i \in 0..Len(M)
    BY <2>1
  <2> QED
    BY <2>1, <2>2
<1>3. top \in SUBSET S /\ wide \in SUBSET S
  OBVIOUS
<1>4. Fastest(M, S) = IF wide = {} THEN Min(top) ELSE Max(wide)
  BY DEF Fastest
<1> HIDE DEF top, wide
<1>5. Min(top) \in top /\ (wide # {} => Max(wide) \in wide)
  BY <1>1, <1>2, MinIs, MaxIs
<1> QED
  BY <1>3, <1>4, <1>5

\* A mode that divides evenly, or none; one if there is one that counts.
LEMMA BestMultipleIs ==
    ASSUME NEW M \in Seq(DrmMode), NEW S \in SUBSET (1..Len(M)), NEW r \in Nat
    PROVE  /\ \/ BestMultiple(M, S, r) = 0
              \/ /\ BestMultiple(M, S, r) \in S /\ r # 0
                 /\ M[BestMultiple(M, S, r)].r % r = 0
           /\ \A i \in S : r # 0 /\ M[i].r % r = 0 /\ (M[i].r # r \/ drm_is_preferred_flags(M[i]))
                           => BestMultiple(M, S, r) # 0
<1> DEFINE multiples == {i \in S : r # 0 /\ M[i].r % r = 0}
           exact == {i \in multiples : M[i].r = r /\ drm_is_preferred_flags(M[i])}
           proper == {i \in multiples : M[i].r # r}
           top == {i \in proper : \A j \in proper : M[j].r <= M[i].r}
<1>1. \A i \in S : i \in Nat /\ i # 0
  OBVIOUS
<1>2. exact \in SUBSET Nat /\ top \in SUBSET Nat /\ proper \in SUBSET (1..Len(M))
  BY <1>1
<1>3. exact \in SUBSET multiples /\ top \in SUBSET multiples
  OBVIOUS
<1>4. proper # {} => top # {}
  <2> HIDE DEF proper
  <2> QED
    BY <1>2, FastestExists
<1>5. BestMultiple(M, S, r) = CASE exact # {} -> Min(exact)
                                [] exact = {} /\ proper # {} -> Min(top)
                                [] OTHER -> 0
  BY DEF BestMultiple
<1>6. \A i \in S : r # 0 /\ M[i].r % r = 0 /\ (M[i].r # r \/ drm_is_preferred_flags(M[i]))
                   => exact # {} \/ proper # {}
  OBVIOUS
<1>7. \A i \in multiples : i \in S /\ i # 0 /\ r # 0 /\ M[i].r % r = 0
  BY <1>1
<1> HIDE DEF exact, proper, top, multiples
<1>8. (exact # {} => Min(exact) \in multiples) /\ (proper # {} => Min(top) \in multiples)
  BY <1>2, <1>3, <1>4, MinIs
<1> QED
  BY <1>5, <1>6, <1>7, <1>8

AVideo == [w : Nat, h : Nat, r : Nat]

\* What divides evenly and counts as a multiple of the video's rate.
Multiple(M, i, r) == r # 0 /\ M[i].r % r = 0 /\ (M[i].r # r \/ drm_is_preferred_flags(M[i]))

LEMMA VideoModeIs ==
    ASSUME NEW M \in Seq(DrmMode), NEW v \in AVideo, NEW p \in 1..Len(M)
    PROVE  /\ VideoMode(M, v, p) \in 1..Len(M)
           /\ Matched(M, v) # {} => VideoMode(M, v, p) \in Matched(M, v)
           /\ (\E j \in Matched(M, v) : Multiple(M, j, v.r)) => M[VideoMode(M, v, p)].r % v.r = 0
<1> DEFINE S == Matched(M, v)
           best == BestMultiple(M, S, v.r)
<1>1. S \in SUBSET (1..Len(M)) /\ v.r \in Nat
  BY DEF Matched, AVideo
<1>2. VideoMode(M, v, p) = CASE S = {} -> p
                             [] S # {} /\ best # 0 -> best
                             [] OTHER -> Fastest(M, S)
  BY DEF VideoMode
<1>3. S # {} => Fastest(M, S) \in S
  <2> HIDE DEF S
  <2> QED
    BY <1>1, FastestIn
<1>4. /\ best # 0 => best \in S /\ M[best].r % v.r = 0
      /\ (\E j \in S : Multiple(M, j, v.r)) => best # 0
  <2> HIDE DEF S
  <2> QED
    BY <1>1, BestMultipleIs DEF Multiple
<1> HIDE DEF S, best
<1>5. /\ VideoMode(M, v, p) \in 1..Len(M)
      /\ S # {} => VideoMode(M, v, p) \in S
      /\ (\E j \in S : Multiple(M, j, v.r)) => M[VideoMode(M, v, p)].r % v.r = 0
  BY <1>1, <1>2, <1>3, <1>4
<1> QED
  BY <1>5 DEF S

-----------------------------------------------------------------------------
(* The timing for a mode.                                                  *)

\* The modes without the repeated ones have the timings of all.
LEMMA AllTimings ==
    ASSUME NEW M \in Seq(DrmMode), NEW i \in 1..Len(M)
    PROVE  drm_hdmi_setTiming(M[i]) \in drm_hdmi_getModeInfo(M)
<1> DEFINE same == {j \in 1..Len(M) : drm_hdmi_setTiming(M[j]) = drm_hdmi_setTiming(M[i])}
<1> HIDE DEF drm_hdmi_setTiming
<1>1. same \in SUBSET Nat /\ i \in same
  OBVIOUS
<1>2. PICK j \in same : \A k \in same : j <= k
  <2> HIDE DEF same
  <2> QED
    BY <1>1, LeastNat
<1>3. \A k \in 1..(j - 1) : k \in 1..Len(M) /\ ~(j <= k)
  OBVIOUS
<1>4. \A k \in 1..(j - 1) : drm_hdmi_setTiming(M[k]) # drm_hdmi_setTiming(M[j])
  BY <1>2, <1>3
<1>5. j \in DOMAIN M /\ drm_hdmi_setTiming(M[j]) = drm_hdmi_setTiming(M[i])
  OBVIOUS
<1> QED
  BY <1>4, <1>5 DEF drm_hdmi_getModeInfo

HDMITiming == [w : Nat, h : Nat, r : Nat, inter : BOOLEAN, wide : BOOLEAN]

LEMMA TimingTyped ==
    ASSUME NEW M \in Seq(DrmMode)
    PROVE  /\ \A i \in 1..Len(M) : drm_hdmi_setTiming(M[i]) \in HDMITiming
           /\ drm_hdmi_getModeInfo(M) \subseteq HDMITiming
<1>1. \A i \in 1..Len(M) : drm_hdmi_setTiming(M[i]) \in HDMITiming
  BY ModeFields DEF HDMITiming, drm_hdmi_setTiming
<1>2. DOMAIN M = 1..Len(M)
  OBVIOUS
<1> HIDE DEF drm_hdmi_setTiming, HDMITiming
<1> QED
  BY <1>1, <1>2 DEF drm_hdmi_getModeInfo

-----------------------------------------------------------------------------
(* The DRM context.                                                        *)

\* While a monitor is connected its connector is held, and it is the product that was
\* read last; a selected mode is one of that product.  A read of the connection that
\* comes between the two halves of another finds a connector, and uses that.
DrmInv ==
    /\ cable \in Monitor \cup {NoMonitor}
    /\ drm \in [conn : Monitor \cup {NoMonitor, NULL}, connected : BOOLEAN,
                product : Monitor \cup {NoMonitor}, modeValid : BOOLEAN, selected : HDMITiming]
    /\ drm.connected => drm.conn \in Monitor /\ drm.product = drm.conn
    /\ drm.modeValid => /\ drm.product \in Monitor
                        /\ drm.selected \in drm_hdmi_getModeInfo(Modes[drm.product])

LEMMA DrmInit == drm_init => DrmInv
<1>1. NoTiming \in HDMITiming
  BY DEF NoTiming, HDMITiming
<1> QED
  BY <1>1 DEF drm_init, DrmInv

LEMMA DrmReset == DrmInv /\ drm' = connectionReset /\ UNCHANGED cable => DrmInv'
BY DEF DrmInv, connectionReset

LEMMA DrmRead ==
    ASSUME DrmInv, NEW readable \in BOOLEAN, drm' = connectionRead(readable), UNCHANGED cable
    PROVE  DrmInv'
<1> DEFINE conn == getHdmiConnector
<1>1. conn \in Monitor \cup {NoMonitor} /\ (drm.connected => conn = drm.conn)
  BY MonitorAssumption DEF DrmInv, getHdmiConnector
<1>2. drm' = IF conn = NoMonitor \/ ~readable THEN [drm EXCEPT !.conn = conn]
             ELSE [drm EXCEPT !.conn = conn, !.connected = TRUE, !.product = conn,
                              !.modeValid = @ /\ drm.product = conn]
  BY DEF connectionRead
<1> HIDE DEF conn
<1>3. CASE conn = NoMonitor \/ ~readable
  <2>1. drm' = [drm EXCEPT !.conn = conn]
    BY <1>2, <1>3
  <2> QED
    BY <1>1, <2>1 DEF DrmInv
<1>4. CASE ~(conn = NoMonitor \/ ~readable)
  <2>1. drm' = [drm EXCEPT !.conn = conn, !.connected = TRUE, !.product = conn,
                           !.modeValid = @ /\ drm.product = conn]
    BY <1>2, <1>4
  <2>2. conn \in Monitor
    BY <1>1, <1>4
  <2> QED
    BY <2>1, <2>2 DEF DrmInv
<1> QED
  BY <1>3, <1>4

LEMMA DrmSelect ==
    ASSUME DrmInv, drm.product # NoMonitor, NEW m \in drm_hdmi_getModeInfo(Modes[drm.product]),
           drm' = drm_hdmi_setModeInfo(m), UNCHANGED cable
    PROVE  DrmInv'
<1>1. drm.product \in Monitor /\ Modes[drm.product] \in Seq(DrmMode)
  BY MonitorAssumption DEF DrmInv
<1>2. m \in HDMITiming
  BY <1>1, TimingTyped
<1>3. CASE ~drm.connected
  BY <1>3 DEF DrmInv, drm_hdmi_setModeInfo
<1>4. CASE drm.connected
  <2>1. drm' = [drm EXCEPT !.modeValid = TRUE, !.selected = m]
    BY <1>4 DEF drm_hdmi_setModeInfo
  <2> QED
    BY <1>1, <1>2, <2>1 DEF DrmInv
<1> QED
  BY <1>3, <1>4

\* What drm_hdmi_getTiming finds for a monitor that is connected: the mode the user
\* selected, the monitor's own choice, or the one for a video.
LEMMA TimingFound ==
    ASSUME DrmInv, drm.connected, NEW v \in AVideo \cup {NoTiming}, NEW old
    PROVE  LET M == Modes[drm.conn]
               x == drm_hdmi_getTiming(v, old)
           IN  /\ M \in Seq(DrmMode)
               /\ x \in drm_hdmi_getModeInfo(M)
               /\ drm.modeValid \/ v = NoTiming \/
                    \E p \in 1..Len(M) : x = drm_hdmi_setTiming(M[VideoMode(M, v, p)])
<1> DEFINE M == Modes[drm.conn]
           index == IF v = NoTiming THEN preferredModeIndex ELSE VideoMode(M, v, preferredModeIndex)
<1>1. drm.conn \in Monitor /\ drm.product = drm.conn /\ getHdmiConnector = drm.conn
  BY MonitorAssumption DEF DrmInv, getHdmiConnector
<1>2. M \in Seq(DrmMode) /\ Len(M) # 0 /\ Len(M) \in Nat
  BY <1>1, MonitorAssumption
<1>3. preferredModeIndex \in 1..Len(M)
  BY <1>1, <1>2, PreferredIn DEF preferredModeIndex
<1>4. CASE drm.modeValid
  BY <1>1, <1>2, <1>4 DEF drm_hdmi_getTiming, DrmInv
<1>5. CASE ~drm.modeValid
  <2>1. index \in 1..Len(M)
    BY <1>2, <1>3, VideoModeIs
  <2>2. drm_hdmi_getTiming(v, old) =
            IF index > Len(M) THEN NoTiming ELSE drm_hdmi_setTiming(M[index])
    BY <1>1, <1>5, MonitorAssumption DEF drm_hdmi_getTiming
  <2>3. ~(index > Len(M))
    BY <1>2, <2>1
  <2>4. drm_hdmi_getTiming(v, old) = drm_hdmi_setTiming(M[index])
    BY <2>2, <2>3
  <2>5. drm_hdmi_setTiming(M[index]) \in drm_hdmi_getModeInfo(M)
    BY <1>2, <2>1, AllTimings
  <2> QED
    BY <1>2, <1>3, <2>4, <2>5
<1> QED
  BY <1>4, <1>5

-----------------------------------------------------------------------------
(* The composer.                                                           *)

\* Where an operation under mLock may be: looking at the cable, changing the mode
\* up to the last step of all, or selecting a mode for the user.
Looking == {"plug", "plugread", "plugged"}
Authenticating == {"try", "lost", "reread", "iedon"}
Changing == {"hdcpoff", "timing", "enable", "timer", "enabled"} \cup Authenticating
Selecting == {"modetiming", "selected"}
BinderPlace == {"idle", "show"} \cup Looking \cup Changing \cup Selecting
CheckerPlace == {"idle"} \cup Authenticating

\* Where the operation is that holds mLock.
Place == IF lock = Free THEN "free" ELSE pc[lock]

\* mLock is held exactly by the binder thread that is in an operation.
Locked ==
    /\ DOMAIN pc = Thread
    /\ lock \in Binder \cup {Free}
    /\ \A t \in Binder : pc[t] \in BinderPlace /\ (pc[t] # "idle" <=> lock = t)
    /\ \A c \in Checker : pc[c] \in CheckerPlace

Base ==
    /\ Locked
    /\ DOMAIN fresh = Binder /\ DOMAIN view = Client /\ listeners \subseteq Client

\* The modes of the HDMI output: one of these, or neither.
Shown == {"HDMI_CLONE", "HDMI_VIDEO_EXT"}

\* The panel.  The constructor turns it on in mMode when it has looked at the cable.
PanelTrue ==
    /\ \/ "MIPI_ON" \in mMode <=> panel
       \/ Place \in {"plug", "plugread"} /\ ~Playing /\ panel
    /\ ~panel => ~mMipiOn

\* What the audio driver was told: it hears of a new connection at the end.
AudioTrue ==
    /\ Place \in Changing \cup {"show"} =>
         "HDMI_CONNECTED" \in mMode /\ (audio <=> ~fresh[lock])
    /\ Place \notin Changing \cup {"show"} => ("HDMI_CONNECTED" \in mMode <=> audio)
    /\ "HDMI_CONNECTED" \notin mMode => mConnectStatus = 0

\* The HDMI bits.  In "show" the new mode is set, but HDMI is not on yet.
HdmiTrue ==
    /\ ~("HDMI_CLONE" \in mMode /\ "HDMI_VIDEO_EXT" \in mMode)
    /\ \A b \in {"HDMI_ON", "HDCP_ON"} \cup Shown : b \in mMode => "HDMI_CONNECTED" \in mMode
    /\ timer => "HDMI_CONNECTED" \in mMode
    /\ Place = "show" => \E b \in Shown : b \in mMode
    /\ Place # "show" =>
         /\ "HDMI_ON" \in mMode <=> \E b \in Shown : b \in mMode
         /\ "HDMI_VIDEO_EXT" \in mMode => "OVERLAY_OFF" \notin mMode
    /\ Place \in {"free", "show"} \cup Selecting =>
         /\ "HDMI_CLONE" \in mMode => ~Playing
         /\ "HDMI_VIDEO_EXT" \in mMode => Playing

\* What listeners were told.  In a change of mode they were taken to the local mode.
Told ==
    /\ \A c \in Client \ listeners : view[c] = {"?"}
    /\ Place = "free" => \A c \in listeners : view[c] # {"?"} =>
         view[c] \ {"MIPI_ON", "WIDI_ON"} = mMode \ {"MIPI_ON", "WIDI_ON"}
    /\ \A c \in Client, b \in Shown : b \in view[c] => Place \notin Changing /\ b \in mMode

Sound == PanelTrue /\ AudioTrue /\ HdmiTrue /\ Told

MInv == Base /\ (~torn => Sound)

-----------------------------------------------------------------------------
(* mLock and the places of the threads.                                    *)

LEMMA ThreadFacts ==
    /\ HdcpThread = Binder \cup Checker /\ HdcpThread \subseteq Thread /\ Mipi \in Thread
    /\ Notifier \subseteq Thread /\ Binder \subseteq Thread /\ Checker \subseteq Thread
    /\ Binder \cap Checker = {} /\ Notifier \cap HdcpThread = {} /\ Mipi \notin HdcpThread
    /\ Free \notin Binder
BY ComposerAssumption, HdcpAssumption DEF HdcpThread, Thread

LEMMA GotoEffect ==
    ASSUME Locked, NEW t \in Thread, NEW l, Goto(t, l)
    PROVE  DOMAIN pc' = Thread /\ pc'[t] = l /\ \A u \in Thread \ {t} : pc'[u] = pc[u]
BY DEF Goto, Locked

\* A binder thread goes on, comes out of its operation, or begins one; another
\* thread moves; nobody does.
LEMMA Moved ==
    ASSUME Locked, NEW t \in Binder, pc[t] # "idle", NEW l \in BinderPlace \ {"idle"}, Goto(t, l),
           lock' = lock
    PROVE  Locked' /\ lock = t /\ Place = pc[t] /\ Place' = l
<1>1. DOMAIN pc' = Thread /\ pc'[t] = l /\ \A u \in Thread \ {t} : pc'[u] = pc[u]
  BY GotoEffect, ThreadFacts
<1>2. lock = t /\ lock # Free
  BY ThreadFacts DEF Locked
<1>3. Locked'
  BY <1>1, <1>2, ThreadFacts DEF Locked
<1> QED
  BY <1>1, <1>2, <1>3 DEF Place

LEMMA Left ==
    ASSUME Locked, NEW t \in Binder, pc[t] # "idle", Goto(t, "idle"), lock' = Free
    PROVE  Locked' /\ lock = t /\ Place = pc[t] /\ Place' = "free"
<1>1. DOMAIN pc' = Thread /\ pc'[t] = "idle" /\ \A u \in Thread \ {t} : pc'[u] = pc[u]
  BY GotoEffect, ThreadFacts
<1>2. lock = t /\ lock # Free
  BY ThreadFacts DEF Locked
<1>3. Locked'
  BY <1>1, <1>2, ThreadFacts DEF Locked, BinderPlace
<1> QED
  BY <1>1, <1>2, <1>3 DEF Place

LEMMA Entered ==
    ASSUME Locked, NEW t \in Binder, lock = Free, NEW l \in BinderPlace \ {"idle"}, Goto(t, l),
           lock' = t
    PROVE  Locked' /\ Place = "free" /\ Place' = l
<1>1. DOMAIN pc' = Thread /\ pc'[t] = l /\ \A u \in Thread \ {t} : pc'[u] = pc[u]
  BY GotoEffect, ThreadFacts
<1>2. \A u \in Binder : pc[u] = "idle"
  BY ThreadFacts DEF Locked
<1>3. Locked'
  BY <1>1, <1>2, ThreadFacts DEF Locked
<1> QED
  BY <1>1, <1>3, ThreadFacts DEF Place

LEMMA Beside ==
    ASSUME Locked, NEW u \in Thread \ Binder, NEW l, Goto(u, l), u \in Checker => l \in CheckerPlace,
           lock' = lock
    PROVE  Locked' /\ Place' = Place
<1>1. DOMAIN pc' = Thread /\ pc'[u] = l /\ \A v \in Thread \ {u} : pc'[v] = pc[v]
  BY GotoEffect
<1>2. Locked'
  BY <1>1, ThreadFacts DEF Locked
<1>3. lock # Free => pc'[lock] = pc[lock]
  BY <1>1, ThreadFacts DEF Locked
<1> QED
  BY <1>2, <1>3 DEF Place

LEMMA Still ==
    ASSUME Locked, UNCHANGED <<pc, lock>>
    PROVE  Locked' /\ Place' = Place
BY DEF Locked, Place

-----------------------------------------------------------------------------
(* Steps that change nothing that Sound is about.                          *)

Same == UNCHANGED <<mMode, panel, audio, mMipiOn, mConnectStatus, mVideo, fresh, view, listeners, torn>>

LEMMA SameStep ==
    ASSUME Sound, Same,
           Place' \in Changing <=> Place \in Changing, Place' = "show" <=> Place = "show",
           Place' \in {"free", "show"} \cup Selecting => Place \in {"free", "show"} \cup Selecting,
           Place \in {"plug", "plugread"} => Place' \in {"plug", "plugread"},
           Place' = "free" => Place = "free",
           Place' \in Changing \cup {"show"} => lock' = lock,
           timer' => timer \/ Place \in Changing
    PROVE  Sound'
<1> USE DEF Same, Playing
<1>1. PanelTrue'
  BY DEF Sound, PanelTrue
<1>2. AudioTrue'
  BY DEF Sound, AudioTrue
<1>3. HdmiTrue'
  BY DEF Sound, AudioTrue, HdmiTrue
<1>4. Told'
  BY DEF Sound, Told
<1> QED
  BY <1>1, <1>2, <1>3, <1>4 DEF Sound

\* A step that leaves the variables of Base and Sound as they are.
LEMMA NothingSeen ==
    ASSUME Base, Sound, Same, Locked', Place' = Place, UNCHANGED <<lock, timer>>
    PROVE  Base' /\ Sound'
<1>1. Base'
  BY DEF Base, Same
<1>2. Sound'
  BY SameStep
<1> QED
  BY <1>1, <1>2

LEMMA QuietSteps ==
    ASSUME Base, Sound,
           \/ \E t \in Notifier, on \in BOOLEAN : WidiRead(t, on) \/ notifyMipi(t, on)
           \/ \E c \in Checker : LinkCheck(c)
           \/ \E c \in Checker : HdcpStep(c) /\ UNCHANGED composerVars
           \/ \E t, u \in Binder \cup Checker : ConnectorFreed(t, u)
           \/ TakeRequest \/ SpuriousWakeup \/ Environment
    PROVE  Base' /\ Sound'
<1>0. Locked
  BY DEF Base
<1> USE DEF Same, modeVars, clientVars, threadVars, composerVars, hdcpVars, drmVars
<1>1. ASSUME NEW t \in Notifier, NEW on \in BOOLEAN, WidiRead(t, on) PROVE Base' /\ Sound'
  <2>1. Goto(t, "widi") /\ UNCHANGED <<lock, timer>> /\ Same
    BY <1>1 DEF WidiRead
  <2>2. t \in Thread \ Binder /\ t \notin Checker
    BY ThreadFacts
  <2> QED
    BY <1>0, <2>1, <2>2, Beside, NothingSeen
<1>2. ASSUME NEW t \in Notifier, NEW on \in BOOLEAN, notifyMipi(t, on) PROVE Base' /\ Sound'
  <2>1. UNCHANGED <<pc, lock, timer>> /\ Same
    BY <1>2 DEF notifyMipi
  <2> QED
    BY <1>0, <2>1, Still, NothingSeen
<1>3. ASSUME NEW c \in Checker, LinkCheck(c) PROVE Base' /\ Sound'
  <2>1. Goto(c, "try") /\ UNCHANGED <<lock, timer>> /\ Same
    BY <1>3 DEF LinkCheck, CheckLink, WorkStart
  <2>2. c \in Thread \ Binder /\ "try" \in CheckerPlace
    BY ThreadFacts DEF CheckerPlace, Authenticating
  <2> QED
    BY <1>0, <2>1, <2>2, Beside, NothingSeen
<1>4. ASSUME NEW c \in Checker, HdcpStep(c), UNCHANGED composerVars PROVE Base' /\ Sound'
  <2>1. pc[c] \in CheckerPlace /\ UNCHANGED lock
    BY <1>0, <1>4 DEF Locked
  <2>2. UNCHANGED <<panel, audio, timer>>
    BY <1>4, <2>1 DEF HdcpStep, EnableSkipped, Enable, WorkStart, TryAuthenticated, TryUnanswered,
         TryFails, TriesExhausted, LostReset, LostRead, IedOn, StartLinkChecking, CheckerPlace,
         Authenticating
  <2>3. UNCHANGED pc \/ \E l \in CheckerPlace : Goto(c, l)
    BY <1>4, <2>1 DEF HdcpStep, EnableSkipped, Enable, WorkStart, TryAuthenticated, TryUnanswered,
         TryFails, TriesExhausted, LostReset, LostRead, IedOn, StartLinkChecking, CheckerPlace,
         Authenticating
  <2>4. c \in Thread \ Binder
    BY ThreadFacts
  <2>5. Locked' /\ Place' = Place
    BY <1>0, <2>1, <2>3, <2>4, Beside, Still
  <2> QED
    BY <1>4, <2>1, <2>2, <2>5, NothingSeen
<1>5. ASSUME NEW t \in Binder \cup Checker, NEW u \in Binder \cup Checker, ConnectorFreed(t, u)
      PROVE  Base' /\ Sound'
  <2>1. UNCHANGED <<pc, lock, timer>> /\ Same
    BY <1>5 DEF ConnectorFreed
  <2> QED
    BY <1>0, <2>1, Still, NothingSeen
<1>6. CASE TakeRequest \/ SpuriousWakeup
  <2>1. Goto(Mipi, "apply") /\ UNCHANGED <<lock, timer>> /\ Same
    BY <1>6 DEF TakeRequest, SpuriousWakeup
  <2>2. Mipi \in Thread \ Binder /\ Mipi \notin Checker
    BY ThreadFacts
  <2> QED
    BY <1>0, <2>1, <2>2, Beside, NothingSeen
<1>7. CASE Environment
  <2>1. UNCHANGED <<pc, lock, timer>> /\ Same
    BY <1>7 DEF Environment, Plug, Unplug
  <2> QED
    BY <1>0, <2>1, Still, NothingSeen
<1> QED
  BY <1>1, <1>2, <1>3, <1>4, <1>5, <1>6, <1>7

\* Steps of an operation that change nothing but where it is, and the timer.
LEMMA MovingSteps ==
    ASSUME Base, Sound, NEW t \in Binder,
           \/ PlugReset(t) \/ SetTiming(t) \/ SelectTiming(t)
           \/ HdcpStep(t) /\ UNCHANGED composerVars
    PROVE  Base' /\ Sound'
<1>0. Locked /\ pc[t] \in BinderPlace
  BY DEF Base, Locked
<1> USE DEF Same, modeVars, clientVars, threadVars, composerVars, hdcpVars, drmVars
<1>1. CASE PlugReset(t)
  <2>1. pc[t] = "plug" /\ Goto(t, "plugread") /\ UNCHANGED <<lock, timer>> /\ Same
    BY <1>1 DEF PlugReset, Step
  <2>2. Locked' /\ Place = "plug" /\ Place' = "plugread"
    BY <1>0, <2>1, Moved DEF BinderPlace, Looking
  <2>3. Sound'
    BY <2>1, <2>2, SameStep DEF Changing, Selecting, Authenticating
  <2> QED
    BY <2>1, <2>2, <2>3 DEF Base
<1>2. CASE SetTiming(t)
  <2>1. pc[t] = "timing" /\ Goto(t, "enable") /\ UNCHANGED <<lock, timer>> /\ Same
    BY <1>2 DEF SetTiming, Step
  <2>2. Locked' /\ Place = "timing" /\ Place' = "enable"
    BY <1>0, <2>1, Moved DEF BinderPlace, Changing
  <2>3. Sound'
    BY <2>1, <2>2, SameStep DEF Changing, Selecting, Authenticating
  <2> QED
    BY <2>1, <2>2, <2>3 DEF Base
<1>3. CASE SelectTiming(t)
  <2>1. pc[t] = "modetiming" /\ Goto(t, "selected") /\ UNCHANGED <<lock, timer>> /\ Same
    BY <1>3 DEF SelectTiming, Step
  <2>2. Locked' /\ Place = "modetiming" /\ Place' = "selected"
    BY <1>0, <2>1, Moved DEF BinderPlace, Selecting
  <2>3. Sound'
    BY <2>1, <2>2, SameStep DEF Changing, Selecting, Authenticating
  <2> QED
    BY <2>1, <2>2, <2>3 DEF Base
<1>4. CASE HdcpStep(t) /\ UNCHANGED composerVars
  <2>0. t \notin Checker
    BY ThreadFacts
  <2>1. UNCHANGED lock /\ UNCHANGED <<panel, audio>> /\ pc[t] \in Changing
    BY <1>4 DEF HdcpStep, EnableSkipped, Enable, WorkStart, TryAuthenticated, TryUnanswered,
         TryFails, TriesExhausted, LostReset, LostRead, IedOn, StartLinkChecking, Changing,
         Authenticating
  <2>2. UNCHANGED pc \/ \E l \in Changing : Goto(t, l)
    BY <1>4, <2>0 DEF HdcpStep, EnableSkipped, Enable, WorkStart, TryAuthenticated, TryUnanswered,
         TryFails, TriesExhausted, LostReset, LostRead, IedOn, StartLinkChecking, Changing,
         Authenticating
  <2>3. Same
    BY <1>4, <2>1
  <2>4. Locked' /\ Place \in Changing /\ Place' \in Changing
    <3>1. CASE UNCHANGED pc
      <4>1. lock = t /\ lock # Free
        BY <1>0, <2>1, ThreadFacts DEF Locked, Changing, Authenticating
      <4> QED
        BY <1>0, <2>1, <3>1, <4>1, Still DEF Place
    <3>2. ASSUME NEW l \in Changing, Goto(t, l) PROVE Locked' /\ Place \in Changing /\ Place' \in Changing
      <4>1. pc[t] # "idle" /\ l \in BinderPlace \ {"idle"}
        BY <2>1 DEF Changing, BinderPlace, Authenticating
      <4> QED
        BY <1>0, <2>1, <3>2, <4>1, Moved
    <3> QED
      BY <2>2, <3>1, <3>2
  <2>5. \A x \in Changing : x \notin {"free", "show", "plug", "plugread"} \cup Selecting
    BY DEF Changing, Selecting, Authenticating
  <2>6. Sound'
    BY <2>1, <2>3, <2>4, <2>5, SameStep
  <2> QED
    BY <2>3, <2>4, <2>6 DEF Base
<1> QED
  BY <1>1, <1>2, <1>3, <1>4

-----------------------------------------------------------------------------
(* The steps of an operation that change mMode.                            *)

LEMMA BroadcastEffect ==
    ASSUME NEW mode, Broadcast(mode)
    PROVE  /\ DOMAIN view' = Client
           /\ \A c \in Client : view'[c] = IF c \in listeners THEN mode ELSE view[c]
BY DEF Broadcast

\* An operation that ends by telling the listeners leaves them told.
LEMMA ToldAtEnd ==
    ASSUME Base, Told, Broadcast(mMode'), UNCHANGED listeners,
           Place' \notin Changing
    PROVE  Told' /\ DOMAIN view' = Client
<1>1. DOMAIN view' = Client /\ \A c \in Client : view'[c] = IF c \in listeners THEN mMode' ELSE view[c]
  BY BroadcastEffect
<1>2. \A c \in Client \ listeners : view'[c] = {"?"}
  BY <1>1 DEF Told
<1>3. \A b \in Shown : b # "?"
  BY DEF Shown
<1> QED
  BY <1>1, <1>2, <1>3 DEF Base, Told

\* Who begins an operation may have changed the video, and mMode with it.
LEMMA EnterSound ==
    ASSUME Base, Sound, NEW t \in Binder, NEW v, Enter(t, v), view' = view
    PROVE  Base' /\ Sound'
<1>1. /\ lock = Free /\ lock' = t /\ Goto(t, "plug") /\ mMode' = WithVideo(mMode, v)
      /\ UNCHANGED <<panel, audio, timer, mMipiOn, mConnectStatus, fresh, listeners>>
  BY DEF Enter, drmVars, hdcpVars
<1>2. Locked' /\ Place = "free" /\ Place' = "plug"
  BY <1>1, Entered DEF Base, BinderPlace, Looking
<1>3. \A b \in Bits \ {"VIDEO_PLAYING"} : b \in mMode' <=> b \in mMode
  BY <1>1 DEF WithVideo
<1>4. PanelTrue'
  BY <1>1, <1>2, <1>3 DEF Sound, PanelTrue, Bits
<1>5. AudioTrue'
  BY <1>1, <1>2, <1>3 DEF Sound, AudioTrue, Bits, HdmiBits, Changing, Authenticating
<1>6. HdmiTrue'
  <2>1. Place' = "plug" /\ Place = "free"
    BY <1>2
  <2>2. \A b \in {"HDMI_ON", "HDCP_ON", "HDMI_CONNECTED", "OVERLAY_OFF"} \cup Shown : b \in mMode' <=> b \in mMode
    BY <1>3 DEF Bits, HdmiBits, Shown
  <2> QED
    BY <1>1, <2>1, <2>2 DEF Sound, HdmiTrue, Shown, Selecting
<1>7. Told'
  <2>1. \A b \in Shown : b \in mMode' <=> b \in mMode
    BY <1>3 DEF Bits, HdmiBits, Shown
  <2>2. Place' \notin Changing
    BY <1>2 DEF Changing, Authenticating
  <2> QED
    BY <1>1, <1>2, <2>1, <2>2 DEF Sound, Told
<1>8. Base'
  BY <1>1, <1>2 DEF Base
<1> QED
  BY <1>4, <1>5, <1>6, <1>7, <1>8 DEF Sound

\* drm_hdmi_getConnectionStatus has been called: MIPI may be turned on.
LEMMA PlugReadSound ==
    ASSUME Base, Sound, NEW t \in Binder, PlugRead(t)
    PROVE  Base' /\ Sound'
<1>1. PICK readable \in BOOLEAN :
        LET s == connectionStatus(readable)
            alone == s = 0 \/ ~mHdmiPolicy \/ ~Playing
            turnOn == alone /\ "MIPI_ON" \notin mMode
        IN  /\ mMode' = IF turnOn THEN mMode \cup {"MIPI_ON"} ELSE mMode
            /\ panel' = (panel \/ turnOn)
            /\ mMipiOn' = (mMipiOn \/ turnOn)
  BY DEF PlugRead
<1>2. PICK turnOn \in BOOLEAN :
        /\ mMode' = IF turnOn THEN mMode \cup {"MIPI_ON"} ELSE mMode
        /\ panel' = (panel \/ turnOn) /\ mMipiOn' = (mMipiOn \/ turnOn)
        /\ ~Playing /\ "MIPI_ON" \notin mMode => turnOn
  BY <1>1
<1>3. /\ pc[t] = "plugread" /\ lock' = lock /\ Goto(t, "plugged")
      /\ UNCHANGED <<audio, timer, mConnectStatus, mVideo, fresh, view, listeners>>
  BY DEF PlugRead, Step, hdcpVars, clientVars
<1>4. Locked' /\ Place = "plugread" /\ Place' = "plugged"
  BY <1>3, Moved DEF Base, BinderPlace, Looking
<1>5. \A b : b # "MIPI_ON" => (b \in mMode' <=> b \in mMode)
  BY <1>2
<1>6. PanelTrue'
  BY <1>2, <1>4 DEF Sound, PanelTrue
<1>7. AudioTrue'
  BY <1>3, <1>4, <1>5 DEF Sound, AudioTrue, Changing, Authenticating
<1>8. HdmiTrue'
  BY <1>3, <1>4, <1>5 DEF Sound, HdmiTrue, Shown, Selecting
<1>9. Told'
  BY <1>3, <1>4, <1>5 DEF Sound, Told, Shown, Changing, Authenticating
<1>10. Base'
  BY <1>3, <1>4 DEF Base
<1> QED
  BY <1>6, <1>7, <1>8, <1>9, <1>10 DEF Sound

\* The operation ends: nothing but mMode, the audio driver and mConnectStatus may
\* have changed.
LEMMA LeaveFacts ==
    ASSUME Base, Sound, NEW t \in Binder, pc[t] # "idle", Leave(t), Broadcast(mMode'), UNCHANGED listeners
    PROVE  Base' /\ Told' /\ Place = pc[t] /\ Place' = "free"
<1>1. /\ Goto(t, "idle") /\ lock' = Free /\ DOMAIN fresh' = Binder
  BY DEF Leave, Base
<1>2. Locked' /\ Place = pc[t] /\ Place' = "free"
  BY <1>1, Left DEF Base
<1>3. Told' /\ DOMAIN view' = Client
  BY <1>2, ToldAtEnd DEF Sound, Changing, Authenticating
<1> QED
  BY <1>1, <1>2, <1>3 DEF Base

LEMMA PluggedSteps ==
    ASSUME Base, Sound, NEW t \in Binder,
           AlreadyDisconnected(t) \/ Disconnected(t) \/ HdmiNotAllowed(t) \/ AlreadyInMode(t)
    PROVE  Base' /\ Sound'
<1>1. /\ pc[t] = "plugged" /\ Leave(t) /\ Broadcast(mMode')
      /\ UNCHANGED <<panel, mMipiOn, mVideo, listeners>>
  BY DEF AlreadyDisconnected, Disconnected, HdmiNotAllowed, AlreadyInMode, Step, drmVars
<1>2. Base' /\ Told' /\ Place = "plugged" /\ Place' = "free"
  BY <1>1, LeaveFacts
<1>3. "MIPI_ON" \in mMode' <=> "MIPI_ON" \in mMode
  BY DEF AlreadyDisconnected, Disconnected, HdmiNotAllowed, AlreadyInMode, HdmiBits
<1>4. PanelTrue'
  BY <1>1, <1>2, <1>3 DEF Sound, PanelTrue
<1>5. AudioTrue' /\ HdmiTrue'
  <2> USE DEF Sound, AudioTrue, HdmiTrue, Shown, Changing, Authenticating, Selecting, Playing, drmVars,
              hdcpVars
  <2>1. CASE AlreadyDisconnected(t)
    BY <1>1, <1>2, <2>1 DEF AlreadyDisconnected
  <2>2. CASE Disconnected(t)
    <3>1. /\ mMode' = mMode \ HdmiBits /\ ~audio' /\ ~timer' /\ mConnectStatus' = 0
      BY <2>2 DEF Disconnected, drm_hdcp_disable_hdcp
    <3>2. \A b \in {"HDMI_ON", "HDCP_ON", "HDMI_CONNECTED"} \cup Shown : b \notin mMode'
      BY <3>1 DEF HdmiBits
    <3> QED
      BY <1>1, <1>2, <3>1, <3>2
  <2>3. CASE HdmiNotAllowed(t)
    <3>1. /\ "HDMI_CONNECTED" \in mMode'
          /\ "HDMI_ON" \in mMode => \A b \in {"HDMI_ON", "HDCP_ON"} \cup Shown : b \notin mMode'
          /\ "HDMI_ON" \notin mMode => \A b \in {"HDMI_ON", "HDCP_ON", "OVERLAY_OFF"} \cup Shown :
                                         b \in mMode' <=> b \in mMode
      BY <2>3 DEF HdmiNotAllowed
    <3>2. audio'
      <4>1. CASE "HDMI_CONNECTED" \in mMode
        BY <1>2, <2>3, <4>1 DEF HdmiNotAllowed
      <4>2. CASE "HDMI_CONNECTED" \notin mMode
        BY <2>3, <4>2 DEF HdmiNotAllowed
      <4> QED
        BY <4>1, <4>2
    <3>3. "HDMI_ON" \notin mMode => \A b \in Shown : b \notin mMode
      BY <1>2
    <3>4. \A b \in Shown : b \notin mMode'
      BY <3>1, <3>3
    <3> QED
      BY <1>1, <1>2, <3>1, <3>2, <3>4
  <2>4. CASE AlreadyInMode(t)
    <3>1. IF Playing THEN "HDMI_VIDEO_EXT" \in mMode ELSE "HDMI_CLONE" \in mMode
      BY <2>4 DEF AlreadyInMode, InMode
    <3>2. mMode' = mMode \cup {"HDMI_CONNECTED"} /\ "HDMI_CONNECTED" \in mMode
      BY <2>4, <3>1 DEF AlreadyInMode
    <3>3. mMode' = mMode /\ UNCHANGED <<audio, timer>>
      BY <2>4, <3>2 DEF AlreadyInMode
    <3>4. AudioTrue'
      BY <1>2, <3>2, <3>3
    <3>5. HdmiTrue'
      BY <1>1, <1>2, <3>1, <3>2, <3>3
    <3> QED
      BY <3>4, <3>5
  <2> QED
    BY <2>1, <2>2, <2>3, <2>4
<1> QED
  BY <1>2, <1>4, <1>5 DEF Sound

\* The local mode is told, and the connection noted.
LEMMA TransitionSound ==
    ASSUME Base, Sound, NEW t \in Binder, Transition(t)
    PROVE  Base' /\ Sound'
<1> DEFINE local == (mMode' \ {"HDMI_CLONE", "HDMI_VIDEO_EXT"}) \cup {"OVERLAY_OFF"}
<1>1. /\ pc[t] = "plugged" /\ lock' = lock /\ mMode' = mMode \cup {"HDMI_CONNECTED"}
      /\ fresh' = [fresh EXCEPT ![t] = "HDMI_CONNECTED" \notin mMode]
      /\ Broadcast(local)
      /\ UNCHANGED <<panel, audio, timer, mMipiOn, mVideo, listeners>>
  BY DEF Transition, Step, drmVars, hdcpVars
<1>2. PICK l \in {"hdcpoff", "timing"} : Goto(t, l)
  BY DEF Transition
<1>3. Locked' /\ lock = t /\ Place = "plugged" /\ Place' = l
  BY <1>1, <1>2, Moved DEF Base, BinderPlace, Changing
<1>4. fresh'[t] = ("HDMI_CONNECTED" \notin mMode) /\ DOMAIN fresh' = Binder
  BY <1>1 DEF Base
<1> HIDE DEF local
<1>5. DOMAIN view' = Client /\ \A c \in Client : view'[c] = IF c \in listeners THEN local ELSE view[c]
  BY <1>1, BroadcastEffect
<1>6. l \in Changing /\ l \notin {"free", "show", "plug", "plugread"} \cup Selecting
  BY DEF Changing, Selecting
<1>7. \A b : b # "HDMI_CONNECTED" => (b \in mMode' <=> b \in mMode)
  BY <1>1
<1>8. PanelTrue'
  BY <1>1, <1>3, <1>6, <1>7 DEF Sound, PanelTrue, Playing
<1>9. AudioTrue'
  <2>1. "HDMI_CONNECTED" \in mMode <=> audio
    BY <1>3 DEF Sound, AudioTrue, Changing, Authenticating
  <2>2. lock' = t
    BY <1>1, <1>3
  <2>3. audio' <=> ~fresh'[t]
    BY <1>1, <1>4, <2>1
  <2> QED
    BY <1>1, <1>3, <1>6, <2>2, <2>3 DEF AudioTrue
<1>10. HdmiTrue'
  BY <1>1, <1>3, <1>6, <1>7 DEF Sound, HdmiTrue, Shown
<1>11. Told'
  <2>1. \A b \in Shown : b \notin local /\ b # "?"
    BY DEF local, Shown
  <2>2. \A c \in Client \ listeners : view'[c] = {"?"}
    BY <1>5 DEF Sound, Told
  <2> QED
    BY <1>1, <1>3, <1>5, <1>6, <2>1, <2>2 DEF Base, Told
<1>12. Base'
  BY <1>1, <1>3, <1>4, <1>5 DEF Base
<1> QED
  BY <1>8, <1>9, <1>10, <1>11, <1>12 DEF Sound

LEMMA HdcpOffSound ==
    ASSUME Base, Sound, NEW t \in Binder, HdcpOff(t)
    PROVE  Base' /\ Sound'
<1>1. /\ pc[t] = "hdcpoff" /\ Goto(t, "timing") /\ lock' = lock /\ ~timer'
      /\ mMode' = mMode \ {"HDCP_ON"}
      /\ UNCHANGED <<panel, audio, mMipiOn, mConnectStatus, mVideo, fresh, view, listeners>>
  BY DEF HdcpOff, Step, drm_hdcp_disable_hdcp, drmVars, clientVars, threadVars
<1>2. Locked' /\ lock = t /\ Place = "hdcpoff" /\ Place' = "timing"
  BY <1>1, Moved DEF Base, BinderPlace, Changing
<1>3. {"hdcpoff", "timing"} \subseteq Changing /\ "timing" \notin Selecting
  BY DEF Changing, Selecting
<1>4. \A b : b # "HDCP_ON" => (b \in mMode' <=> b \in mMode)
  BY <1>1
<1>5. PanelTrue'
  BY <1>1, <1>2, <1>4 DEF Sound, PanelTrue
<1>6. AudioTrue'
  BY <1>1, <1>2, <1>3, <1>4 DEF Sound, AudioTrue
<1>7. HdmiTrue'
  BY <1>1, <1>2, <1>3, <1>4 DEF Sound, HdmiTrue, Shown
<1>8. Told'
  BY <1>1, <1>2, <1>3 DEF Sound, Told
<1>9. Base'
  BY <1>1, <1>2 DEF Base
<1> QED
  BY <1>5, <1>6, <1>7, <1>8, <1>9 DEF Sound

\* The new mode is set and told, before HDMI is on.
LEMMA ModeSetSound ==
    ASSUME Base, Sound, NEW t \in Binder, ModeSet(t)
    PROVE  Base' /\ Sound'
<1> DEFINE new == IF Playing THEN "HDMI_VIDEO_EXT" ELSE "HDMI_CLONE"
<1>1. /\ pc[t] = "enabled" /\ Goto(t, "show") /\ lock' = lock /\ Broadcast(mMode')
      /\ UNCHANGED <<panel, audio, timer, mMipiOn, mConnectStatus, mVideo, fresh, listeners>>
  BY DEF ModeSet, Step, drmVars, hdcpVars, threadVars
<1>2. /\ new \in mMode' /\ \A b \in Shown : b # new => b \notin mMode'
      /\ \A b \in {"MIPI_ON", "HDMI_CONNECTED"} : b \in mMode' <=> b \in mMode
  BY DEF ModeSet, Shown
<1>3. Locked' /\ lock = t /\ Place = "enabled" /\ Place' = "show"
  BY <1>1, Moved DEF Base, BinderPlace, Changing
<1>4. "enabled" \in Changing /\ "show" \notin Changing
  BY DEF Changing, Authenticating
<1>5. PanelTrue'
  BY <1>1, <1>2, <1>3 DEF Sound, PanelTrue
<1>6. AudioTrue'
  BY <1>1, <1>2, <1>3, <1>4 DEF Sound, AudioTrue
<1>7. HdmiTrue'
  <2>1. "HDMI_CONNECTED" \in mMode'
    BY <1>2, <1>3, <1>4 DEF Sound, AudioTrue
  <2>2. Playing' <=> Playing
    BY <1>1 DEF Playing
  <2>3. \E b \in Shown : b \in mMode'
    BY <1>2 DEF Shown
  <2> QED
    BY <1>2, <1>3, <2>1, <2>2, <2>3 DEF HdmiTrue, Shown
<1>8. Told' /\ DOMAIN view' = Client
  BY <1>1, <1>3, <1>4, ToldAtEnd DEF Sound
<1>9. Base'
  BY <1>1, <1>3, <1>8 DEF Base
<1> QED
  BY <1>5, <1>6, <1>7, <1>8, <1>9 DEF Sound

\* HDMI is on, and the audio driver hears of a new connection.
LEMMA ShowSound ==
    ASSUME Base, Sound, NEW t \in Binder, Show(t)
    PROVE  Base' /\ Sound'
<1>1. /\ pc[t] = "show" /\ Leave(t) /\ Broadcast(mMode') /\ audio' = (audio \/ fresh[t])
      /\ UNCHANGED <<panel, timer, mMipiOn, mConnectStatus, mVideo, listeners>>
  BY DEF Show, Step, hdcpVars
<1>2. /\ "HDMI_ON" \in mMode'
      /\ \A b : b \notin {"HDMI_ON", "OVERLAY_OFF"} => (b \in mMode' <=> b \in mMode)
      /\ "HDMI_VIDEO_EXT" \in mMode => "OVERLAY_OFF" \notin mMode'
  BY DEF Show
<1>3. Base' /\ Told' /\ Place = "show" /\ Place' = "free"
  BY <1>1, LeaveFacts
<1>4. lock = t
  BY <1>1, ThreadFacts DEF Base, Locked
<1>5. "HDMI_CONNECTED" \in mMode /\ (audio <=> ~fresh[t])
  BY <1>3, <1>4 DEF Sound, AudioTrue
<1>6. PanelTrue'
  BY <1>1, <1>2, <1>3 DEF Sound, PanelTrue
<1>7. AudioTrue'
  BY <1>1, <1>2, <1>3, <1>5 DEF AudioTrue, Changing, Authenticating
<1>8. HdmiTrue'
  <2>1. Playing' <=> Playing
    BY <1>1 DEF Playing
  <2> QED
    BY <1>1, <1>2, <1>3, <1>5, <2>1 DEF Sound, HdmiTrue, Shown
<1> QED
  BY <1>3, <1>6, <1>7, <1>8 DEF Sound

-----------------------------------------------------------------------------
(* The other operations, Widi and the MIPI thread.                         *)

\* A step that changes MIPI_ON or WIDI_ON in mMode, and with MIPI_ON the panel.
LEMMA PanelStep ==
    ASSUME Base, Sound,
           Place' = Place, UNCHANGED <<audio, timer, mConnectStatus, mVideo, fresh, listeners, lock>>,
           \A b : b \notin {"MIPI_ON", "WIDI_ON"} => (b \in mMode' <=> b \in mMode),
           view' = view \/ (Place = "free" /\ Broadcast(mMode')), PanelTrue'
    PROVE  Sound' /\ DOMAIN view' = Client
<1>1. AudioTrue'
  BY DEF Sound, AudioTrue
<1>2. HdmiTrue'
  <2>1. \A b \in {"HDMI_ON", "HDCP_ON", "HDMI_CONNECTED", "OVERLAY_OFF"} \cup Shown : b \in mMode' <=> b \in mMode
    BY DEF Shown
  <2> QED
    BY <2>1 DEF Sound, HdmiTrue, Shown, Playing
<1>3. Told' /\ DOMAIN view' = Client
  <2>1. CASE view' = view
    <3>1. mMode' \ {"MIPI_ON", "WIDI_ON"} = mMode \ {"MIPI_ON", "WIDI_ON"}
      OBVIOUS
    <3>2. \A b \in Shown : b \in mMode' <=> b \in mMode
      BY DEF Shown
    <3> QED
      BY <2>1, <3>1, <3>2 DEF Sound, Told, Base
  <2>2. CASE Place = "free" /\ Broadcast(mMode')
    BY <2>2, ToldAtEnd DEF Sound, Changing, Authenticating
  <2> QED
    BY <2>1, <2>2
<1> QED
  BY <1>1, <1>2, <1>3 DEF Sound

LEMMA SetMipiPolicySound ==
    ASSUME Base, Sound, NEW t \in Binder, NEW off \in BOOLEAN, SetMipiPolicy(t, off)
    PROVE  Base' /\ Sound'
<1>1. /\ lock = Free /\ UNCHANGED <<pc, lock>> /\ Broadcast(mMode')
      /\ UNCHANGED <<audio, timer, mConnectStatus, mVideo, fresh, listeners>>
  BY DEF SetMipiPolicy, hdcpVars, threadVars
<1>2. Locked' /\ Place = "free" /\ Place' = "free"
  BY <1>1, Still DEF Base, Place
<1>3. \A b : b \notin {"MIPI_ON", "WIDI_ON"} => (b \in mMode' <=> b \in mMode)
  BY DEF SetMipiPolicy
<1>4. PanelTrue'
  <2>1. "MIPI_ON" \in mMode <=> panel
    BY <1>2 DEF Sound, PanelTrue
  <2>2. CASE off
    BY <2>1, <2>2 DEF SetMipiPolicy, PanelTrue
  <2>3. CASE ~off
    BY <2>1, <2>3 DEF SetMipiPolicy, PanelTrue
  <2> QED
    BY <2>2, <2>3
<1>5. Sound' /\ DOMAIN view' = Client
  BY <1>1, <1>2, <1>3, <1>4, PanelStep
<1> QED
  BY <1>1, <1>2, <1>5 DEF Base

LEMMA SetMipiModeSound ==
    ASSUME Base, Sound, setMipiMode_l
    PROVE  Base' /\ Sound'
<1>1. /\ lock = Free /\ Goto(Mipi, "idle") /\ lock' = lock
      /\ UNCHANGED <<audio, timer, mConnectStatus, mVideo, fresh, listeners>>
  BY DEF setMipiMode_l, hdcpVars, threadVars
<1>2. Locked' /\ Place = "free" /\ Place' = "free"
  <2>1. Mipi \in Thread \ Binder /\ Mipi \notin Checker
    BY ThreadFacts
  <2> QED
    BY <1>1, <2>1, Beside DEF Base, Place
<1>3. \/ UNCHANGED <<mMode, panel, mMipiOn, view>>
      \/ mMode' = mMode \cup {"MIPI_ON"} /\ panel' /\ UNCHANGED view
      \/ mMode' = mMode \ {"MIPI_ON"} /\ ~panel' /\ ~mMipiOn' /\ UNCHANGED view
      \/ /\ mMode' = mMode /\ (panel' <=> panel) /\ (mMipiOn' => mMipiOn)
         /\ view' = view \/ Broadcast(mMode')
  <2> DEFINE on == mipiReq = "on"
             refused == ~on /\ ~mWidiVideoExt /\ "HDMI_VIDEO_EXT" \notin mMode
             off == ~on /\ ~refused /\ (mWidiVideoExt \/ mMipiPolicy)
  <2>1. \/ UNCHANGED <<mMode, panel, mMipiOn, view>>
        \/ /\ mMipiOn # on
           /\ mMode' = CASE on -> mMode \cup {"MIPI_ON"}
                         [] off -> mMode \ {"MIPI_ON"}
                         [] OTHER -> mMode
           /\ panel' = ((panel \/ on) /\ ~off)
           /\ mMipiOn' = IF refused THEN mMipiOn ELSE on
           /\ IF refused THEN Broadcast(mMode) ELSE UNCHANGED view
    BY DEF setMipiMode_l
  <2>2. (on => ~off /\ ~refused) /\ (off => ~refused)
    OBVIOUS
  <2> HIDE DEF on, off, refused
  <2>3. CASE on
    BY <2>1, <2>2, <2>3
  <2>4. CASE ~on /\ off
    BY <2>1, <2>2, <2>4
  <2>5. CASE ~on /\ ~off
    <3>1. Broadcast(mMode) /\ mMode' = mMode => Broadcast(mMode')
      OBVIOUS
    <3> QED
      BY <2>1, <2>5, <3>1
  <2> QED
    BY <2>3, <2>4, <2>5
<1>4. \A b : b \notin {"MIPI_ON", "WIDI_ON"} => (b \in mMode' <=> b \in mMode)
  BY <1>3
<1>5. PanelTrue'
  BY <1>2, <1>3 DEF Sound, PanelTrue
<1>6. Sound' /\ DOMAIN view' = Client
  BY <1>1, <1>2, <1>3, <1>4, <1>5, PanelStep
<1> QED
  BY <1>1, <1>2, <1>6 DEF Base

\* notifyWidi, as long as no update is lost.
LEMMA WidiWriteSound ==
    ASSUME Base, Sound, NEW t \in Notifier, WidiWrite(t)
    PROVE  Base' /\ (~torn' => Sound')
<1>1. /\ Goto(t, "idle") /\ UNCHANGED lock
      /\ UNCHANGED <<panel, audio, timer, mMipiOn, mConnectStatus, mVideo, fresh, view, listeners>>
  BY DEF WidiWrite, drmVars, hdcpVars, clientVars, threadVars
<1>2. Locked' /\ Place' = Place
  <2>1. t \in Thread \ Binder /\ t \notin Checker
    BY ThreadFacts
  <2> QED
    BY <1>1, <2>1, Beside DEF Base
<1>3. ASSUME ~torn' PROVE Sound'
  <2>1. \A b : b # "WIDI_ON" => (b \in mMode' <=> b \in mMode)
    BY <1>3 DEF WidiWrite
  <2>2. PanelTrue'
    BY <1>1, <1>2, <2>1 DEF Sound, PanelTrue, Playing
  <2> QED
    BY <1>1, <1>2, <2>1, <2>2, PanelStep
<1> QED
  BY <1>1, <1>2, <1>3 DEF Base

LEMMA SelectSteps ==
    ASSUME Base, Sound, NEW t \in Binder, (\E m : SelectMode(t, m)) \/ SelectDone(t)
    PROVE  Base' /\ Sound'
<1> USE DEF Same, modeVars, clientVars, drmVars, hdcpVars
<1>1. CASE \E m : SelectMode(t, m)
  <2>1. /\ lock = Free /\ lock' = t /\ Goto(t, "modetiming") /\ UNCHANGED timer /\ Same
    BY <1>1 DEF SelectMode
  <2>2. Locked' /\ Place = "free" /\ Place' = "modetiming"
    BY <2>1, Entered DEF Base, BinderPlace, Selecting
  <2>3. Sound'
    BY <2>1, <2>2, SameStep DEF Changing, Selecting, Authenticating
  <2> QED
    BY <2>1, <2>2, <2>3 DEF Base
<1>2. CASE SelectDone(t)
  <2>1. /\ pc[t] = "selected" /\ Leave(t) /\ Broadcast(mMode') /\ mMode' = mMode
        /\ UNCHANGED <<panel, audio, timer, mMipiOn, mConnectStatus, mVideo, listeners>>
    BY <1>2 DEF SelectDone, Step
  <2>2. Base' /\ Told' /\ Place = "selected" /\ Place' = "free"
    BY <2>1, LeaveFacts
  <2>3. PanelTrue'
    BY <2>1, <2>2 DEF Sound, PanelTrue
  <2>4. AudioTrue'
    BY <2>1, <2>2 DEF Sound, AudioTrue, Changing, Authenticating
  <2>5. HdmiTrue'
    BY <2>1, <2>2 DEF Sound, HdmiTrue, Selecting, Playing
  <2> QED
    BY <2>2, <2>3, <2>4, <2>5 DEF Sound
<1> QED
  BY <1>1, <1>2

LEMMA ListenerSteps ==
    ASSUME Base, Sound, NEW t \in Binder, NEW c \in Client,
           registerListener(t, c) \/ unregisterListener(t, c)
    PROVE  Base' /\ Sound'
<1> USE DEF modeVars, drmVars, hdcpVars, threadVars
<1>1. /\ UNCHANGED <<pc, lock, mMode, panel, audio, timer, mMipiOn, mConnectStatus, mVideo, fresh>>
      /\ \/ listeners' = listeners \cup {c} /\ c \notin listeners /\ view' = view
         \/ listeners' = listeners \ {c} /\ view' = [view EXCEPT ![c] = {"?"}]
  BY DEF registerListener, unregisterListener
<1>2. Locked' /\ Place' = Place
  BY <1>1, Still DEF Base
<1>3. Base'
  BY <1>1, <1>2 DEF Base
<1>4. PanelTrue'
  BY <1>1, <1>2 DEF Sound, PanelTrue, Playing
<1>5. AudioTrue'
  BY <1>1, <1>2 DEF Sound, AudioTrue
<1>6. HdmiTrue'
  BY <1>1, <1>2 DEF Sound, HdmiTrue, Playing
<1>7. Told'
  <2>1. \A b \in Shown : b # "?"
    BY DEF Shown
  <2>2. CASE listeners' = listeners \cup {c} /\ c \notin listeners /\ view' = view
    BY <1>1, <1>2, <2>2 DEF Sound, Told, Base
  <2>3. CASE listeners' = listeners \ {c} /\ view' = [view EXCEPT ![c] = {"?"}]
    <3>1. view'[c] = {"?"} /\ \A d \in Client \ {c} : view'[d] = view[d]
      BY <2>3 DEF Base
    <3> QED
      BY <1>1, <1>2, <2>1, <2>3, <3>1 DEF Sound, Told, Base
  <2> QED
    BY <1>1, <2>2, <2>3
<1> QED
  BY <1>3, <1>4, <1>5, <1>6, <1>7 DEF Sound

-----------------------------------------------------------------------------
(* All steps together.                                                     *)

LEMMA ServiceSound ==
    ASSUME Base, Sound, NEW t \in Binder, Service(t)
    PROVE  Base' /\ Sound'
<1>1. CASE \E v : Enter(t, v) /\ view' = view
  BY <1>1, EnterSound
<1>2. CASE notifyHotPlug(t) \/ prepareForVideo(t)
           \/ (\E v \in VideoInfo \cup {NoTiming} : updateVideoInfo(t, v))
           \/ (\E b \in BOOLEAN : SetHdmiPolicy(t, b))
  BY <1>1, <1>2 DEF notifyHotPlug, prepareForVideo, updateVideoInfo, SetHdmiPolicy
<1>3. CASE \E b \in BOOLEAN : SetMipiPolicy(t, b)
  BY <1>3, SetMipiPolicySound
<1>4. CASE \E m : SelectMode(t, m)
  BY <1>4, SelectSteps
<1>5. CASE \E c \in Client : registerListener(t, c) \/ unregisterListener(t, c)
  BY <1>5, ListenerSteps
<1> QED
  BY <1>2, <1>3, <1>4, <1>5 DEF Service

LEMMA ContinueSound ==
    ASSUME Base, Sound, NEW t \in Binder, Continue(t)
    PROVE  Base' /\ Sound'
<1>1. CASE PlugReset(t) \/ SetTiming(t) \/ SelectTiming(t) \/ (HdcpStep(t) /\ UNCHANGED composerVars)
  BY <1>1, MovingSteps
<1>2. CASE AlreadyDisconnected(t) \/ Disconnected(t) \/ HdmiNotAllowed(t) \/ AlreadyInMode(t)
  BY <1>2, PluggedSteps
<1> QED
  BY <1>1, <1>2, PlugReadSound, TransitionSound, HdcpOffSound, ModeSetSound, ShowSound, SelectSteps
     DEF Continue, setHdmiMode_l

\* What the two kinds of steps of Next are made of.
LEMMA NextSteps ==
    ASSUME Next
    PROVE  \/ \E t \in Binder : Service(t) \/ Continue(t)
           \/ \E t \in Notifier, on \in BOOLEAN : WidiRead(t, on) \/ notifyMipi(t, on)
           \/ \E t \in Notifier : WidiWrite(t)
           \/ \E c \in Checker : LinkCheck(c)
           \/ \E c \in Checker : HdcpStep(c) /\ UNCHANGED composerVars
           \/ \E t, u \in Binder \cup Checker : ConnectorFreed(t, u)
           \/ TakeRequest \/ SpuriousWakeup \/ Environment
           \/ setMipiMode_l
<1>1. CASE Begin
  BY <1>1 DEF Begin, Notify
<1>2. CASE GoOn
  BY <1>2 DEF GoOn
<1> QED
  BY <1>1, <1>2 DEF Next

\* A lost update ends the behaviour.
LEMMA NotTorn == Next => ~torn
<1>1. Begin => ~torn
  BY DEF Begin, Goes
<1>2. ASSUME NEW t \in Binder, Continue(t) PROVE ~torn
  <2>1. CASE setHdmiMode_l(t)
    BY <2>1 DEF setHdmiMode_l, PlugReset, PlugRead, AlreadyDisconnected, Disconnected,
         HdmiNotAllowed, AlreadyInMode, Transition, HdcpOff, SetTiming, ModeSet, Show, Step, Goes
  <2>2. CASE SelectTiming(t) \/ SelectDone(t)
    BY <2>2 DEF SelectTiming, SelectDone, Step, Goes
  <2> QED
    BY <1>2, <2>1, <2>2 DEF Continue
<1>3. GoOn => ~torn
  BY <1>2 DEF GoOn, WidiWrite, Step, Goes, ConnectorFreed, TakeRequest, setMipiMode_l
<1> QED
  BY <1>1, <1>3 DEF Next

LEMMA NextMInv == MInv /\ [Next]_vars => MInv'
<1> SUFFICES ASSUME MInv, [Next]_vars PROVE MInv'
  OBVIOUS
<1>1. CASE UNCHANGED vars
  <2>1. UNCHANGED <<pc, lock, timer, torn>> /\ Same
    BY <1>1 DEF vars, drmVars, hdcpVars, modeVars, clientVars, threadVars, Same
  <2>2. Base /\ (~torn => Sound) /\ Locked' /\ Place' = Place
    BY <2>1, Still DEF MInv, Base
  <2> QED
    <3>1. Base'
      BY <2>1, <2>2 DEF Base, Same
    <3>2. ~torn => Sound'
      BY <2>1, <2>2, NothingSeen
    <3> QED
      BY <2>1, <3>1, <3>2 DEF MInv
<1>2. CASE Next
  <2>1. Base /\ Sound
    BY <1>2, NotTorn DEF MInv
  <2>2. CASE \E t \in Binder : Service(t) \/ Continue(t)
    BY <2>1, <2>2, ServiceSound, ContinueSound DEF MInv
  <2>3. CASE \E t \in Notifier : WidiWrite(t)
    BY <2>1, <2>3, WidiWriteSound DEF MInv
  <2>4. CASE setMipiMode_l
    BY <2>1, <2>4, SetMipiModeSound DEF MInv
  <2>5. CASE \/ \E t \in Notifier, on \in BOOLEAN : WidiRead(t, on) \/ notifyMipi(t, on)
             \/ \E c \in Checker : LinkCheck(c)
             \/ \E c \in Checker : HdcpStep(c) /\ UNCHANGED composerVars
             \/ \E t, u \in Binder \cup Checker : ConnectorFreed(t, u)
             \/ TakeRequest \/ SpuriousWakeup \/ Environment
    BY <2>1, <2>5, QuietSteps DEF MInv
  <2> QED
    BY <1>2, <2>2, <2>3, <2>4, <2>5, NextSteps
<1> QED
  BY <1>1, <1>2

LEMMA InitMInv == Init => MInv
<1> SUFFICES ASSUME Init PROVE MInv
  OBVIOUS
<1>1. PICK first \in Binder : /\ lock = first
                              /\ pc = [t \in Thread |-> IF t = first THEN "plug" ELSE "idle"]
  BY DEF Init
<1>2. lock # Free /\ Place = "plug"
  BY <1>1, ThreadFacts DEF Place
<1>3. Locked
  BY <1>1, ThreadFacts DEF Locked, BinderPlace, CheckerPlace, Looking
<1>4. Base
  BY <1>3 DEF Init, Base
<1>5. mMode = {} /\ panel /\ ~audio /\ ~timer /\ mMipiOn /\ mVideo = NoTiming /\ mConnectStatus = 0
  BY DEF Init, drm_init, hdcp_init
<1>6. PanelTrue
  BY <1>2, <1>5 DEF PanelTrue, Playing
<1>7. AudioTrue
  BY <1>2, <1>5 DEF AudioTrue, Changing, Authenticating
<1>8. HdmiTrue
  BY <1>2, <1>5 DEF HdmiTrue, Selecting
<1>9. Told
  BY <1>2 DEF Init, Told, Shown
<1> QED
  BY <1>4, <1>6, <1>7, <1>8, <1>9 DEF MInv, Sound

LEMMA AlwaysMInv == Spec => []MInv
BY InitMInv, NextMInv, PTL DEF Spec

\* A mode is set only by the step that ends a change of mode.
LEMMA NoNewMode ==
    ASSUME Base, Next, ~torn', Place \notin Changing, NEW b \in Shown, b \in mMode'
    PROVE  b \in mMode
<1> USE DEF Shown
<1>1. ASSUME NEW t \in Binder, Service(t) PROVE b \in mMode
  <2>1. CASE \E v : Enter(t, v)
    BY <2>1 DEF Enter, WithVideo
  <2> QED
    BY <1>1, <2>1 DEF Service, notifyHotPlug, prepareForVideo, updateVideoInfo, SetHdmiPolicy,
       SetMipiPolicy, SelectMode, registerListener, unregisterListener, modeVars
<1>2. ASSUME NEW t \in Binder, Continue(t) PROVE b \in mMode
  <2>1. CASE ModeSet(t)
    <3>1. pc[t] = "enabled" /\ lock = t
      BY <2>1 DEF ModeSet, Step, Base, Locked
    <3>2. Place = "enabled"
      BY <3>1, ThreadFacts DEF Place
    <3> QED
      BY <3>2 DEF Changing
  <2>2. CASE HdcpStep(t) /\ UNCHANGED composerVars
    BY <2>2 DEF composerVars, modeVars
  <2>3. CASE SelectTiming(t) \/ SelectDone(t)
    BY <2>3 DEF SelectTiming, SelectDone, modeVars
  <2>4. CASE PlugReset(t) \/ SetTiming(t)
    BY <2>4 DEF PlugReset, SetTiming, modeVars
  <2>5. CASE PlugRead(t)
    <3>1. mMode' = mMode \/ mMode' = mMode \cup {"MIPI_ON"}
      BY <2>5 DEF PlugRead
    <3> QED
      BY <3>1
  <2>6. CASE AlreadyDisconnected(t) \/ Disconnected(t) \/ HdmiNotAllowed(t) \/ AlreadyInMode(t)
    BY <2>6 DEF AlreadyDisconnected, Disconnected, HdmiNotAllowed, AlreadyInMode
  <2>7. CASE Transition(t) \/ HdcpOff(t) \/ Show(t)
    BY <2>7 DEF Transition, HdcpOff, Show
  <2> QED
    BY <1>2, <2>1, <2>2, <2>3, <2>4, <2>5, <2>6, <2>7 DEF Continue, setHdmiMode_l
<1>3. CASE setMipiMode_l
  <2>1. \/ mMode' = mMode \/ mMode' = mMode \cup {"MIPI_ON"} \/ mMode' = mMode \ {"MIPI_ON"}
    BY <1>3 DEF setMipiMode_l
  <2> QED
    BY <2>1
<1>4. CASE \E t \in Notifier : WidiWrite(t)
  <2>1. \/ mMode' = mMode \/ mMode' = mMode \cup {"WIDI_ON"} \/ mMode' = mMode \ {"WIDI_ON"}
    BY <1>4 DEF WidiWrite
  <2> QED
    BY <2>1
<1>5. CASE \/ \E t \in Notifier, on \in BOOLEAN : WidiRead(t, on) \/ notifyMipi(t, on)
           \/ \E c \in Checker : LinkCheck(c)
           \/ \E c \in Checker : HdcpStep(c) /\ UNCHANGED composerVars
           \/ \E t, u \in Binder \cup Checker : ConnectorFreed(t, u)
           \/ TakeRequest \/ SpuriousWakeup \/ Environment
  <2>1. UNCHANGED mMode
    BY <1>5 DEF WidiRead, notifyMipi, LinkCheck, composerVars, ConnectorFreed, TakeRequest,
       SpuriousWakeup, Environment, Plug, Unplug, modeVars
  <2> QED
    BY <2>1
<1> QED
  BY <1>1, <1>2, <1>3, <1>4, <1>5, NextSteps

-----------------------------------------------------------------------------
(* The theorems.                                                           *)

(* MultiDisplayComposer.cpp: between operations mMode says what the panel shows,    *)
(* what the audio driver was told, which of the modes, that exclude each other, is  *)
(* on, and whether a monitor is connected, whose link alone is checked by a timer.  *)
(* It holds of any number of threads that call, and until notifyWidi, which takes   *)
(* another lock, loses an update.                                                   *)
THEOREM ModeAlwaysTrue == Spec => []ModeTrue
<1>1. MInv => ModeTrue
  <2> SUFFICES ASSUME Base, Sound, Settled PROVE ModeTrue
    BY DEF MInv, ModeTrue, Settled
  <2>1. Place = "free"
    BY DEF Settled, Place
  <2>2. PanelTrue /\ AudioTrue /\ HdmiTrue
    BY DEF Sound
  <2>3. /\ "MIPI_ON" \in mMode <=> panel
        /\ ~panel => ~mMipiOn
    BY <2>1, <2>2 DEF PanelTrue
  <2>4. "HDMI_CONNECTED" \in mMode <=> audio
    BY <2>1, <2>2 DEF AudioTrue, Changing, Authenticating
  <2>5. /\ "HDMI_ON" \in mMode <=> mMode \cap {"HDMI_CLONE", "HDMI_VIDEO_EXT"} # {}
        /\ "HDMI_CLONE" \in mMode => ~Playing
        /\ "HDMI_VIDEO_EXT" \in mMode => Playing /\ "OVERLAY_OFF" \notin mMode
        /\ mMode \cap {"HDMI_ON", "HDCP_ON"} # {} => "HDMI_CONNECTED" \in mMode
        /\ timer => "HDMI_CONNECTED" \in mMode
    BY <2>1, <2>2 DEF HdmiTrue, Shown
  <2> QED
    BY <2>3, <2>4, <2>5 DEF ModeTrue
<1> QED
  BY <1>1, AlwaysMInv, PTL

(* broadcastMessage_l: between operations every listener knows the mode as far as   *)
(* HDMI goes, also one that registered, or was taken through the local mode, in     *)
(* between.                                                                         *)
THEOREM ListenersAlwaysToldMode == Spec => []ListenersToldMode
<1>1. MInv => ListenersToldMode
  BY DEF MInv, Sound, Told, ListenersToldMode, Settled, Place
<1> QED
  BY <1>1, AlwaysMInv, PTL

(* setHdmiMode_l: whatever happens between two broadcasts, no listener is taken      *)
(* from clone mode to video extended mode, or back, at one stroke.                   *)
THEOREM AlwaysThroughLocalMode == Spec => ThroughLocalMode
<1>1. MInv /\ MInv' /\ [Next]_vars =>
        [\A c \in Client : torn \/ torn' \/
             ~ \/ "HDMI_CLONE" \in view[c] /\ "HDMI_VIDEO_EXT" \in view'[c]
               \/ "HDMI_VIDEO_EXT" \in view[c] /\ "HDMI_CLONE" \in view'[c]]_vars
  <2> SUFFICES ASSUME MInv, MInv', [Next]_vars, NEW c \in Client, ~torn, ~torn',
                      NEW a \in Shown, NEW b \in Shown, a # b, a \in view[c], b \in view'[c]
               PROVE  FALSE
    BY DEF Shown
  <2>1. /\ Place \notin Changing /\ a \in mMode
        /\ Place' \notin Changing /\ b \in mMode'
    BY DEF MInv, Sound, Told
  <2>2. b \in mMode
    <3>1. CASE UNCHANGED vars
      BY <2>1, <3>1 DEF vars, modeVars
    <3>2. CASE Next
      BY <2>1, <3>2, NoNewMode DEF MInv
    <3> QED
      BY <3>1, <3>2
  <2>3. HdmiTrue
    BY DEF MInv, Sound
  <2> QED
    BY <2>1, <2>2, <2>3 DEF HdmiTrue, Shown
<1> QED
  BY <1>1, AlwaysMInv, PTL DEF Spec, ThroughLocalMode

\* Who moves from a place that is not in an authentication leaves it alone.
LEMMA IedKept ==
    ASSUME Locked, IedRestored, ied' = ied,
           \/ UNCHANGED pc
           \/ \E t \in Thread, l \in BinderPlace \cup {"widi", "apply"} :
                Goto(t, l) /\ (pc[t] \in Authenticating => l \in Authenticating)
    PROVE  IedRestored'
<1>1. \A p \in HdcpThread : pc[p] \in Authenticating => pc'[p] \in Authenticating
  <2>1. ASSUME NEW t \in Thread, NEW l, Goto(t, l), pc[t] \in Authenticating => l \in Authenticating
        PROVE  \A p \in HdcpThread : pc[p] \in Authenticating => pc'[p] \in Authenticating
    BY <2>1, GotoEffect, ThreadFacts
  <2> QED
    BY <2>1
<1>2. ied \/ \E p \in HdcpThread : pc[p] \in Authenticating
  BY DEF IedRestored, Authenticating
<1> QED
  BY <1>1, <1>2 DEF IedRestored, Authenticating

LEMMA IedHdcpStep ==
    ASSUME Locked, IedRestored, NEW p \in HdcpThread, HdcpStep(p)
    PROVE  IedRestored'
<1>0. p \in Thread
  BY ThreadFacts
<1>1. CASE Enable(p)
  <2>1. pc'[p] = "try"
    BY <1>0, <1>1, GotoEffect DEF Enable, WorkStart
  <2> QED
    BY <2>1 DEF IedRestored
<1>2. CASE IedOn(p)
  BY <1>2 DEF IedOn, IedRestored
<1>3. CASE EnableSkipped(p) \/ StartLinkChecking(p)
  <2>1. pc[p] \notin Authenticating /\ Goto(p, "enabled") /\ ied' = ied
    BY <1>3 DEF EnableSkipped, StartLinkChecking, hdcpVars, Authenticating
  <2>2. "enabled" \in BinderPlace
    BY DEF BinderPlace, Changing
  <2> QED
    BY <1>0, <2>1, <2>2, IedKept
<1>4. CASE TryAuthenticated(p) \/ TryUnanswered(p) \/ TryFails(p) \/ TriesExhausted(p)
           \/ LostReset(p) \/ LostRead(p)
  <2>1. ied' = ied /\ (UNCHANGED pc \/ \E l \in Authenticating : Goto(p, l))
    BY <1>4 DEF TryAuthenticated, TryUnanswered, TryFails, TriesExhausted, LostReset, LostRead,
       hdcpVars, Authenticating
  <2>2. Authenticating \subseteq BinderPlace
    BY DEF BinderPlace, Changing
  <2> QED
    BY <1>0, <2>1, <2>2, IedKept
<1> QED
  BY <1>1, <1>2, <1>3, <1>4 DEF HdcpStep

LEMMA IedStep ==
    ASSUME Locked, IedRestored, [Next]_vars
    PROVE  IedRestored'
<1> USE DEF hdcpVars
<1>1. CASE UNCHANGED vars
  BY <1>1, IedKept DEF vars
<1>2. ASSUME NEW t \in Binder, Service(t) PROVE IedRestored'
  <2>0. t \in Thread /\ {"plug", "modetiming"} \subseteq BinderPlace
    BY ThreadFacts DEF BinderPlace, Looking, Selecting
  <2>1. ied' = ied /\ (UNCHANGED pc \/ (pc[t] = "idle" /\ \E l \in {"plug", "modetiming"} : Goto(t, l)))
    BY <1>2 DEF Service, notifyHotPlug, updateVideoInfo, prepareForVideo, SetHdmiPolicy, Enter,
       SetMipiPolicy, SelectMode, registerListener, unregisterListener
  <2> QED
    BY <2>0, <2>1, IedKept DEF Authenticating
<1>3. ASSUME NEW t \in Binder, Continue(t) PROVE IedRestored'
  <2>0. t \in Thread /\ t \in HdcpThread
    BY ThreadFacts
  <2>1. CASE HdcpStep(t) /\ UNCHANGED composerVars
    BY <2>0, <2>1, IedHdcpStep
  <2>2. CASE ~ (HdcpStep(t) /\ UNCHANGED composerVars)
    <3>1. /\ ied' = ied /\ pc[t] \notin Authenticating
          /\ \E l \in {"plugread", "plugged", "idle", "hdcpoff", "timing", "enable", "show", "selected"} :
               Goto(t, l)
      BY <1>3, <2>2 DEF Continue, setHdmiMode_l, PlugReset, PlugRead, AlreadyDisconnected,
         Disconnected, HdmiNotAllowed, AlreadyInMode, Transition, HdcpOff, SetTiming, ModeSet, Show,
         SelectTiming, SelectDone, Step, Leave, drm_hdcp_disable_hdcp, Authenticating
    <3>2. {"plugread", "plugged", "idle", "hdcpoff", "timing", "enable", "show", "selected"} \subseteq BinderPlace
      BY DEF BinderPlace, Looking, Changing, Selecting
    <3> QED
      BY <2>0, <3>1, <3>2, IedKept
  <2> QED
    BY <2>1, <2>2
<1>4. CASE \E c \in Checker : LinkCheck(c)
  <2>1. PICK c \in Checker : Goto(c, "try")
    BY <1>4 DEF LinkCheck, CheckLink, WorkStart
  <2>2. c \in HdcpThread /\ pc'[c] = "try"
    BY <2>1, GotoEffect, ThreadFacts
  <2> QED
    BY <2>2 DEF IedRestored
<1>5. CASE \E c \in Checker : HdcpStep(c) /\ UNCHANGED composerVars
  BY <1>5, IedHdcpStep, ThreadFacts
<1>6. CASE \/ \E t \in Notifier, on \in BOOLEAN : WidiRead(t, on) \/ notifyMipi(t, on)
           \/ \E t \in Notifier : WidiWrite(t)
           \/ \E t, u \in Binder \cup Checker : ConnectorFreed(t, u)
           \/ TakeRequest \/ SpuriousWakeup \/ Environment \/ setMipiMode_l
  <2>1. ied' = ied
    BY <1>6 DEF WidiRead, notifyMipi, WidiWrite, ConnectorFreed, TakeRequest, SpuriousWakeup,
       Environment, Plug, Unplug, setMipiMode_l
  <2>2. \/ UNCHANGED pc
        \/ \E t \in Notifier \cup {Mipi}, l \in {"widi", "apply", "idle"} : Goto(t, l) /\ pc[t] \notin Authenticating
    BY <1>6 DEF WidiRead, notifyMipi, WidiWrite, ConnectorFreed, TakeRequest, SpuriousWakeup,
       Environment, Plug, Unplug, setMipiMode_l, Step, Authenticating
  <2>3. Notifier \cup {Mipi} \subseteq Thread /\ "idle" \in BinderPlace
    BY ThreadFacts DEF BinderPlace
  <2> QED
    BY <2>1, <2>2, <2>3, IedKept
<1> QED
  BY <1>1, <1>2, <1>3, <1>4, <1>5, <1>6, NextSteps

(* drm_hdcp.cpp: display encryption, off for an authentication, is on again when     *)
(* none is in progress, however many threads authenticated at once, with mLock or    *)
(* without, and whichever way each of them ended.                                    *)
THEOREM IedAlwaysRestored == Spec => []IedRestored
<1>1. Init => IedRestored
  BY DEF Init, hdcp_init, IedRestored
<1>2. MInv /\ IedRestored /\ [Next]_vars => IedRestored'
  BY IedStep DEF MInv, Base
<1> QED
  BY <1>1, <1>2, AlwaysMInv, PTL DEF Spec

-----------------------------------------------------------------------------
(* What HWComposer is told.                                                *)

TInv == DrmInv /\ mVideo \in AVideo \cup {NoTiming}

LEMMA TInvInit == Init => TInv
BY DrmInit DEF Init, TInv

LEMMA TInvSame ==
    ASSUME TInv, UNCHANGED <<cable, drm>>, mVideo' \in {mVideo, NoTiming} \cup VideoInfo
    PROVE  TInv'
<1>1. DrmInv'
  BY DEF TInv, DrmInv
<1> QED
  BY <1>1, ComposerAssumption DEF TInv, AVideo

LEMMA TInvService ==
    ASSUME TInv, NEW t \in Binder, Service(t)
    PROVE  TInv'
<1>1. CASE notifyHotPlug(t) \/ prepareForVideo(t) \/ \E v \in VideoInfo \cup {NoTiming} : updateVideoInfo(t, v)
  <2>1. UNCHANGED drmVars /\ mVideo' \in {mVideo, NoTiming} \cup VideoInfo
    BY <1>1 DEF notifyHotPlug, prepareForVideo, updateVideoInfo, Enter
  <2> QED
    BY <2>1, TInvSame DEF drmVars
<1>2. ASSUME NEW b \in BOOLEAN, SetHdmiPolicy(t, b) \/ SetMipiPolicy(t, b) PROVE TInv'
  <2>1. UNCHANGED <<cable, drm, mVideo>>
    BY <1>2 DEF SetHdmiPolicy, SetMipiPolicy, Enter, drmVars
  <2> QED
    BY <2>1, TInvSame
<1>3. ASSUME drm.product # NoMonitor, NEW m \in drm_hdmi_getModeInfo(Modes[drm.product]), SelectMode(t, m)
      PROVE  TInv'
  <2>1. drm' = drm_hdmi_setModeInfo(m) /\ UNCHANGED <<cable, mVideo>>
    BY <1>3 DEF SelectMode
  <2> QED
    BY <1>3, <2>1, DrmSelect DEF TInv
<1>4. ASSUME NEW c \in Client, registerListener(t, c) \/ unregisterListener(t, c) PROVE TInv'
  <2>1. UNCHANGED <<cable, drm, mVideo>>
    BY <1>4 DEF registerListener, unregisterListener, drmVars
  <2> QED
    BY <2>1, TInvSame
<1> QED
  BY <1>1, <1>2, <1>3, <1>4 DEF Service

LEMMA TInvHdcpStep ==
    ASSUME TInv, NEW p, HdcpStep(p), UNCHANGED mVideo
    PROVE  TInv'
<1>1. CASE LostReset(p)
  <2>1. drm' = connectionReset /\ UNCHANGED cable
    BY <1>1 DEF LostReset
  <2> QED
    BY <2>1, DrmReset DEF TInv
<1>2. CASE LostRead(p)
  <2>1. PICK readable \in BOOLEAN : drm' = connectionRead(readable)
    BY <1>2 DEF LostRead
  <2>2. UNCHANGED cable
    BY <1>2 DEF LostRead
  <2> QED
    BY <2>1, <2>2, DrmRead DEF TInv
<1>3. CASE ~(LostReset(p) \/ LostRead(p))
  <2>1. UNCHANGED <<cable, drm>>
    BY <1>3 DEF HdcpStep, EnableSkipped, Enable, WorkStart, TryAuthenticated, TryUnanswered, TryFails,
         TriesExhausted, IedOn, StartLinkChecking, drmVars
  <2> QED
    BY <2>1, TInvSame
<1> QED
  BY <1>1, <1>2, <1>3

LEMMA TInvContinue ==
    ASSUME TInv, NEW t \in Binder, Continue(t)
    PROVE  TInv'
<1>1. CASE PlugReset(t)
  <2>1. drm' = connectionReset /\ UNCHANGED <<cable, mVideo>>
    BY <1>1 DEF PlugReset
  <2> QED
    BY <2>1, DrmReset DEF TInv
<1>2. CASE PlugRead(t)
  <2>1. PICK readable \in BOOLEAN : drm' = connectionRead(readable)
    BY <1>2 DEF PlugRead
  <2>2. UNCHANGED <<cable, mVideo>>
    BY <1>2 DEF PlugRead
  <2> QED
    BY <2>1, <2>2, DrmRead DEF TInv
<1>3. CASE Disconnected(t)
  <2>1. drm' = connectionReset /\ UNCHANGED <<cable, mVideo>>
    BY <1>3 DEF Disconnected
  <2> QED
    BY <2>1, DrmReset DEF TInv
<1>4. CASE HdcpStep(t) /\ UNCHANGED composerVars
  BY <1>4, TInvHdcpStep DEF composerVars
<1>5. CASE AlreadyDisconnected(t) \/ HdmiNotAllowed(t) \/ AlreadyInMode(t) \/ Transition(t) \/ HdcpOff(t)
  <2>1. UNCHANGED <<cable, drm, mVideo>>
    BY <1>5 DEF AlreadyDisconnected, HdmiNotAllowed, AlreadyInMode, Transition, HdcpOff, drmVars
  <2> QED
    BY <2>1, TInvSame
<1>6. CASE SetTiming(t) \/ ModeSet(t) \/ Show(t) \/ SelectTiming(t) \/ SelectDone(t)
  <2>1. UNCHANGED <<cable, drm, mVideo>>
    BY <1>6 DEF SetTiming, ModeSet, Show, SelectTiming, SelectDone, drmVars
  <2> QED
    BY <2>1, TInvSame
<1> QED
  BY <1>1, <1>2, <1>3, <1>4, <1>5, <1>6 DEF Continue, setHdmiMode_l

LEMMA TInvNext == TInv /\ [Next]_vars => TInv'
<1> SUFFICES ASSUME TInv, [Next]_vars PROVE TInv'
  OBVIOUS
<1>1. CASE UNCHANGED vars
  BY <1>1, TInvSame DEF vars, drmVars
<1>2. CASE Next
  <2>1. CASE \E t \in Binder : Service(t) \/ Continue(t)
    BY <2>1, TInvService, TInvContinue
  <2>2. CASE \/ \E t \in Notifier, on \in BOOLEAN : WidiRead(t, on) \/ notifyMipi(t, on)
             \/ \E t \in Notifier : WidiWrite(t)
             \/ \E t, u \in Binder \cup Checker : ConnectorFreed(t, u)
             \/ TakeRequest \/ SpuriousWakeup \/ setMipiMode_l
    <3>1. UNCHANGED <<cable, drm, mVideo>>
      BY <2>2 DEF WidiRead, notifyMipi, WidiWrite, ConnectorFreed, TakeRequest, SpuriousWakeup,
           setMipiMode_l, drmVars
    <3> QED
      BY <3>1, TInvSame
  <2>3. CASE \E c \in Checker : LinkCheck(c)
    <3>1. UNCHANGED <<cable, drm, mVideo>>
      BY <2>3 DEF LinkCheck, CheckLink, WorkStart, drmVars, composerVars
    <3> QED
      BY <3>1, TInvSame
  <2>4. CASE \E c \in Checker : HdcpStep(c) /\ UNCHANGED composerVars
    BY <2>4, TInvHdcpStep DEF composerVars
  <2>5. CASE Environment
    <3>1. cable' \in Monitor \cup {NoMonitor} /\ UNCHANGED <<drm, mVideo>>
      BY <2>5 DEF Environment, Plug, Unplug
    <3> QED
      BY <3>1 DEF TInv, DrmInv
  <2> QED
    BY <1>2, <2>1, <2>2, <2>3, <2>4, <2>5, NextSteps
<1> QED
  BY <1>1, <1>2

\* A thread leaves "timing" and "modetiming" by telling HWComposer.
LEMMA OnlyTiming ==
    ASSUME Locked, Next, NEW t \in Binder, pc[t] \in {"timing", "modetiming"}, pc'[t] # pc[t]
    PROVE  SetTiming(t) \/ SelectTiming(t)
<1>1. lock = t /\ lock # Free /\ t \in Thread
  BY ThreadFacts DEF Locked
<1>2. \A u \in Thread \ {t} : ~\E l : Goto(u, l)
  BY GotoEffect, <1>1
<1>3. ASSUME NEW u \in Binder, Service(u) PROVE FALSE
  BY <1>1, <1>3 DEF Service, notifyHotPlug, prepareForVideo, updateVideoInfo, SetHdmiPolicy, SetMipiPolicy,
       SelectMode, registerListener, unregisterListener, Enter
<1>4. ASSUME NEW u \in Binder, u # t, Continue(u) PROVE FALSE
  <2>1. pc[u] = "idle"
    BY <1>1, <1>4 DEF Locked
  <2>2. CASE HdcpStep(u)
    BY <2>1, <2>2 DEF HdcpStep, EnableSkipped, Enable, TryAuthenticated, TryUnanswered, TryFails,
         TriesExhausted, LostReset, LostRead, IedOn, StartLinkChecking
  <2>3. CASE ~HdcpStep(u)
    BY <1>4, <2>1, <2>3 DEF Continue, setHdmiMode_l, PlugReset, PlugRead, AlreadyDisconnected, Disconnected,
         HdmiNotAllowed, AlreadyInMode, Transition, HdcpOff, SetTiming, ModeSet, Show, SelectTiming,
         SelectDone, Step
  <2> QED
    BY <2>2, <2>3
<1>5. ASSUME Continue(t) PROVE SetTiming(t) \/ SelectTiming(t)
  <2>1. ~HdcpStep(t)
    BY DEF HdcpStep, EnableSkipped, Enable, TryAuthenticated, TryUnanswered, TryFails,
         TriesExhausted, LostReset, LostRead, IedOn, StartLinkChecking
  <2> QED
    BY <1>5, <2>1 DEF Continue, setHdmiMode_l, PlugReset, PlugRead, AlreadyDisconnected, Disconnected,
         HdmiNotAllowed, AlreadyInMode, Transition, HdcpOff, ModeSet, Show, SelectDone, Step
<1>6. \A u \in Notifier \cup Checker \cup {Mipi} : u \in Thread \ {t}
  BY ThreadFacts
<1>7. CASE \/ \E u \in Notifier, on \in BOOLEAN : WidiRead(u, on) \/ notifyMipi(u, on)
           \/ \E u \in Notifier : WidiWrite(u)
  <2>1. UNCHANGED pc \/ \E u \in Notifier : \E l : Goto(u, l)
    BY <1>7 DEF WidiRead, notifyMipi, WidiWrite
  <2> QED
    BY <1>2, <1>6, <2>1
<1>8. CASE \/ \E c \in Checker : LinkCheck(c)
           \/ \E c \in Checker : HdcpStep(c) /\ UNCHANGED composerVars
  <2>1. UNCHANGED pc \/ \E c \in Checker : \E l : Goto(c, l)
    BY <1>8 DEF LinkCheck, CheckLink, WorkStart, HdcpStep, EnableSkipped, Enable, TryAuthenticated,
         TryUnanswered, TryFails, TriesExhausted, LostReset, LostRead, IedOn, StartLinkChecking
  <2> QED
    BY <1>2, <1>6, <2>1
<1>9. CASE \/ \E u, v \in Binder \cup Checker : ConnectorFreed(u, v)
           \/ TakeRequest \/ SpuriousWakeup \/ Environment \/ setMipiMode_l
  <2>1. UNCHANGED pc \/ \E l : Goto(Mipi, l)
    BY <1>9 DEF ConnectorFreed, TakeRequest, SpuriousWakeup, Environment, Plug, Unplug, setMipiMode_l
  <2> QED
    BY <1>2, <1>6, <2>1
<1> QED
  BY <1>3, <1>4, <1>5, <1>7, <1>8, <1>9, NextSteps

\* The mode found for a video fits it.
LEMMA FoundFits ==
    ASSUME NEW m, Modes[m] \in Seq(DrmMode), NEW v \in AVideo \cup {NoTiming}, NEW x,
           x \in drm_hdmi_getModeInfo(Modes[m]),
           v = NoTiming \/ \E p \in 1..Len(Modes[m]) :
                               x = drm_hdmi_setTiming(Modes[m][VideoMode(Modes[m], v, p)])
    PROVE  Fits(m, v, x)
<1> DEFINE M == Modes[m]
           timings == {drm_hdmi_setTiming(M[i]) : i \in DOMAIN M}
           sized == {y \in timings : <<y.w, y.h>> = VideoSize(v)}
           multiples == {y \in sized : v.r # 0 /\ y.r % v.r = 0 /\ (y.r # v.r \/ drm_is_preferred_flags(y))}
<1>1. x \in timings
  BY DEF drm_hdmi_getModeInfo
<1>2. ASSUME v # NoTiming
      PROVE  /\ sized # {} => x \in sized
             /\ multiples # {} => x.r % v.r = 0
  <2>1. v \in AVideo
    BY <1>2
  <2>2. PICK p \in 1..Len(M) : x = drm_hdmi_setTiming(M[VideoMode(M, v, p)])
    BY <1>2
  <2> DEFINE index == VideoMode(M, v, p)
  <2>3. /\ index \in 1..Len(M)
        /\ Matched(M, v) # {} => index \in Matched(M, v)
        /\ (\E j \in Matched(M, v) : Multiple(M, j, v.r)) => M[index].r % v.r = 0
    BY <2>1, VideoModeIs
  <2> HIDE DEF index
  <2>4. x = drm_hdmi_setTiming(M[index])
    BY <2>2 DEF index
  <2>5. \A i \in DOMAIN M : drm_hdmi_setTiming(M[i]) \in sized <=> i \in Matched(M, v)
    BY DEF Matched, drm_hdmi_setTiming
  <2>6. sized # {} => x \in sized
    <3>1. sized # {} => Matched(M, v) # {}
      BY <2>5
    <3> QED
      BY <2>3, <2>4, <2>5, <3>1
  <2>7. ASSUME NEW y \in multiples PROVE x.r % v.r = 0
    <3>1. PICK i \in DOMAIN M : y = drm_hdmi_setTiming(M[i])
      OBVIOUS
    <3>2. i \in Matched(M, v)
      BY <2>5, <3>1
    <3>3. y.r = M[i].r /\ (drm_is_preferred_flags(y) <=> drm_is_preferred_flags(M[i]))
      BY <3>1 DEF drm_hdmi_setTiming, drm_is_preferred_flags
    <3>4. Multiple(M, i, v.r)
      BY <3>3 DEF Multiple
    <3>5. M[index].r % v.r = 0
      BY <2>3, <3>2, <3>4
    <3> QED
      BY <2>4, <3>5 DEF drm_hdmi_setTiming
  <2> QED
    BY <2>6, <2>7
<1> QED
  BY <1>1, <1>2 DEF Fits

\* TimingFits for all monitors and videos, whatever list of modes a monitor has: the
\* timing HWComposer is told is one of the monitor that is connected, also when a link
\* check reads the connection again beside the composer, and fits the video.
THEOREM TimingAlwaysFits == Spec => TimingFits
<1> DEFINE Reported(t) ==
      pc[t] \in {"timing", "modetiming"} /\ pc'[t] # pc[t] /\ Hwc \in listeners /\ drm.connected =>
         IF drm.modeValid \/ pc[t] = "modetiming"
         THEN timing' \in drm_hdmi_getModeInfo(Modes[drm.conn])
         ELSE Fits(drm.conn, mVideo, timing')
<1>1. MInv /\ TInv /\ [Next]_vars => [\A t \in Binder : Reported(t)]_vars
  <2> SUFFICES ASSUME MInv, TInv, Next, NEW t \in Binder,
                      pc[t] \in {"timing", "modetiming"}, pc'[t] # pc[t], Hwc \in listeners, drm.connected
               PROVE  IF drm.modeValid \/ pc[t] = "modetiming"
                      THEN timing' \in drm_hdmi_getModeInfo(Modes[drm.conn])
                      ELSE Fits(drm.conn, mVideo, timing')
    OBVIOUS
  <2>1. SetTiming(t) \/ SelectTiming(t)
    BY OnlyTiming DEF MInv, Base
  <2>2. DrmInv /\ mVideo \in AVideo \cup {NoTiming}
    BY DEF TInv
  <2>3. CASE SetTiming(t)
    <3>1. pc[t] = "timing" /\ \E old : timing' = drm_hdmi_getTiming(mVideo, old)
      BY <2>3 DEF SetTiming, Step
    <3>2. /\ Modes[drm.conn] \in Seq(DrmMode)
          /\ timing' \in drm_hdmi_getModeInfo(Modes[drm.conn])
          /\ drm.modeValid \/ mVideo = NoTiming \/ \E p \in 1..Len(Modes[drm.conn]) :
               timing' = drm_hdmi_setTiming(Modes[drm.conn][VideoMode(Modes[drm.conn], mVideo, p)])
      BY <2>2, <3>1, TimingFound
    <3> QED
      BY <2>2, <3>1, <3>2, FoundFits
  <2>4. CASE SelectTiming(t)
    <3>1. pc[t] = "modetiming" /\ \E old : timing' = drm_hdmi_getTiming(NoTiming, old)
      BY <2>4 DEF SelectTiming, Step
    <3>2. timing' \in drm_hdmi_getModeInfo(Modes[drm.conn])
      BY <2>2, <3>1, TimingFound
    <3> QED
      BY <3>1, <3>2
  <2> QED
    BY <2>1, <2>3, <2>4
<1> QED
  BY <1>1, AlwaysMInv, TInvInit, TInvNext, PTL DEF Spec, TimingFits

=============================================================================
