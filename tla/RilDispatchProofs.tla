--------------------------- MODULE RilDispatchProofs ---------------------------
(***************************************************************************)
(* Proofs about the dispatch functions: whatever a block is and wherever   *)
(* it ends, what they pass on to the vendor is made of what was sent.      *)
(*                                                                         *)
(* q is the block that ends early and p the whole one (Cut).  Two readers  *)
(* of the same format, one of each block, agree until the first one comes  *)
(* to the end of q; from then on the status it returns shows whether       *)
(* anything but strings is missing (Agree).  Reading a format and reading  *)
(* a list are folds, unfolded here by an induction on a least              *)
(* counterexample (LeastNat), as the library's rule of induction takes a   *)
(* predicate as a parameter.                                               *)
(***************************************************************************)
EXTENDS RilDispatch, TLAPS, WellFoundedInduction

-----------------------------------------------------------------------------
(* Least and greatest elements.                                            *)

LEMMA LeastNat ==
    ASSUME NEW S \in SUBSET Nat, S # {}
    PROVE  \E n \in S : \A m \in S : n <= m
<1>1. PICK n \in S : \A m \in S : <<m, n>> \notin OpToRel(<, Nat)
  BY NatLessThanWellFounded, WFMin
<1>2. \A m \in S : ~(m < n)
  BY <1>1 DEF OpToRel
<1> QED
  BY <1>2

LEMMA MaxIs ==
    ASSUME NEW n \in Nat, NEW S \in SUBSET (0..n), S # {}
    PROVE  Max(S) \in S /\ \A m \in S : Max(S) >= m
<1>0. \A m \in S : m \in 0..n /\ n - m \in Nat
  OBVIOUS
<1> DEFINE T == {k \in Nat : \E m \in S : k = n - m}
<1>1. T # {}
  BY <1>0
<1>2. PICK t \in T : \A u \in T : t <= u
  <2> HIDE DEF T
  <2>1. T \in SUBSET Nat
    BY DEF T
  <2> QED
    BY <1>1, <2>1, LeastNat
<1>3. PICK m \in S : t = n - m
  BY <1>2
<1>4. \A u \in S : m >= u
  <2> SUFFICES ASSUME NEW u \in S PROVE m >= u
    OBVIOUS
  <2>1. n - u \in T
    BY <1>0
  <2>2. n - m <= n - u
    BY <1>2, <1>3, <2>1
  <2> QED
    BY <1>0, <2>2
<1> QED
  BY <1>4 DEF Max

\* The set without its largest element is that much smaller.
LEMMA WithoutMax ==
    ASSUME NEW k \in Nat, NEW s \in SUBSET (1..(k + 1)), s # {}
    PROVE  Max(s) \in s /\ s \ {Max(s)} \in SUBSET (1..k)
<1>1. k + 1 \in Nat /\ s \in SUBSET (0..(k + 1))
  OBVIOUS
<1>2. Max(s) \in s /\ \A m \in s : Max(s) >= m
  BY <1>1, MaxIs
<1>3. PICK x \in s : x = Max(s) /\ \A m \in s : x >= m
  BY <1>2
<1>4. \A m \in s : m \in 1..(k + 1) /\ (m # x => m \in 1..k)
  BY <1>3
<1> QED
  BY <1>3, <1>4

LEMMA MaxSegment ==
    ASSUME NEW k \in Nat
    PROVE  Max(1..(k + 1)) = k + 1 /\ 1..(k + 1) \ {k + 1} = 1..k
<1>1. k + 1 \in Nat /\ 1..(k + 1) \in SUBSET (0..(k + 1)) /\ 1..(k + 1) # {}
  OBVIOUS
<1>2. Max(1..(k + 1)) \in 1..(k + 1) /\ \A m \in 1..(k + 1) : Max(1..(k + 1)) >= m
  BY <1>1, MaxIs
<1>3. k + 1 \in 1..(k + 1)
  OBVIOUS
<1>4. Max(1..(k + 1)) = k + 1
  BY <1>2, <1>3
<1> QED
  BY <1>4

-----------------------------------------------------------------------------
(* Reading a struct and a list, step by step.                              *)

\* Reading one member of a struct.
ReadMember(p, r, f) == IF f.kind = "digits" THEN ReadDigits(p, r, f) ELSE ReadField(p, r, f)

\* The readers after 0 to n members, and after 0 to n structs.
Steps(p, at, n, format, R) ==
    /\ R[0] = [at |-> at, ok |-> TRUE, s |-> <<>>]
    /\ \A k \in 0..(n - 1) : R[k + 1] = ReadMember(p, R[k], format[k + 1])
    /\ Read(p, at, format) = R[n]

ListSteps(p, at, n, format, L) ==
    /\ L[0] = [at |-> at, ok |-> TRUE, list |-> <<>>]
    /\ \A k \in 0..(n - 1) :
         L[k + 1] = [at |-> Read(p, L[k].at, format).at,
                     ok |-> Read(p, L[k].at, format).ok,
                     list |-> Append(L[k].list, Read(p, L[k].at, format).s)]
    /\ ReadList(p, at, n, format) = L[n]

LEMMA ReadSteps ==
    ASSUME NEW p, NEW at, NEW n \in Nat, NEW format, DOMAIN format = 1..n
    PROVE  \E R : Steps(p, at, n, format, R)
<1> DEFINE st(r, i) == ReadMember(p, r, format[i])
           base == [at |-> at, ok |-> TRUE, s |-> <<>>]
           F(g, s) == IF s = {} THEN base ELSE LET x == Max(s) IN st(g[s \ {x}], x)
           it == CHOOSE g : g = [s \in SUBSET (1..n) |-> F(g, s)]
<1>2. Read(p, at, format) = it[1..n]
  BY DEF Read, FoldLeft, MapThenFoldSet, ReadMember
<1> HIDE DEF st, base
<1> DEFINE Unfolds(k) == \E g : g = [s \in SUBSET (1..k) |-> F(g, s)]
<1>3. Unfolds(0)
  <2> DEFINE g == [s \in SUBSET (1..0) |-> base]
  <2>1. SUBSET (1..0) = {{}}
    OBVIOUS
  <2>2. g = [s \in SUBSET (1..0) |-> F(g, s)]
    BY <2>1
  <2> QED
    BY <2>2
<1>4. ASSUME NEW k \in Nat, Unfolds(k) PROVE Unfolds(k + 1)
  <2>1. PICK g : g = [s \in SUBSET (1..k) |-> F(g, s)]
    BY <1>4
  <2> DEFINE f == [s \in SUBSET (1..(k + 1)) |-> F(g, s)]
  <2>2. \A s \in SUBSET (1..k) : f[s] = g[s]
    <3> HIDE DEF F
    <3>1. \A s \in SUBSET (1..k) : s \in SUBSET (1..(k + 1))
      OBVIOUS
    <3> QED
      BY <2>1, <3>1
  <2>3. \A s \in SUBSET (1..(k + 1)) : F(f, s) = F(g, s)
    <3> SUFFICES ASSUME NEW s \in SUBSET (1..(k + 1)), s # {} PROVE F(f, s) = F(g, s)
      OBVIOUS
    <3>1. f[s \ {Max(s)}] = g[s \ {Max(s)}]
      <4> HIDE DEF f
      <4> QED
        BY <2>2, WithoutMax
    <3> HIDE DEF f
    <3> QED
      BY <3>1
  <2>4. f = [s \in SUBSET (1..(k + 1)) |-> F(f, s)]
    <3> DEFINE G(s) == F(f, s)
    <3>1. \A s \in SUBSET (1..(k + 1)) : G(s) = F(g, s)
      BY <2>3
    <3> HIDE DEF F, G
    <3>2. f = [s \in SUBSET (1..(k + 1)) |-> G(s)]
      BY <3>1
    <3> QED
      BY <3>2 DEF G
  <2> HIDE DEF f, F
  <2> QED
    BY <2>4
<1>5. Unfolds(n)
  <2> DEFINE bad == {k \in Nat : ~Unfolds(k)}
  <2> HIDE DEF Unfolds
  <2> SUFFICES ASSUME bad # {} PROVE FALSE
    OBVIOUS
  <2>1. PICK k \in bad : \A m \in bad : k <= m
    <3>1. bad \in SUBSET Nat
      OBVIOUS
    <3> HIDE DEF bad
    <3> QED
      BY <3>1, LeastNat
  <2>2. k # 0 /\ k - 1 \in Nat
    BY <1>3, <2>1
  <2>3. ~Unfolds(k) /\ Unfolds(k - 1)
    BY <2>1, <2>2
  <2> QED
    BY <1>4, <2>2, <2>3
<1>6. it = [s \in SUBSET (1..n) |-> F(it, s)]
  <2> HIDE DEF F
  <2> QED
    BY <1>5
<1> HIDE DEF it
<1>7. it[1..0] = base
  <2>1. 1..0 \in SUBSET (1..n) /\ 1..0 = {}
    OBVIOUS
  <2>2. it[1..0] = F(it, 1..0)
    <3> HIDE DEF F
    <3> QED
      BY <1>6, <2>1
  <2> QED
    BY <2>1, <2>2
<1>8. ASSUME NEW k \in Nat, k + 1 <= n PROVE it[1..(k + 1)] = st(it[1..k], k + 1)
  <2>1. k + 1 \in 1..n /\ 1..(k + 1) \in SUBSET (1..n) /\ k + 1 \in 1..(k + 1)
    BY <1>8
  <2>2. it[1..(k + 1)] = F(it, 1..(k + 1))
    <3> HIDE DEF F
    <3> QED
      BY <1>6, <2>1
  <2>3. 1..(k + 1) # {}
    BY <2>1
  <2> QED
    BY <2>2, <2>3, MaxSegment
<1> HIDE DEF F
<1> DEFINE R == [k \in 0..n |-> it[1..k]]
<1>9. R[0] = base /\ R[n] = it[1..n]
  BY <1>7
<1>10. \A k \in 0..(n - 1) : R[k + 1] = st(R[k], k + 1)
  <2> TAKE k \in 0..(n - 1)
  <2>1. k \in Nat /\ k + 1 <= n /\ k \in 0..n /\ k + 1 \in 0..n
    OBVIOUS
  <2> QED
    BY <1>8, <2>1
<1>11. Steps(p, at, n, format, R)
  <2> HIDE DEF R
  <2> QED
    BY <1>2, <1>9, <1>10 DEF base, st, Steps
<1> QED
  BY <1>11

LEMMA ReadListSteps ==
    ASSUME NEW p, NEW at, NEW n \in Nat, NEW format
    PROVE  \E L : ListSteps(p, at, n, format, L)
<1> DEFINE st(r, i) == [at |-> Read(p, r.at, format).at, ok |-> Read(p, r.at, format).ok,
                        list |-> Append(r.list, Read(p, r.at, format).s)]
           base == [at |-> at, ok |-> TRUE, list |-> <<>>]
           F(g, s) == IF s = {} THEN base ELSE LET x == Max(s) IN st(g[s \ {x}], x)
           it == CHOOSE g : g = [s \in SUBSET (1..n) |-> F(g, s)]
<1>2. ReadList(p, at, n, format) = it[1..n]
  <2>1. DOMAIN [k \in 1..n |-> k] = 1..n
    OBVIOUS
  <2> QED
    BY <2>1 DEF ReadList, FoldLeft, MapThenFoldSet
<1> HIDE DEF st, base
<1> DEFINE Unfolds(k) == \E g : g = [s \in SUBSET (1..k) |-> F(g, s)]
<1>3. Unfolds(0)
  <2> DEFINE g == [s \in SUBSET (1..0) |-> base]
  <2>1. SUBSET (1..0) = {{}}
    OBVIOUS
  <2>2. g = [s \in SUBSET (1..0) |-> F(g, s)]
    BY <2>1
  <2> QED
    BY <2>2
<1>4. ASSUME NEW k \in Nat, Unfolds(k) PROVE Unfolds(k + 1)
  <2>1. PICK g : g = [s \in SUBSET (1..k) |-> F(g, s)]
    BY <1>4
  <2> DEFINE f == [s \in SUBSET (1..(k + 1)) |-> F(g, s)]
  <2>2. \A s \in SUBSET (1..k) : f[s] = g[s]
    <3> HIDE DEF F
    <3>1. \A s \in SUBSET (1..k) : s \in SUBSET (1..(k + 1))
      OBVIOUS
    <3> QED
      BY <2>1, <3>1
  <2>3. \A s \in SUBSET (1..(k + 1)) : F(f, s) = F(g, s)
    <3> SUFFICES ASSUME NEW s \in SUBSET (1..(k + 1)), s # {} PROVE F(f, s) = F(g, s)
      OBVIOUS
    <3>1. f[s \ {Max(s)}] = g[s \ {Max(s)}]
      <4> HIDE DEF f
      <4> QED
        BY <2>2, WithoutMax
    <3> HIDE DEF f
    <3> QED
      BY <3>1
  <2>4. f = [s \in SUBSET (1..(k + 1)) |-> F(f, s)]
    <3> DEFINE G(s) == F(f, s)
    <3>1. \A s \in SUBSET (1..(k + 1)) : G(s) = F(g, s)
      BY <2>3
    <3> HIDE DEF F, G
    <3>2. f = [s \in SUBSET (1..(k + 1)) |-> G(s)]
      BY <3>1
    <3> QED
      BY <3>2 DEF G
  <2> HIDE DEF f, F
  <2> QED
    BY <2>4
<1>5. Unfolds(n)
  <2> DEFINE bad == {k \in Nat : ~Unfolds(k)}
  <2> HIDE DEF Unfolds
  <2> SUFFICES ASSUME bad # {} PROVE FALSE
    OBVIOUS
  <2>1. PICK k \in bad : \A m \in bad : k <= m
    <3>1. bad \in SUBSET Nat
      OBVIOUS
    <3> HIDE DEF bad
    <3> QED
      BY <3>1, LeastNat
  <2>2. k # 0 /\ k - 1 \in Nat
    BY <1>3, <2>1
  <2>3. ~Unfolds(k) /\ Unfolds(k - 1)
    BY <2>1, <2>2
  <2> QED
    BY <1>4, <2>2, <2>3
<1>6. it = [s \in SUBSET (1..n) |-> F(it, s)]
  <2> HIDE DEF F
  <2> QED
    BY <1>5
<1> HIDE DEF it
<1>7. it[1..0] = base
  <2>1. 1..0 \in SUBSET (1..n) /\ 1..0 = {}
    OBVIOUS
  <2>2. it[1..0] = F(it, 1..0)
    <3> HIDE DEF F
    <3> QED
      BY <1>6, <2>1
  <2> QED
    BY <2>1, <2>2
<1>8. ASSUME NEW k \in Nat, k + 1 <= n PROVE it[1..(k + 1)] = st(it[1..k], k + 1)
  <2>1. k + 1 \in 1..n /\ 1..(k + 1) \in SUBSET (1..n) /\ k + 1 \in 1..(k + 1)
    BY <1>8
  <2>2. it[1..(k + 1)] = F(it, 1..(k + 1))
    <3> HIDE DEF F
    <3> QED
      BY <1>6, <2>1
  <2>3. 1..(k + 1) # {}
    BY <2>1
  <2> QED
    BY <2>2, <2>3, MaxSegment
<1> HIDE DEF F
<1> DEFINE L == [k \in 0..n |-> it[1..k]]
<1>9. L[0] = base /\ L[n] = it[1..n]
  BY <1>7
<1>10. \A k \in 0..(n - 1) : L[k + 1] = st(L[k], k + 1)
  <2> TAKE k \in 0..(n - 1)
  <2>1. k \in Nat /\ k + 1 <= n /\ k \in 0..n /\ k + 1 \in 0..n
    OBVIOUS
  <2> QED
    BY <1>8, <2>1
<1>11. ListSteps(p, at, n, format, L)
  <2> HIDE DEF L
  <2> QED
    BY <1>2, <1>9, <1>10 DEF base, st, ListSteps
<1> QED
  BY <1>11

-----------------------------------------------------------------------------
(* Reading one member.                                                     *)

FieldAt(p, at) == IF at <= Len(p) THEN at + 1 ELSE at
FieldOk(p, at, ok, kind) == IF kind = "str" THEN ok ELSE at <= Len(p)
FieldValue(p, at, kind) ==
    IF at <= Len(p) THEN IF kind \in DOMAIN p[at] THEN p[at][kind] ELSE Unread
    ELSE IF kind = "str" THEN NULL ELSE Unread

\* How many digits are read.
Said(s, count, max) ==
    LET said == IF count = NULL THEN max
                ELSE IF s[count] = Unread THEN 0 ELSE Least(s[count], max)
    IN  IF said < 0 THEN 0 ELSE said

DigitsAt(p, at, n) == IF at + n - 1 <= Len(p) THEN at + n ELSE Len(p) + 1
DigitsOk(p, at, ok, n) == IF n = 0 THEN ok ELSE at + n - 1 <= Len(p)
DigitsValue(p, at, n) ==
    [k \in 1..n |-> IF at + n - 1 <= Len(p) /\ "byte" \in DOMAIN p[at + k - 1]
                    THEN p[at + k - 1].byte ELSE Unread]

LEMMA FieldIs ==
    ASSUME NEW p, NEW r, NEW f
    PROVE  /\ ReadField(p, r, f).at = FieldAt(p, r.at)
           /\ ReadField(p, r, f).ok = FieldOk(p, r.at, r.ok, f.kind)
           /\ ReadField(p, r, f).s = WithMember(r.s, f.name, FieldValue(p, r.at, f.kind))
BY DEF ReadField, FieldAt, FieldOk, FieldValue

LEMMA DigitsAre ==
    ASSUME NEW p, NEW r, NEW f
    PROVE  LET n == Said(r.s, f.count, f.max)
           IN  /\ ReadDigits(p, r, f).at = DigitsAt(p, r.at, n)
               /\ ReadDigits(p, r, f).ok = DigitsOk(p, r.at, r.ok, n)
               /\ ReadDigits(p, r, f).s = WithMember(r.s, f.name, DigitsValue(p, r.at, n))
BY DEF ReadDigits, Said, DigitsAt, DigitsOk, DigitsValue

LEMMA WithMemberIs ==
    ASSUME NEW s, NEW name, NEW value
    PROVE  /\ DOMAIN WithMember(s, name, value) = DOMAIN s \cup {name}
           /\ \A m \in DOMAIN s : WithMember(s, name, value)[m] = s[m]
           /\ name \notin DOMAIN s => WithMember(s, name, value)[name] = value
BY DEF WithMember

-----------------------------------------------------------------------------
(* Two readers.                                                            *)

\* q is p, or ends before; the ints and bytes are numbers.
Cut(q, p) ==
    /\ Len(p) \in Nat /\ Len(q) \in 0..Len(p)
    /\ \A i \in 1..Len(q) : q[i] = p[i]
    /\ \A i \in 1..Len(p) : \A kind \in DOMAIN p[i] : kind \in {"int", "byte"} => p[i][kind] \in Int

\* What a reader has at a place of the block, with these members read.
Reader(at, ok, s, members, numbers) ==
    /\ at \in Nat \ {0}
    /\ ok \in BOOLEAN
    /\ DOMAIN s = members
    /\ \A m \in members : m \in numbers => s[m] \in Int \cup {Unread}

\* The reader of the block that ends early has what the other one has, or is past the
\* end; then its status holds only if it has missed nothing but strings.
Agree(q, at, ok, s, at2, ok2, s2, strings) ==
    \/ at = at2 /\ ok = ok2 /\ s = s2
    \/ /\ at > Len(q)
       /\ DOMAIN s = DOMAIN s2
       /\ ok => /\ ok2
                /\ \A m \in DOMAIN s : s[m] = s2[m] \/ (s[m] = NULL /\ m \in strings)

\* What is read as a number is one.
LEMMA FieldRead ==
    ASSUME NEW p, NEW at, NEW ok, NEW s, NEW members, NEW numbers, Cut(p, p),
           Reader(at, ok, s, members, numbers),
           NEW kind \in {"int", "long", "byte", "str"}, NEW name,
           name \in numbers => kind \in {"int", "byte"}
    PROVE  Reader(FieldAt(p, at), FieldOk(p, at, ok, kind),
                  WithMember(s, name, FieldValue(p, at, kind)), members \cup {name}, numbers)
<1> DEFINE value == FieldValue(p, at, kind)
           x == WithMember(s, name, value)
<1>1. name \in numbers => value \in Int \cup {Unread}
  BY DEF Cut, Reader, FieldValue
<1>2. FieldAt(p, at) \in Nat \ {0}
  BY DEF Cut, Reader, FieldAt
<1>5. FieldOk(p, at, ok, kind) \in BOOLEAN
  <2>1. (at <= Len(p)) \in BOOLEAN
    BY DEF Cut, Reader
  <2> QED
    BY <2>1 DEF Reader, FieldOk
<1>6. DOMAIN s = members /\ \A m \in members : m \in numbers => s[m] \in Int \cup {Unread}
  BY DEF Reader
<1> HIDE DEF value
<1>3. DOMAIN x = members \cup {name}
  BY <1>6, WithMemberIs
<1>7. /\ \A m \in members : x[m] = s[m]
      /\ name \notin members => x[name] = value
  BY <1>6 DEF WithMember
<1> HIDE DEF x
<1>4. \A m \in members \cup {name} : m \in numbers => x[m] \in Int \cup {Unread}
  <2>1. \A m \in members : m \in numbers => x[m] \in Int \cup {Unread}
    BY <1>6, <1>7
  <2>2. name \notin members /\ name \in numbers => x[name] \in Int \cup {Unread}
    BY <1>1, <1>7
  <2> QED
    BY <2>1, <2>2
<1> QED
  BY <1>2, <1>3, <1>4, <1>5 DEF Reader, x, value

LEMMA SaidIs ==
    ASSUME NEW s, NEW members, NEW numbers, NEW count, NEW max \in Nat,
           \A m \in members : m \in numbers => s[m] \in Int \cup {Unread},
           count = NULL \/ (count \in members /\ count \in numbers)
    PROVE  Said(s, count, max) \in Nat
<1>1. CASE count = NULL
  BY <1>1 DEF Said
<1>2. CASE count # NULL
  <2>1. s[count] \in Int \cup {Unread}
    BY <1>2
  <2>2. CASE s[count] = Unread
    BY <1>2, <2>2 DEF Said
  <2>3. CASE s[count] # Unread
    <3>1. PICK c \in Int : c = s[count]
      BY <2>1, <2>3
    <3>2. Said(s, count, max) = IF Least(c, max) < 0 THEN 0 ELSE Least(c, max)
      BY <1>2, <2>3, <3>1 DEF Said
    <3> QED
      BY <3>2 DEF Least
  <2> QED
    BY <2>2, <2>3
<1> QED
  BY <1>1, <1>2

LEMMA DigitsRead ==
    ASSUME NEW p, NEW at, NEW ok, NEW s, NEW members, NEW numbers, Cut(p, p),
           Reader(at, ok, s, members, numbers), NEW name, name \notin numbers, NEW n \in Nat
    PROVE  Reader(DigitsAt(p, at, n), DigitsOk(p, at, ok, n),
                  WithMember(s, name, DigitsValue(p, at, n)), members \cup {name}, numbers)
<1> DEFINE value == DigitsValue(p, at, n)
           x == WithMember(s, name, value)
<1>2. DigitsAt(p, at, n) \in Nat \ {0}
  BY DEF Cut, Reader, DigitsAt
<1>5. DigitsOk(p, at, ok, n) \in BOOLEAN
  <2>1. (at + n - 1 <= Len(p)) \in BOOLEAN
    BY DEF Cut, Reader
  <2> QED
    BY <2>1 DEF Reader, DigitsOk
<1>6. DOMAIN s = members /\ \A m \in members : m \in numbers => s[m] \in Int \cup {Unread}
  BY DEF Reader
<1> HIDE DEF value
<1>3. DOMAIN x = members \cup {name}
  BY <1>6, WithMemberIs
<1>7. \A m \in members : x[m] = s[m]
  BY <1>6 DEF WithMember
<1> HIDE DEF x
<1>4. \A m \in members \cup {name} : m \in numbers => x[m] \in Int \cup {Unread}
  BY <1>6, <1>7
<1> QED
  BY <1>2, <1>3, <1>4, <1>5 DEF Reader, x, value

\* The first number, long or digit that is missed is noticed, and nothing is read after it.
LEMMA FieldAgrees ==
    ASSUME NEW p, NEW q, Cut(q, p), NEW members, NEW strings,
           NEW at \in Nat \ {0}, NEW ok \in BOOLEAN, NEW s,
           NEW at2 \in Nat \ {0}, NEW ok2 \in BOOLEAN, NEW s2,
           DOMAIN s = members, DOMAIN s2 = members,
           Agree(q, at, ok, s, at2, ok2, s2, strings),
           NEW kind, NEW name, kind = "str" => name \in strings
    PROVE  Agree(q, FieldAt(q, at), FieldOk(q, at, ok, kind),
                    WithMember(s, name, FieldValue(q, at, kind)),
                    FieldAt(p, at2), FieldOk(p, at2, ok2, kind),
                    WithMember(s2, name, FieldValue(p, at2, kind)), strings)
<1>0. Len(p) \in Nat /\ Len(q) \in Nat /\ Len(q) <= Len(p) /\ \A i \in 1..Len(q) : q[i] = p[i]
  BY DEF Cut
<1>1. CASE at <= Len(q)
  <2>1. at = at2 /\ ok = ok2 /\ s = s2
    BY <1>0, <1>1 DEF Agree
  <2>2. at <= Len(p) /\ q[at] = p[at]
    BY <1>0, <1>1
  <2>3. FieldAt(q, at) = FieldAt(p, at)
    BY <1>1, <2>2 DEF FieldAt
  <2>4. FieldOk(q, at, ok, kind) = FieldOk(p, at, ok, kind)
    BY <1>1, <2>2 DEF FieldOk
  <2>5. FieldValue(q, at, kind) = FieldValue(p, at, kind)
    BY <1>1, <2>2 DEF FieldValue
  <2> QED
    BY <2>1, <2>3, <2>4, <2>5 DEF Agree
<1>2. CASE ~(at <= Len(q))
  <2> DEFINE x == WithMember(s, name, FieldValue(q, at, kind))
             y == WithMember(s2, name, FieldValue(p, at2, kind))
  <2>1. FieldAt(q, at) > Len(q)
    BY <1>0, <1>2 DEF FieldAt
  <2>2. DOMAIN x = DOMAIN y /\ DOMAIN x = members \cup {name}
    BY DEF WithMember
  <2>3. CASE kind # "str"
    <3>1. FieldOk(q, at, ok, kind) = FALSE
      BY <1>2, <2>3 DEF FieldOk
    <3> HIDE DEF x, y
    <3> QED
      BY <2>1, <2>2, <3>1 DEF Agree, x, y
  <2>4. CASE kind = "str"
    <3>1. FieldOk(q, at, ok, kind) = ok /\ FieldOk(p, at2, ok2, kind) = ok2
      BY <2>4 DEF FieldOk
    <3>2. ok => ok2 /\ \A m \in members : s[m] = s2[m] \/ (s[m] = NULL /\ m \in strings)
      BY DEF Agree
    <3>3. \A m \in members : x[m] = s[m] /\ y[m] = s2[m]
      BY DEF WithMember
    <3>4. name \notin members => x[name] = NULL
      <4>1. FieldValue(q, at, kind) = NULL
        BY <1>2, <2>4 DEF FieldValue
      <4> QED
        BY <4>1 DEF WithMember
    <3>5. name \in strings
      BY <2>4
    <3> HIDE DEF x, y
    <3>6. ok => ok2 /\ \A m \in DOMAIN x : x[m] = y[m] \/ (x[m] = NULL /\ m \in strings)
      BY <2>2, <3>2, <3>3, <3>4, <3>5
    <3> QED
      BY <2>1, <2>2, <3>1, <3>6 DEF Agree, x, y
  <2> QED
    BY <2>3, <2>4
<1> QED
  BY <1>1, <1>2

\* Digits likewise; n and n2 are how many the two readers read.
LEMMA DigitsAgree ==
    ASSUME NEW p, NEW q, Cut(q, p), NEW members, NEW strings,
           NEW at \in Nat \ {0}, NEW ok \in BOOLEAN, NEW s,
           NEW at2 \in Nat \ {0}, NEW ok2 \in BOOLEAN, NEW s2,
           DOMAIN s = members, DOMAIN s2 = members,
           Agree(q, at, ok, s, at2, ok2, s2, strings),
           NEW name, NEW n \in Nat, NEW n2 \in Nat, ok \/ s = s2 => n = n2
    PROVE  Agree(q, DigitsAt(q, at, n), DigitsOk(q, at, ok, n),
                    WithMember(s, name, DigitsValue(q, at, n)),
                    DigitsAt(p, at2, n2), DigitsOk(p, at2, ok2, n2),
                    WithMember(s2, name, DigitsValue(p, at2, n2)), strings)
<1>0. Len(p) \in Nat /\ Len(q) \in Nat /\ Len(q) <= Len(p) /\ \A i \in 1..Len(q) : q[i] = p[i]
  BY DEF Cut
<1> DEFINE x == WithMember(s, name, DigitsValue(q, at, n))
           y == WithMember(s2, name, DigitsValue(p, at2, n2))
<1>1. DOMAIN x = DOMAIN y /\ DOMAIN x = members \cup {name}
  BY DEF WithMember
<1>2. \A m \in members : x[m] = s[m] /\ y[m] = s2[m]
  BY DEF WithMember
<1>3. /\ name \notin members => x[name] = DigitsValue(q, at, n)
      /\ name \notin members => y[name] = DigitsValue(p, at2, n2)
  BY DEF WithMember
<1>4. CASE at + n - 1 <= Len(q) /\ s = s2 /\ at = at2 /\ ok = ok2
  <2>1. n = n2 /\ at + n - 1 <= Len(p)
    BY <1>0, <1>4
  <2>2. DigitsAt(q, at, n) = DigitsAt(p, at2, n2)
    BY <1>4, <2>1 DEF DigitsAt
  <2>3. DigitsOk(q, at, ok, n) = DigitsOk(p, at2, ok2, n2)
    BY <1>4, <2>1 DEF DigitsOk
  <2>4. ASSUME NEW k \in 1..n
        PROVE  q[at + k - 1] = p[at + k - 1]
    <3>1. at + k - 1 \in 1..Len(q)
      BY <1>0, <1>4
    <3> QED
      BY <1>0, <3>1
  <2>5. DigitsValue(q, at, n) = DigitsValue(p, at2, n2)
    BY <1>4, <2>1, <2>4 DEF DigitsValue
  <2> QED
    BY <1>4, <2>2, <2>3, <2>5 DEF Agree
<1>5. CASE ~(at + n - 1 <= Len(q) /\ s = s2 /\ at = at2 /\ ok = ok2)
  <2>1. DigitsAt(q, at, n) > Len(q)
    <3>1. CASE at + n - 1 <= Len(q)
      <4>1. at > Len(q)
        BY <1>5, <3>1 DEF Agree
      <4>2. DigitsAt(q, at, n) = at + n
        BY <3>1 DEF DigitsAt
      <4> QED
        BY <1>0, <4>1, <4>2
    <3>2. CASE ~(at + n - 1 <= Len(q))
      <4>1. DigitsAt(q, at, n) = Len(q) + 1
        BY <3>2 DEF DigitsAt
      <4> QED
        BY <1>0, <4>1
    <3> QED
      BY <3>1, <3>2
  <2>2. CASE n # 0
    <3>1. ~(at + n - 1 <= Len(q))
      BY <1>0, <1>5, <2>2 DEF Agree
    <3>2. DigitsOk(q, at, ok, n) = FALSE
      BY <2>2, <3>1 DEF DigitsOk
    <3> HIDE DEF x, y
    <3> QED
      BY <1>1, <2>1, <3>2 DEF Agree, x, y
  <2>3. CASE n = 0
    <3>1. DigitsOk(q, at, ok, n) = ok
      BY <2>3 DEF DigitsOk
    <3>2. ok => ok2 /\ n2 = 0 /\ \A m \in members : s[m] = s2[m] \/ (s[m] = NULL /\ m \in strings)
      BY <2>3 DEF Agree
    <3>3. ok => DigitsOk(p, at2, ok2, n2)
      BY <3>2 DEF DigitsOk
    <3>4. ok => DigitsValue(q, at, n) = DigitsValue(p, at2, n2)
      <4>1. 1..0 = {}
        OBVIOUS
      <4> QED
        BY <2>3, <3>2, <4>1 DEF DigitsValue
    <3> HIDE DEF x, y
    <3>5. ok => \A m \in DOMAIN x : x[m] = y[m] \/ (x[m] = NULL /\ m \in strings)
      BY <1>1, <1>2, <1>3, <3>2, <3>4
    <3> QED
      BY <1>1, <2>1, <3>1, <3>3, <3>5 DEF Agree, x, y
  <2> QED
    BY <2>2, <2>3
<1> QED
  BY <1>4, <1>5

-----------------------------------------------------------------------------
(* Two readers of the same format.                                         *)

\* The members of a format that have been read after k of them.
Members(format, k) == {format[i].name : i \in 1..k}

\* The members of a format of n that are only read as numbers, and those that are strings.
NumbersOf(format, n) ==
    {m \in Members(format, n) : \A i \in 1..n : format[i].name = m => format[i].kind \in {"int", "byte"}}
StringsOf(format, n) ==
    {m \in Members(format, n) : \E i \in 1..n : format[i].name = m /\ format[i].kind = "str"}

\* How many digits there are is said by a number before them, or by the format.
Counted(f, members, numbers) ==
    f.max \in Nat /\ (f.count = NULL \/ (f.count \in members /\ f.count \in numbers))

Format(format, n) ==
    /\ DOMAIN format = 1..n
    /\ \A i \in 1..n : format[i].kind \in {"int", "long", "byte", "str", "digits"}
    /\ \A i \in 1..n : format[i].kind = "digits" =>
         Counted(format[i], Members(format, i - 1), NumbersOf(format, n))

Both(q, rq, rp, members, numbers, strings) ==
    /\ Reader(rq.at, rq.ok, rq.s, members, numbers)
    /\ Reader(rp.at, rp.ok, rp.s, members, numbers)
    /\ Agree(q, rq.at, rq.ok, rq.s, rp.at, rp.ok, rp.s, strings)

LEMMA CutSelf ==
    ASSUME NEW p, NEW q, Cut(q, p)
    PROVE  Cut(p, p) /\ Cut(q, q)
BY DEF Cut

LEMMA SameCount ==
    ASSUME NEW q, NEW rq, NEW rp, NEW f, NEW members, NEW numbers, NEW strings,
           Both(q, rq, rp, members, numbers, strings), numbers \cap strings = {},
           Counted(f, members, numbers), rq.ok \/ rq.s = rp.s
    PROVE  Said(rq.s, f.count, f.max) = Said(rp.s, f.count, f.max)
<1>1. PICK count, max, s, s2 : count = f.count /\ max = f.max /\ s = rq.s /\ s2 = rp.s
  OBVIOUS
<1>2. count = NULL \/ (count \in members /\ count \in numbers)
  BY <1>1 DEF Counted
<1>3. DOMAIN s = members
  BY <1>1 DEF Both, Reader
<1>4. s = s2 \/ \A m \in DOMAIN s : s[m] = s2[m] \/ (s[m] = NULL /\ m \in strings)
  BY <1>1 DEF Both, Agree
<1>5. count = NULL \/ s[count] = s2[count]
  BY <1>2, <1>3, <1>4
<1>6. Said(s, count, max) = Said(s2, count, max)
  BY <1>5 DEF Said
<1> QED
  BY <1>1, <1>6

LEMMA MemberAgrees ==
    ASSUME NEW p, NEW q, Cut(q, p), NEW rq, NEW rp, NEW f, NEW members, NEW numbers, NEW strings,
           Both(q, rq, rp, members, numbers, strings), numbers \cap strings = {},
           f.kind \in {"int", "long", "byte", "str", "digits"},
           f.kind = "digits" => Counted(f, members, numbers),
           f.name \in numbers => f.kind \in {"int", "byte"},
           f.kind = "str" => f.name \in strings
    PROVE  Both(q, ReadMember(q, rq, f), ReadMember(p, rp, f), members \cup {f.name}, numbers, strings)
<1>1. CASE f.kind = "digits"
  <2> DEFINE n == Said(rq.s, f.count, f.max)
             n2 == Said(rp.s, f.count, f.max)
             x == ReadMember(q, rq, f)
             y == ReadMember(p, rp, f)
  <2>1. /\ x.at = DigitsAt(q, rq.at, n) /\ x.ok = DigitsOk(q, rq.at, rq.ok, n)
        /\ x.s = WithMember(rq.s, f.name, DigitsValue(q, rq.at, n))
    BY <1>1, DigitsAre DEF ReadMember
  <2>2. /\ y.at = DigitsAt(p, rp.at, n2) /\ y.ok = DigitsOk(p, rp.at, rp.ok, n2)
        /\ y.s = WithMember(rp.s, f.name, DigitsValue(p, rp.at, n2))
    BY <1>1, DigitsAre DEF ReadMember
  <2>3. n \in Nat /\ n2 \in Nat
    <3>0. PICK count : count = f.count
      OBVIOUS
    <3>1. PICK max \in Nat : max = f.max
      BY <1>1 DEF Counted
    <3>2. count = NULL \/ (count \in members /\ count \in numbers)
      BY <1>1, <3>0 DEF Counted
    <3>3. /\ \A m \in members : m \in numbers => rq.s[m] \in Int \cup {Unread}
          /\ \A m \in members : m \in numbers => rp.s[m] \in Int \cup {Unread}
      BY DEF Both, Reader
    <3>4. Said(rq.s, count, max) \in Nat /\ Said(rp.s, count, max) \in Nat
      BY <3>2, <3>3, SaidIs
    <3> QED
      BY <3>0, <3>1, <3>4
  <2>4. rq.ok \/ rq.s = rp.s => n = n2
    BY <1>1, SameCount
  <2>5. f.name \notin numbers
    BY <1>1
  <2> HIDE DEF n, n2, x, y
  <2>6. /\ Reader(rq.at, rq.ok, rq.s, members, numbers)
        /\ Reader(rp.at, rp.ok, rp.s, members, numbers)
        /\ Agree(q, rq.at, rq.ok, rq.s, rp.at, rp.ok, rp.s, strings)
    BY DEF Both
  <2>7. Reader(x.at, x.ok, x.s, members \cup {f.name}, numbers)
    BY <2>1, <2>3, <2>5, <2>6, CutSelf, DigitsRead
  <2>8. Reader(y.at, y.ok, y.s, members \cup {f.name}, numbers)
    BY <2>2, <2>3, <2>5, <2>6, CutSelf, DigitsRead
  <2>9. Agree(q, x.at, x.ok, x.s, y.at, y.ok, y.s, strings)
    <3>1. /\ rq.at \in Nat \ {0} /\ rq.ok \in BOOLEAN /\ DOMAIN rq.s = members
          /\ rp.at \in Nat \ {0} /\ rp.ok \in BOOLEAN /\ DOMAIN rp.s = members
      BY <2>6 DEF Reader
    <3>2. Agree(q, DigitsAt(q, rq.at, n), DigitsOk(q, rq.at, rq.ok, n),
                WithMember(rq.s, f.name, DigitsValue(q, rq.at, n)),
                DigitsAt(p, rp.at, n2), DigitsOk(p, rp.at, rp.ok, n2),
                WithMember(rp.s, f.name, DigitsValue(p, rp.at, n2)), strings)
      BY <2>3, <2>4, <2>6, <3>1, DigitsAgree
    <3> QED
      BY <2>1, <2>2, <3>2
  <2> QED
    BY <2>7, <2>8, <2>9 DEF Both, x, y
<1>2. CASE f.kind # "digits"
  <2> DEFINE x == ReadMember(q, rq, f)
             y == ReadMember(p, rp, f)
  <2>0. PICK kind \in {"int", "long", "byte", "str"} : kind = f.kind
    BY <1>2
  <2>1. /\ x.at = FieldAt(q, rq.at) /\ x.ok = FieldOk(q, rq.at, rq.ok, kind)
        /\ x.s = WithMember(rq.s, f.name, FieldValue(q, rq.at, kind))
    BY <1>2, <2>0, FieldIs DEF ReadMember
  <2>2. /\ y.at = FieldAt(p, rp.at) /\ y.ok = FieldOk(p, rp.at, rp.ok, kind)
        /\ y.s = WithMember(rp.s, f.name, FieldValue(p, rp.at, kind))
    BY <1>2, <2>0, FieldIs DEF ReadMember
  <2>3. /\ f.name \in numbers => kind \in {"int", "byte"}
        /\ kind = "str" => f.name \in strings
    BY <2>0
  <2> HIDE DEF x, y
  <2>5. Cut(q, q) /\ Cut(p, p)
    BY CutSelf
  <2>6. /\ Reader(rq.at, rq.ok, rq.s, members, numbers)
        /\ Reader(rp.at, rp.ok, rp.s, members, numbers)
        /\ Agree(q, rq.at, rq.ok, rq.s, rp.at, rp.ok, rp.s, strings)
    BY DEF Both
  <2>7. Reader(x.at, x.ok, x.s, members \cup {f.name}, numbers)
    <3>1. Reader(FieldAt(q, rq.at), FieldOk(q, rq.at, rq.ok, kind),
                 WithMember(rq.s, f.name, FieldValue(q, rq.at, kind)), members \cup {f.name}, numbers)
      BY <2>3, <2>5, <2>6, FieldRead
    <3> QED
      BY <2>1, <3>1
  <2>8. Reader(y.at, y.ok, y.s, members \cup {f.name}, numbers)
    <3>1. Reader(FieldAt(p, rp.at), FieldOk(p, rp.at, rp.ok, kind),
                 WithMember(rp.s, f.name, FieldValue(p, rp.at, kind)), members \cup {f.name}, numbers)
      BY <2>3, <2>5, <2>6, FieldRead
    <3> QED
      BY <2>2, <3>1
  <2>9. Agree(q, x.at, x.ok, x.s, y.at, y.ok, y.s, strings)
    <3>1. /\ rq.at \in Nat \ {0} /\ rq.ok \in BOOLEAN /\ DOMAIN rq.s = members
          /\ rp.at \in Nat \ {0} /\ rp.ok \in BOOLEAN /\ DOMAIN rp.s = members
      BY <2>6 DEF Reader
    <3>2. Agree(q, FieldAt(q, rq.at), FieldOk(q, rq.at, rq.ok, kind),
                WithMember(rq.s, f.name, FieldValue(q, rq.at, kind)),
                FieldAt(p, rp.at), FieldOk(p, rp.at, rp.ok, kind),
                WithMember(rp.s, f.name, FieldValue(p, rp.at, kind)), strings)
      BY <2>3, <2>6, <3>1, FieldAgrees
    <3> QED
      BY <2>1, <2>2, <3>2
  <2> QED
    BY <2>7, <2>8, <2>9 DEF Both, x, y
<1> QED
  BY <1>1, <1>2

\* Two readers of a block, of which one ends early, step by step.
Reads(q, p, at, n, format, R, T) ==
    /\ Read(q, at, format) = R[n] /\ Read(p, at, format) = T[n]
    /\ \A k \in 0..(n - 1) : /\ R[k + 1] = ReadMember(q, R[k], format[k + 1])
                             /\ T[k + 1] = ReadMember(p, T[k], format[k + 1])
    /\ \A k \in 0..n : Both(q, R[k], T[k], Members(format, k), NumbersOf(format, n),
                            StringsOf(format, n))

LEMMA ReadingAgrees ==
    ASSUME NEW p, NEW q, Cut(q, p), NEW at \in Nat \ {0}, NEW n \in Nat, NEW format, Format(format, n)
    PROVE  \E R, T : Reads(q, p, at, n, format, R, T)
<1>0. DOMAIN format = 1..n
  BY DEF Format
<1>1. PICK R : Steps(q, at, n, format, R)
  BY <1>0, ReadSteps
<1>2. PICK T : Steps(p, at, n, format, T)
  BY <1>0, ReadSteps
<1> DEFINE numbers == NumbersOf(format, n)
           strings == StringsOf(format, n)
           J(k) == Both(q, R[k], T[k], Members(format, k), numbers, strings)
<1>3. J(0)
  <2>1. Members(format, 0) = {}
    BY DEF Members
  <2>2. /\ R[0].at = at /\ R[0].ok = TRUE /\ R[0].s = <<>>
        /\ T[0].at = at /\ T[0].ok = TRUE /\ T[0].s = <<>>
    BY <1>1, <1>2 DEF Steps
  <2>3. Reader(at, TRUE, <<>>, {}, numbers)
    <3>1. DOMAIN <<>> = {}
      OBVIOUS
    <3> QED
      BY <3>1 DEF Reader
  <2>4. Agree(q, at, TRUE, <<>>, at, TRUE, <<>>, strings)
    BY DEF Agree
  <2> QED
    BY <2>1, <2>2, <2>3, <2>4 DEF Both
<1>4. ASSUME NEW k \in 0..(n - 1), J(k) PROVE J(k + 1)
  <2> DEFINE f == format[k + 1]
  <2>0. k + 1 \in 1..n /\ (k + 1) - 1 = k
    OBVIOUS
  <2>1. R[k + 1] = ReadMember(q, R[k], f) /\ T[k + 1] = ReadMember(p, T[k], f)
    BY <1>1, <1>2 DEF Steps
  <2>2. numbers \cap strings = {}
    BY DEF NumbersOf, StringsOf
  <2>3. f.kind \in {"int", "long", "byte", "str", "digits"}
    BY <2>0 DEF Format
  <2>4. f.kind = "digits" => Counted(f, Members(format, k), numbers)
    BY <2>0 DEF Format
  <2>5. f.name \in Members(format, n)
    BY <2>0 DEF Members
  <2>6. f.name \in numbers => f.kind \in {"int", "byte"}
    BY <2>0 DEF NumbersOf
  <2>7. f.kind = "str" => f.name \in strings
    BY <2>0, <2>5 DEF StringsOf
  <2>8. Members(format, k + 1) = Members(format, k) \cup {f.name}
    <3>1. 1..(k + 1) = 1..k \cup {k + 1}
      OBVIOUS
    <3> QED
      BY <3>1 DEF Members
  <2> HIDE DEF f, numbers, strings
  <2>9. Both(q, ReadMember(q, R[k], f), ReadMember(p, T[k], f), Members(format, k) \cup {f.name},
             numbers, strings)
    BY <1>4, <2>2, <2>3, <2>4, <2>6, <2>7, MemberAgrees
  <2> QED
    BY <2>1, <2>8, <2>9
<1>5. \A k \in 0..n : J(k)
  <2> DEFINE bad == {k \in 0..n : ~J(k)}
  <2> HIDE DEF J
  <2> SUFFICES ASSUME bad # {} PROVE FALSE
    OBVIOUS
  <2>1. PICK k \in bad : \A m \in bad : k <= m
    <3>1. bad \in SUBSET Nat
      OBVIOUS
    <3> HIDE DEF bad
    <3> QED
      BY <3>1, LeastNat
  <2>2. k # 0 /\ k - 1 \in 0..(n - 1)
    BY <1>3, <2>1
  <2>3. ~J(k) /\ J(k - 1) /\ (k - 1) + 1 = k
    BY <2>1, <2>2
  <2> QED
    BY <1>4, <2>2, <2>3
<1>6. Reads(q, p, at, n, format, R, T)
  BY <1>1, <1>2, <1>5 DEF Reads, Steps
<1> QED
  BY <1>6

\* What the reader of the whole block and that of the block that ends early come to.
LEMMA ReadAgrees ==
    ASSUME NEW p, NEW q, Cut(q, p), NEW at \in Nat \ {0}, NEW n \in Nat, NEW format, Format(format, n)
    PROVE  Both(q, Read(q, at, format), Read(p, at, format), Members(format, n), NumbersOf(format, n),
                StringsOf(format, n))
<1>1. n \in 0..n
  OBVIOUS
<1>2. PICK R, T : Reads(q, p, at, n, format, R, T)
  BY ReadingAgrees
<1> QED
  BY <1>1, <1>2 DEF Reads

\* If the status holds, the members are those of the whole block, but for missing strings.
LEMMA ReadHolds ==
    ASSUME NEW p, NEW q, Cut(q, p), NEW at \in Nat \ {0}, NEW n \in Nat, NEW format, Format(format, n),
           Read(q, at, format).ok
    PROVE  /\ Read(p, at, format).ok
           /\ DOMAIN Read(q, at, format).s = Members(format, n)
           /\ DOMAIN Read(p, at, format).s = Members(format, n)
           /\ \A m \in Members(format, n) :
                \/ Read(q, at, format).s[m] = Read(p, at, format).s[m]
                \/ Read(q, at, format).s[m] = NULL /\ m \in StringsOf(format, n)
<1>1. PICK rq, rp : rq = Read(q, at, format) /\ rp = Read(p, at, format)
  OBVIOUS
<1>2. Both(q, rq, rp, Members(format, n), NumbersOf(format, n), StringsOf(format, n))
  BY <1>1, ReadAgrees
<1>3. DOMAIN rq.s = Members(format, n) /\ DOMAIN rp.s = Members(format, n)
  BY <1>2 DEF Both, Reader
<1>4. rq.ok
  BY <1>1
<1>5. rp.ok
  BY <1>2, <1>4 DEF Both, Agree
<1>6. \/ rq.s = rp.s
      \/ \A m \in DOMAIN rq.s : rq.s[m] = rp.s[m] \/ (rq.s[m] = NULL /\ m \in StringsOf(format, n))
  BY <1>2, <1>4 DEF Both, Agree
<1> QED
  BY <1>1, <1>3, <1>5, <1>6

\* If the last member is a number and the status holds, everything has been read.
LEMMA ReadWhole ==
    ASSUME NEW p, NEW q, Cut(q, p), NEW at \in Nat \ {0}, NEW n \in Nat, n # 0, NEW format,
           Format(format, n), format[n].kind \in {"int", "long", "byte"},
           Read(q, at, format).ok
    PROVE  /\ Read(q, at, format).at = Read(p, at, format).at
           /\ Read(q, at, format).s = Read(p, at, format).s
           /\ Read(p, at, format).ok
<1>0. PICK R, T : Reads(q, p, at, n, format, R, T)
  BY ReadingAgrees
<1>1. /\ Read(q, at, format) = R[n] /\ Read(p, at, format) = T[n]
      /\ \A k \in 0..(n - 1) : /\ R[k + 1] = ReadMember(q, R[k], format[k + 1])
                               /\ T[k + 1] = ReadMember(p, T[k], format[k + 1])
      /\ \A k \in 0..n : Both(q, R[k], T[k], Members(format, k), NumbersOf(format, n),
                              StringsOf(format, n))
  BY <1>0 DEF Reads
<1>2. n - 1 \in 0..(n - 1) /\ n - 1 \in 0..n /\ (n - 1) + 1 = n
  OBVIOUS
<1>3. PICK rq, rp : rq = R[n - 1] /\ rp = T[n - 1]
  OBVIOUS
<1>4. Both(q, rq, rp, Members(format, n - 1), NumbersOf(format, n), StringsOf(format, n))
  BY <1>1, <1>2, <1>3
<1>5. R[n] = ReadField(q, rq, format[n]) /\ T[n] = ReadField(p, rp, format[n])
  <2>1. R[n] = ReadMember(q, rq, format[n]) /\ T[n] = ReadMember(p, rp, format[n])
    BY <1>1, <1>2, <1>3
  <2>2. format[n].kind # "digits"
    OBVIOUS
  <2> QED
    BY <2>1, <2>2 DEF ReadMember
<1>6. rq.at <= Len(q)
  <2>1. FieldOk(q, rq.at, rq.ok, format[n].kind)
    BY <1>1, <1>5, FieldIs
  <2> QED
    BY <2>1 DEF FieldOk
<1>7. PICK a, a2 : a = rq.at /\ a2 = rp.at
  OBVIOUS
<1>8. a \in Nat
  BY <1>4, <1>7 DEF Both, Reader
<1>9. rq.at = rp.at /\ rq.ok = rp.ok /\ rq.s = rp.s
  <2>1. ~(a > Len(q))
    BY <1>6, <1>7, <1>8 DEF Cut
  <2> QED
    BY <1>4, <1>7, <2>1 DEF Both, Agree
<1>10. a <= Len(p) /\ q[a] = p[a]
  <2>1. a # 0
    BY <1>4, <1>7 DEF Both, Reader
  <2> QED
    BY <1>6, <1>7, <1>8, <2>1 DEF Cut
<1>11. /\ FieldAt(q, rq.at) = FieldAt(p, rp.at)
       /\ FieldValue(q, rq.at, format[n].kind) = FieldValue(p, rp.at, format[n].kind)
  BY <1>6, <1>7, <1>9, <1>10 DEF FieldAt, FieldValue
<1>12. R[n].at = T[n].at /\ R[n].s = T[n].s
  BY <1>5, <1>9, <1>11, FieldIs
<1> QED
  BY <1>1, <1>12, ReadHolds

\* Past the end nothing is read; a number that is missed is noticed.
ReadsNothing(r, at, missed) == r.at = at /\ (missed => r.ok = FALSE)

LEMMA ReadNothing ==
    ASSUME NEW q, Cut(q, q), NEW at \in Nat \ {0}, at > Len(q), NEW n \in Nat, NEW format,
           DOMAIN format = 1..n, \A i \in 1..n : format[i].kind # "digits"
    PROVE  ReadsNothing(Read(q, at, format), at, \E i \in 1..n : format[i].kind # "str")
<1>1. PICK R : Steps(q, at, n, format, R)
  BY ReadSteps
<1> DEFINE J(k) == /\ R[k].at = at
                   /\ (\E i \in 1..k : format[i].kind # "str") => R[k].ok = FALSE
<1>2. J(0)
  BY <1>1 DEF Steps
<1>3. ASSUME NEW k \in 0..(n - 1), J(k) PROVE J(k + 1)
  <2>1. PICK r, f : r = R[k] /\ f = format[k + 1]
    OBVIOUS
  <2>2. k + 1 \in 1..n
    OBVIOUS
  <2>3. R[k + 1] = ReadField(q, r, f)
    BY <1>1, <2>1, <2>2 DEF ReadMember, Steps
  <2>4. r.at = at /\ ~(at <= Len(q))
    <3>1. ~(at <= Len(q))
      BY DEF Cut
    <3> QED
      BY <1>3, <2>1, <3>1
  <2>5. R[k + 1].at = at
    BY <2>3, <2>4, FieldIs DEF FieldAt
  <2>6. R[k + 1].ok = IF f.kind = "str" THEN r.ok ELSE FALSE
    <3>1. R[k + 1].ok = IF f.kind = "str" THEN r.ok ELSE r.at <= Len(q)
      BY <2>3, FieldIs DEF FieldOk
    <3>2. (r.at <= Len(q)) = FALSE
      BY <2>4
    <3> QED
      BY <3>1, <3>2
  <2>7. \A i \in 1..(k + 1) : i = k + 1 \/ i \in 1..k
    OBVIOUS
  <2>8. (\E i \in 1..k : format[i].kind # "str") => r.ok = FALSE
    BY <1>3, <2>1
  <2> QED
    BY <2>1, <2>5, <2>6, <2>7, <2>8
<1>4. \A k \in 0..n : J(k)
  <2> DEFINE bad == {k \in 0..n : ~J(k)}
  <2> HIDE DEF J
  <2> SUFFICES ASSUME bad # {} PROVE FALSE
    OBVIOUS
  <2>1. PICK k \in bad : \A m \in bad : k <= m
    <3>1. bad \in SUBSET Nat
      OBVIOUS
    <3> HIDE DEF bad
    <3> QED
      BY <3>1, LeastNat
  <2>2. k # 0 /\ k - 1 \in 0..(n - 1)
    BY <1>2, <2>1
  <2>3. ~J(k) /\ J(k - 1) /\ (k - 1) + 1 = k
    BY <2>1, <2>2
  <2> QED
    BY <1>3, <2>2, <2>3
<1>5. n \in 0..n
  OBVIOUS
<1>6. PICK r : r = R[n]
  OBVIOUS
<1>7. r.at = at /\ ((\E i \in 1..n : format[i].kind # "str") => r.ok = FALSE)
  BY <1>4, <1>5, <1>6
<1>8. Read(q, at, format) = r
  BY <1>1, <1>6 DEF Steps
<1> QED
  BY <1>7, <1>8 DEF ReadsNothing

\* Reading one member.
LEMMA ReadOne ==
    ASSUME NEW p, NEW at, NEW f
    PROVE  Read(p, at, <<f>>) = ReadMember(p, [at |-> at, ok |-> TRUE, s |-> <<>>], f)
<1>1. DOMAIN <<f>> = 1..1 /\ <<f>>[1] = f
  OBVIOUS
<1>2. 1 \in Nat /\ 0 \in 0..(1 - 1) /\ 0 + 1 = 1
  OBVIOUS
<1>3. PICK R : Steps(p, at, 1, <<f>>, R)
  BY <1>1, <1>2, ReadSteps
<1> QED
  BY <1>1, <1>2, <1>3 DEF Steps

\* A string is read wherever the place is, and the status is left alone.
LEMMA ReadText ==
    ASSUME NEW p, NEW at, NEW name
    PROVE  /\ Read(p, at, <<string(name)>>).ok
           /\ Read(p, at, <<string(name)>>).at = FieldAt(p, at)
           /\ Read(p, at, <<string(name)>>).s = WithMember(<<>>, name, FieldValue(p, at, "str"))
<1> DEFINE r == [at |-> at, ok |-> TRUE, s |-> <<>>]
<1>1. string(name).kind = "str" /\ string(name).name = name
  BY DEF string
<1>2. Read(p, at, <<string(name)>>) = ReadField(p, r, string(name))
  BY <1>1, ReadOne DEF ReadMember
<1>3. r.at = at /\ r.ok = TRUE /\ r.s = <<>>
  OBVIOUS
<1> HIDE DEF r
<1> QED
  BY <1>1, <1>2, <1>3, FieldIs DEF FieldOk

LEMMA ReadShape ==
    ASSUME NEW p, Cut(p, p), NEW at \in Nat \ {0}, NEW n \in Nat, NEW format, Format(format, n)
    PROVE  /\ Read(p, at, format).at \in Nat \ {0}
           /\ Read(p, at, format).ok \in BOOLEAN
           /\ DOMAIN Read(p, at, format).s = Members(format, n)
BY ReadAgrees DEF Both, Reader

-----------------------------------------------------------------------------
(* Two readers of the same list.                                           *)

Near(s, s2, members, strings) ==
    /\ DOMAIN s = members /\ DOMAIN s2 = members
    /\ \A m \in members : s[m] = s2[m] \/ (s[m] = NULL /\ m \in strings)

\* The reader of the block that ends early has as many structs as the other one, and if
\* the status holds they have the same members, but for missing strings.
ListAgree(q, at, ok, l, at2, ok2, l2, members, strings) ==
    \/ at = at2 /\ ok = ok2 /\ l = l2 /\ \A i \in DOMAIN l : DOMAIN l[i] = members
    \/ at > Len(q) /\ (ok => ok2 /\ \A i \in DOMAIN l : Near(l[i], l2[i], members, strings))

LEMMA AppendIs ==
    ASSUME NEW X, NEW l \in Seq(X), NEW x \in X
    PROVE  /\ Append(l, x) \in Seq(X) /\ Len(Append(l, x)) = Len(l) + 1
           /\ DOMAIN Append(l, x) = 1..(Len(l) + 1)
           /\ \A i \in 1..Len(l) : Append(l, x)[i] = l[i]
           /\ Append(l, x)[Len(l) + 1] = x
OBVIOUS

\* A list of strings: its status always holds.
IsTexts(format) == \E name : format = <<string(name)>>

\* What two readers of a list of count structs come to.
ListsHold(lq, lp, count, format, n) ==
    /\ DOMAIN lq.list = 1..count /\ DOMAIN lp.list = 1..count
    /\ Len(lq.list) = count /\ Len(lp.list) = count
    /\ \E S : lq.list \in Seq(S) /\ lp.list \in Seq(S)
    /\ IsTexts(format) => lq.ok
    /\ lq.ok => /\ lp.ok
                /\ \A i \in 1..count :
                     Near(lq.list[i], lp.list[i], Members(format, n), StringsOf(format, n))

LEMMA ListHolds ==
    ASSUME NEW p, NEW q, Cut(q, p), NEW at \in Nat \ {0}, NEW count \in Nat,
           NEW n \in Nat, NEW format, Format(format, n),
           \A i \in 1..n : format[i].kind # "digits",
           \/ \E i \in 1..n : format[i].kind # "str"
           \/ n = 1 /\ IsTexts(format)
    PROVE  ListsHold(ReadList(q, at, count, format), ReadList(p, at, count, format), count, format, n)
<1> DEFINE members == Members(format, n)
           strings == StringsOf(format, n)
           X == {Read(q, a, format).s : a \in Nat \ {0}} \cup {Read(p, a, format).s : a \in Nat \ {0}}
           texts == IsTexts(format)
<1>1. PICK L : ListSteps(q, at, count, format, L)
  BY ReadListSteps
<1>2. PICK K : ListSteps(p, at, count, format, K)
  BY ReadListSteps
<1> DEFINE Typed(k) == /\ L[k].at \in Nat \ {0} /\ K[k].at \in Nat \ {0}
                       /\ L[k].list \in Seq(X) /\ K[k].list \in Seq(X)
                       /\ Len(L[k].list) = k /\ Len(K[k].list) = k
           J(k) == /\ Typed(k)
                   /\ texts => L[k].ok
                   /\ ListAgree(q, L[k].at, L[k].ok, L[k].list, K[k].at, K[k].ok, K[k].list,
                                members, strings)
<1>3. J(0)
  <2>1. /\ L[0].at = at /\ L[0].ok = TRUE /\ L[0].list = <<>>
        /\ K[0].at = at /\ K[0].ok = TRUE /\ K[0].list = <<>>
    BY <1>1, <1>2 DEF ListSteps
  <2>2. <<>> \in Seq(X) /\ Len(<<>>) = 0 /\ DOMAIN <<>> = {}
    OBVIOUS
  <2> HIDE DEF X, members, strings, texts
  <2>3. ListAgree(q, at, TRUE, <<>>, at, TRUE, <<>>, members, strings)
    BY <2>2 DEF ListAgree
  <2> QED
    BY <2>1, <2>2, <2>3
<1>4. ASSUME NEW k \in 0..(count - 1), J(k) PROVE J(k + 1)
  <2>1. PICK a, a2, l, l2, ok, ok2 :
          /\ a = L[k].at /\ l = L[k].list /\ ok = L[k].ok
          /\ a2 = K[k].at /\ l2 = K[k].list /\ ok2 = K[k].ok
    OBVIOUS
  <2>2. PICK r, r2 : r = Read(q, a, format) /\ r2 = Read(p, a2, format)
    OBVIOUS
  <2>3. /\ a \in Nat \ {0} /\ a2 \in Nat \ {0} /\ l \in Seq(X) /\ l2 \in Seq(X)
        /\ Len(l) = k /\ Len(l2) = k
    BY <1>4, <2>1
  <2>4. /\ texts => ok
        /\ ListAgree(q, a, ok, l, a2, ok2, l2, members, strings)
    BY <1>4, <2>1
  <2>5. /\ L[k + 1].at = r.at /\ L[k + 1].ok = r.ok /\ L[k + 1].list = Append(l, r.s)
        /\ K[k + 1].at = r2.at /\ K[k + 1].ok = r2.ok /\ K[k + 1].list = Append(l2, r2.s)
    <3>1. k \in 0..(count - 1)
      BY <1>4
    <3>2. L[k + 1] = [at |-> Read(q, L[k].at, format).at, ok |-> Read(q, L[k].at, format).ok,
                      list |-> Append(L[k].list, Read(q, L[k].at, format).s)]
      BY <1>1, <3>1 DEF ListSteps
    <3>3. K[k + 1] = [at |-> Read(p, K[k].at, format).at, ok |-> Read(p, K[k].at, format).ok,
                      list |-> Append(K[k].list, Read(p, K[k].at, format).s)]
      BY <1>2, <3>1 DEF ListSteps
    <3>4. /\ L[k + 1].at = r.at /\ L[k + 1].ok = r.ok /\ L[k + 1].list = Append(l, r.s)
      BY <2>1, <2>2, <3>2
    <3>5. /\ K[k + 1].at = r2.at /\ K[k + 1].ok = r2.ok /\ K[k + 1].list = Append(l2, r2.s)
      BY <2>1, <2>2, <3>3
    <3> QED
      BY <3>4, <3>5
  <2>6. r.s \in X /\ r2.s \in X
    BY <2>2, <2>3
  <2>7. /\ r.at \in Nat \ {0} /\ DOMAIN r.s = members
        /\ r2.at \in Nat \ {0} /\ DOMAIN r2.s = members
    <3>1. Cut(q, q) /\ Cut(p, p)
      BY CutSelf
    <3> QED
      BY <2>2, <2>3, <3>1, ReadShape
  <2> HIDE DEF X
  <2>8. PICK m, m2 : m = Append(l, r.s) /\ m2 = Append(l2, r2.s)
    OBVIOUS
  <2>9. /\ m \in Seq(X) /\ Len(m) = k + 1 /\ DOMAIN m = 1..(k + 1)
        /\ \A i \in 1..k : m[i] = l[i]
        /\ m[k + 1] = r.s
    BY <2>3, <2>6, <2>8, AppendIs
  <2>10. /\ m2 \in Seq(X) /\ Len(m2) = k + 1 /\ DOMAIN m2 = 1..(k + 1)
         /\ \A i \in 1..k : m2[i] = l2[i]
         /\ m2[k + 1] = r2.s
    BY <2>3, <2>6, <2>8, AppendIs
  <2>11. Typed(k + 1)
    BY <2>5, <2>7, <2>8, <2>9, <2>10
  <2>12. texts => r.ok
    BY <2>2, ReadText DEF IsTexts
  <2>13. DOMAIN l = 1..k /\ DOMAIN l2 = 1..k /\ 1..(k + 1) = 1..k \cup {k + 1}
    BY <2>3
  <2> HIDE DEF members, strings, texts, Typed
  <2>14. CASE a = a2 /\ ok = ok2 /\ l = l2 /\ \A i \in DOMAIN l : DOMAIN l[i] = members
    <3>1. Agree(q, r.at, r.ok, r.s, r2.at, r2.ok, r2.s, strings)
      BY <2>2, <2>3, <2>14, ReadAgrees DEF Both, strings
    <3>2. CASE r.at = r2.at /\ r.ok = r2.ok /\ r.s = r2.s
      <4>1. m = m2
        BY <2>8, <2>14, <3>2
      <4>2. \A i \in DOMAIN m : DOMAIN m[i] = members
        BY <2>7, <2>9, <2>13, <2>14
      <4>3. ListAgree(q, r.at, r.ok, m, r2.at, r2.ok, m2, members, strings)
        BY <3>2, <4>1, <4>2 DEF ListAgree
      <4> QED
        BY <2>5, <2>8, <2>11, <2>12, <4>3
    <3>3. CASE ~(r.at = r2.at /\ r.ok = r2.ok /\ r.s = r2.s)
      <4>1. /\ r.at > Len(q)
            /\ r.ok => r2.ok /\ Near(r.s, r2.s, members, strings)
        BY <2>7, <3>1, <3>3 DEF Agree, Near
      <4>2. \A i \in 1..k : Near(m[i], m2[i], members, strings)
        BY <2>9, <2>10, <2>13, <2>14 DEF Near
      <4>3. r.ok => r2.ok /\ \A i \in DOMAIN m : Near(m[i], m2[i], members, strings)
        BY <2>9, <2>10, <2>13, <4>1, <4>2
      <4>4. ListAgree(q, r.at, r.ok, m, r2.at, r2.ok, m2, members, strings)
        BY <4>1, <4>3 DEF ListAgree
      <4> QED
        BY <2>5, <2>8, <2>11, <2>12, <4>4
    <3> QED
      BY <3>2, <3>3
  <2>15. CASE /\ a > Len(q)
              /\ ok => ok2 /\ \A i \in DOMAIN l : Near(l[i], l2[i], members, strings)
    <3>1. r.at > Len(q)
      <4>1. r.at = a
        <5>1. Cut(q, q) /\ DOMAIN format = 1..n
          BY CutSelf DEF Format
        <5>2. a \in Nat \ {0} /\ a > Len(q) /\ \A i \in 1..n : format[i].kind # "digits"
          BY <2>3, <2>15
        <5> DEFINE missed == \E i \in 1..n : format[i].kind # "str"
        <5>3. ReadsNothing(Read(q, a, format), a, missed)
          BY <5>1, <5>2, ReadNothing
        <5> HIDE DEF missed
        <5>4. ReadsNothing(r, a, missed)
          BY <2>2, <5>3
        <5> QED
          BY <5>4 DEF ReadsNothing
      <4> QED
        BY <2>15, <4>1
    <3>2. r.ok => /\ r2.ok
                  /\ \A i \in DOMAIN m : Near(m[i], m2[i], members, strings)
      <4>1. CASE \E i \in 1..n : format[i].kind # "str"
        <5>1. r.ok = FALSE
          <6>1. Cut(q, q) /\ DOMAIN format = 1..n
            BY CutSelf DEF Format
          <6> QED
            BY <2>2, <2>3, <2>15, <4>1, <6>1, ReadNothing DEF ReadsNothing
        <5> QED
          BY <5>1
      <4>2. CASE n = 1 /\ texts
        <5>1. PICK name : format = <<string(name)>>
          BY <4>2 DEF texts, IsTexts
        <5>2. r2.ok
          BY <2>2, <5>1, ReadText
        <5>3. name \in strings /\ members = {name}
          <6>1. format[1].name = name /\ format[1].kind = "str" /\ 1..1 = {1}
            BY <5>1 DEF string
          <6> QED
            BY <4>2, <6>1 DEF strings, members, StringsOf, Members
        <5>4. r.s[name] = NULL
          <6>1. r.s = WithMember(<<>>, name, FieldValue(q, a, "str"))
            BY <2>2, <5>1, ReadText
          <6>2. ~(a <= Len(q))
            BY <2>3, <2>15 DEF Cut
          <6>3. FieldValue(q, a, "str") = NULL
            BY <6>2 DEF FieldValue
          <6>4. DOMAIN <<>> = {}
            OBVIOUS
          <6> QED
            BY <6>1, <6>3, <6>4 DEF WithMember
        <5>5. Near(m[k + 1], m2[k + 1], members, strings)
          BY <2>7, <2>9, <2>10, <5>3, <5>4 DEF Near
        <5>6. \A i \in 1..k : Near(m[i], m2[i], members, strings)
          BY <2>4, <2>9, <2>10, <2>13, <2>15, <4>2
        <5> QED
          BY <2>9, <2>13, <5>2, <5>5, <5>6
      <4> QED
        BY <4>1, <4>2 DEF texts
    <3>3. ListAgree(q, r.at, r.ok, m, r2.at, r2.ok, m2, members, strings)
      BY <3>1, <3>2 DEF ListAgree
    <3> QED
      BY <2>5, <2>8, <2>11, <2>12, <3>3
  <2> QED
    BY <2>4, <2>14, <2>15 DEF ListAgree
<1>5. \A k \in 0..count : J(k)
  <2> DEFINE bad == {k \in 0..count : ~J(k)}
  <2> HIDE DEF J
  <2> SUFFICES ASSUME bad # {} PROVE FALSE
    OBVIOUS
  <2>1. PICK k \in bad : \A m \in bad : k <= m
    <3>1. bad \in SUBSET Nat
      OBVIOUS
    <3> HIDE DEF bad
    <3> QED
      BY <3>1, LeastNat
  <2>2. k # 0 /\ k - 1 \in 0..(count - 1)
    BY <1>3, <2>1
  <2>3. ~J(k) /\ J(k - 1) /\ (k - 1) + 1 = k
    BY <2>1, <2>2
  <2> QED
    BY <1>4, <2>2, <2>3
<1>6. J(count)
  <2>1. count \in 0..count
    OBVIOUS
  <2> HIDE DEF J
  <2> QED
    BY <1>5, <2>1
<1>7. PICK lq, lp : lq = ReadList(q, at, count, format) /\ lp = ReadList(p, at, count, format)
  OBVIOUS
<1>8. lq = L[count] /\ lp = K[count]
  BY <1>1, <1>2, <1>7 DEF ListSteps
<1> HIDE DEF X, texts, members, strings
<1>9. /\ lq.list \in Seq(X) /\ lp.list \in Seq(X) /\ Len(lq.list) = count /\ Len(lp.list) = count
  BY <1>6, <1>8
<1>10. DOMAIN lq.list = 1..count /\ DOMAIN lp.list = 1..count
  BY <1>9
<1>11. texts => lq.ok
  BY <1>6, <1>8
<1>12. ListAgree(q, lq.at, lq.ok, lq.list, lp.at, lp.ok, lp.list, members, strings)
  BY <1>6, <1>8
<1>13. lq.ok => lp.ok /\ \A i \in 1..count : Near(lq.list[i], lp.list[i], members, strings)
  BY <1>10, <1>12 DEF ListAgree, Near
<1>14. ListsHold(lq, lp, count, format, n)
  BY <1>9, <1>10, <1>11, <1>13 DEF ListsHold, texts, members, strings
<1> QED
  BY <1>7, <1>14

-----------------------------------------------------------------------------
(* Formats whose members are read independently of each other.             *)

Plain(f) ==
    \/ f.kind \in {"int", "long", "byte", "str"}
    \/ f.kind = "digits" /\ f.count = NULL /\ f.max \in Nat
PlainFormat(format) == \E S : format \in Seq(S) /\ \A f \in S : Plain(f)

LEMMA PlainMembers ==
    ASSUME NEW name
    PROVE  /\ Plain(int32(name)) /\ Plain(uint8(name)) /\ Plain(string(name))
           /\ \A max \in Nat : Plain(allDigits(name, max))
<1>1. Plain(int32(name)) /\ Plain(uint8(name)) /\ Plain(string(name))
  BY DEF Plain, int32, uint8, string
<1>2. \A max \in Nat : Plain(allDigits(name, max))
  BY DEF Plain, allDigits, digits
<1> QED
  BY <1>1, <1>2

LEMMA FormatOf ==
    ASSUME NEW format, PlainFormat(format)
    PROVE  Format(format, Len(format)) /\ Len(format) \in Nat
<1>1. PICK S : format \in Seq(S) /\ \A f \in S : Plain(f)
  BY DEF PlainFormat
<1>2. DOMAIN format = 1..Len(format) /\ Len(format) \in Nat /\ \A i \in 1..Len(format) : format[i] \in S
  BY <1>1
<1>3. \A i \in 1..Len(format) : Plain(format[i])
  BY <1>1, <1>2
<1>4. \A i \in 1..Len(format) : format[i].kind \in {"int", "long", "byte", "str", "digits"}
  BY <1>3 DEF Plain
<1>5. ASSUME NEW i \in 1..Len(format), format[i].kind = "digits", NEW members, NEW numbers
      PROVE  Counted(format[i], members, numbers)
  BY <1>3, <1>5 DEF Plain, Counted
<1> QED
  BY <1>2, <1>4, <1>5 DEF Format

LEMMA PlainInts ==
    ASSUME NEW names, NEW n \in Nat, DOMAIN names = 1..n
    PROVE  /\ PlainFormat(int32s(names)) /\ Len(int32s(names)) = n
           /\ \A i \in 1..n : int32s(names)[i] = int32(names[i])
<1> DEFINE S == {int32(names[i]) : i \in 1..n}
<1>1. int32s(names) = [i \in 1..n |-> int32(names[i])]
  BY DEF int32s
<1>2. int32s(names) \in Seq(S)
  BY <1>1
<1>3. \A f \in S : Plain(f)
  BY PlainMembers
<1>4. PlainFormat(int32s(names))
  <2> HIDE DEF S
  <2> QED
    BY <1>2, <1>3 DEF PlainFormat
<1> QED
  BY <1>1, <1>4

LEMMA PlainOne ==
    ASSUME NEW f, Plain(f)
    PROVE  PlainFormat(<<f>>)
<1> DEFINE S == {f}
<1>1. <<f>> \in Seq(S) /\ \A x \in S : Plain(x)
  OBVIOUS
<1> HIDE DEF S
<1> QED
  BY <1>1 DEF PlainFormat

LEMMA ConcatIs ==
    ASSUME NEW U, NEW a \in Seq(U), NEW b \in Seq(U)
    PROVE  /\ Len(a \o b) = Len(a) + Len(b)
           /\ \A i \in 1..Len(a) : (a \o b)[i] = a[i]
           /\ \A i \in 1..Len(b) : (a \o b)[Len(a) + i] = b[i]
OBVIOUS

LEMMA PlainConcat ==
    ASSUME NEW f, NEW g, PlainFormat(f), PlainFormat(g)
    PROVE  PlainFormat(f \o g)
<1>1. PICK S : f \in Seq(S) /\ \A x \in S : Plain(x)
  BY DEF PlainFormat
<1>2. PICK T : g \in Seq(T) /\ \A x \in T : Plain(x)
  BY DEF PlainFormat
<1>3. f \in Seq(S \cup T) /\ g \in Seq(S \cup T)
  BY <1>1, <1>2
<1>4. f \o g \in Seq(S \cup T) /\ \A x \in S \cup T : Plain(x)
  BY <1>1, <1>2, <1>3
<1> QED
  BY <1>4 DEF PlainFormat

\* A struct read with a format of that kind.
LEMMA PlainHolds ==
    ASSUME NEW p, NEW q, Cut(q, p), NEW at \in Nat \ {0}, NEW format, PlainFormat(format),
           Read(q, at, format).ok
    PROVE  /\ Read(p, at, format).ok
           /\ DOMAIN Read(q, at, format).s = Members(format, Len(format))
           /\ DOMAIN Read(p, at, format).s = Members(format, Len(format))
           /\ \A m \in Members(format, Len(format)) :
                \/ Read(q, at, format).s[m] = Read(p, at, format).s[m]
                \/ Read(q, at, format).s[m] = NULL /\ m \in StringsOf(format, Len(format))
BY FormatOf, ReadHolds

-----------------------------------------------------------------------------
(* What is passed on: x is made of the block that ends early, y of the     *)
(* whole one.                                                              *)

Sent(x, y) ==
    x.called /\ x.args # NULL =>
        /\ Len(x.args) = Len(y.args)
        /\ \A i \in DOMAIN y.args :
             \A name \in DOMAIN x.args[i] : x.args[i][name] \in {y.args[i][name], NULL}

LEMMA NotSent ==
    ASSUME NEW y
    PROVE  Sent(invalidCommandBlock, y) /\ Sent([called |-> FALSE, args |-> NULL], y)
BY DEF Sent, invalidCommandBlock

LEMMA NullSent ==
    ASSUME NEW y
    PROVE  Sent(ToVendor(NULL), y)
BY DEF Sent, ToVendor

LEMMA OneSent ==
    ASSUME NEW s, NEW s2, \A name \in DOMAIN s : s[name] \in {s2[name], NULL}
    PROVE  Sent(ToVendor(<<s>>), ToVendor(<<s2>>))
<1>1. /\ ToVendor(<<s>>).args = <<s>> /\ ToVendor(<<s2>>).args = <<s2>>
  BY DEF ToVendor
<1>2. Len(<<s>>) = Len(<<s2>>) /\ DOMAIN <<s2>> = {1} /\ <<s>>[1] = s /\ <<s2>>[1] = s2
  OBVIOUS
<1> QED
  BY <1>1, <1>2 DEF Sent

\* One struct: if it is passed on, its status holds, and the whole one's is passed on too.
LEMMA StructSent ==
    ASSUME NEW p, NEW q, Cut(q, p), NEW at \in Nat \ {0}, NEW format, PlainFormat(format),
           NEW h, NEW h2, h => Read(q, at, format).ok /\ h2
    PROVE  Sent(Struct(Read(q, at, format), h), Struct(Read(p, at, format), h2))
<1>1. CASE ~h
  BY <1>1, NotSent DEF Struct
<1>2. CASE h
  <2>1. PICK rq, rp : rq = Read(q, at, format) /\ rp = Read(p, at, format)
    OBVIOUS
  <2>2. rq.ok /\ h2
    BY <1>2, <2>1
  <2>3. \A name \in DOMAIN rq.s : rq.s[name] \in {rp.s[name], NULL}
    BY <2>1, <2>2, PlainHolds
  <2>4. Sent(ToVendor(<<rq.s>>), ToVendor(<<rp.s>>))
    BY <2>3, OneSent
  <2>5. Struct(rq, h) = ToVendor(<<rq.s>>) /\ Struct(rp, h2) = ToVendor(<<rp.s>>)
    BY <1>2, <2>2 DEF Struct
  <2> QED
    BY <2>1, <2>4, <2>5
<1> QED
  BY <1>1, <1>2

\* Most functions pass on what they have read if the last status is good.
LEMMA OkSent ==
    ASSUME NEW p, NEW q, Cut(q, p), NEW at \in Nat \ {0}, NEW format, PlainFormat(format)
    PROVE  Sent(Struct(Read(q, at, format), Read(q, at, format).ok),
                Struct(Read(p, at, format), Read(p, at, format).ok))
<1>1. Read(q, at, format).ok => Read(p, at, format).ok
  BY PlainHolds
<1> QED
  BY <1>1, StructSent

-----------------------------------------------------------------------------
(* The functions that read one struct.                                     *)

LEMMA SetInitialAttachApnSent ==
    ASSUME NEW p, NEW q, Cut(q, p)
    PROVE  Sent(dispatchSetInitialAttachApn(q), dispatchSetInitialAttachApn(p))
<1> DEFINE format == <<string("apn"), string("protocol"), int32("authtype"), string("username"),
                       string("password")>>
<1>1. PlainFormat(format)
  <2> DEFINE S == {string("apn"), string("protocol"), int32("authtype"), string("username"),
                   string("password")}
  <2>1. format \in Seq(S)
    OBVIOUS
  <2>2. \A f \in S : Plain(f)
    BY PlainMembers
  <2> HIDE DEF S
  <2> QED
    BY <2>1, <2>2 DEF PlainFormat
<1>2. /\ dispatchSetInitialAttachApn(q) = Struct(Read(q, 1, format), Read(q, 1, format).ok)
      /\ dispatchSetInitialAttachApn(p) = Struct(Read(p, 1, format), Read(p, 1, format).ok)
  BY DEF dispatchSetInitialAttachApn
<1> HIDE DEF format
<1> QED
  BY <1>1, <1>2, OkSent

LEMMA SimAuthenticationSent ==
    ASSUME NEW p, NEW q, Cut(q, p)
    PROVE  Sent(dispatchSimAuthentication(q), dispatchSimAuthentication(p))
<1> DEFINE format == <<int32("authContext"), string("authData"), string("aid")>>
<1>1. PlainFormat(format)
  <2> DEFINE S == {int32("authContext"), string("authData"), string("aid")}
  <2>1. format \in Seq(S)
    OBVIOUS
  <2>2. \A f \in S : Plain(f)
    BY PlainMembers
  <2> HIDE DEF S
  <2> QED
    BY <2>1, <2>2 DEF PlainFormat
<1>2. /\ dispatchSimAuthentication(q) = Struct(Read(q, 1, format), Read(q, 1, format).ok)
      /\ dispatchSimAuthentication(p) = Struct(Read(p, 1, format), Read(p, 1, format).ok)
  BY DEF dispatchSimAuthentication
<1> HIDE DEF format
<1> QED
  BY <1>1, <1>2, OkSent

LEMMA CdmaSmsAckSent ==
    ASSUME NEW p, NEW q, Cut(q, p)
    PROVE  Sent(dispatchCdmaSmsAck(q), dispatchCdmaSmsAck(p))
<1> DEFINE names == <<"uErrorClass", "uSMSCauseCode">>
<1>1. PlainFormat(int32s(names))
  <2>1. DOMAIN names = 1..Len(names) /\ Len(names) \in Nat
    OBVIOUS
  <2> QED
    BY <2>1, PlainInts
<1> QED
  BY <1>1, OkSent DEF dispatchCdmaSmsAck

LEMMA UiccSubscriptonSent ==
    ASSUME NEW p, NEW q, Cut(q, p)
    PROVE  Sent(dispatchUiccSubscripton(q), dispatchUiccSubscripton(p))
<1> DEFINE names == <<"slot", "app_index", "sub_type", "act_status">>
<1>1. PlainFormat(int32s(names))
  <2>1. DOMAIN names = 1..Len(names) /\ Len(names) \in Nat
    OBVIOUS
  <2> QED
    BY <2>1, PlainInts
<1> QED
  BY <1>1, OkSent DEF dispatchUiccSubscripton

LEMMA NVReadItemSent ==
    ASSUME NEW p, NEW q, Cut(q, p)
    PROVE  Sent(dispatchNVReadItem(q), dispatchNVReadItem(p))
<1>1. PlainFormat(<<int32("itemID")>>)
  BY PlainOne, PlainMembers
<1> QED
  BY <1>1, OkSent DEF dispatchNVReadItem

LEMMA SIM_IOSent ==
    ASSUME NEW p, NEW q, Cut(q, p), NEW v
    PROVE  Sent(dispatchSIM_IO(q, v), dispatchSIM_IO(p, v))
<1> DEFINE v5 == <<int32("command"), int32("fileid"), string("path"), int32("p1"), int32("p2"),
                   int32("p3"), string("data"), string("pin2")>>
           format == IF v < 6 THEN v5 ELSE Append(v5, string("aidPtr"))
           S == {int32("command"), int32("fileid"), string("path"), int32("p1"), int32("p2"),
                 int32("p3"), string("data"), string("pin2"), string("aidPtr")}
<1>1. v5 \in Seq(S) /\ string("aidPtr") \in S
  OBVIOUS
<1>2. \A f \in S : Plain(f)
  BY PlainMembers
<1> HIDE DEF v5, S
<1>3. format \in Seq(S)
  BY <1>1
<1>4. PlainFormat(format)
  BY <1>2, <1>3 DEF PlainFormat
<1>5. /\ dispatchSIM_IO(q, v) = Struct(Read(q, 1, format), Read(q, 1, format).ok)
      /\ dispatchSIM_IO(p, v) = Struct(Read(p, 1, format), Read(p, 1, format).ok)
  BY DEF dispatchSIM_IO, v5
<1> HIDE DEF format
<1> QED
  BY <1>4, <1>5, OkSent

LEMMA SIM_APDUSent ==
    ASSUME NEW p, NEW q, Cut(q, p)
    PROVE  Sent(dispatchSIM_APDU(q), dispatchSIM_APDU(p))
<1> DEFINE names == <<"sessionid", "cla", "instruction", "p1", "p2", "p3">>
           format == int32s(names) \o <<string("data")>>
<1>1. DOMAIN names = 1..6 /\ 6 \in Nat
  OBVIOUS
<1>2. /\ dispatchSIM_APDU(q) = Struct(Read(q, 1, format), Read(q, 1, format).ok)
      /\ dispatchSIM_APDU(p) = Struct(Read(p, 1, format), Read(p, 1, format).ok)
  BY DEF dispatchSIM_APDU
<1> HIDE DEF names
<1>3. PlainFormat(int32s(names))
  BY <1>1, PlainInts
<1>4. PlainFormat(<<string("data")>>)
  BY PlainOne, PlainMembers
<1>5. PlainFormat(format)
  BY <1>3, <1>4, PlainConcat
<1> HIDE DEF format
<1> QED
  BY <1>2, <1>5, OkSent

LEMMA NVWriteItemSent ==
    ASSUME NEW p, NEW q, Cut(q, p)
    PROVE  Sent(dispatchNVWriteItem(q), dispatchNVWriteItem(p))
<1> DEFINE format == <<int32("itemID"), string("value")>>
           rq == Read(q, 1, format)
           rp == Read(p, 1, format)
<1>1. PlainFormat(format)
  <2> DEFINE S == {int32("itemID"), string("value")}
  <2>1. format \in Seq(S)
    OBVIOUS
  <2>2. \A f \in S : Plain(f)
    BY PlainMembers
  <2> HIDE DEF S
  <2> QED
    BY <2>1, <2>2 DEF PlainFormat
<1>2. "value" \in Members(format, Len(format))
  <2>1. Len(format) = 2 /\ 2 \in 1..2 /\ format[2].name = "value"
    BY DEF string
  <2> HIDE DEF format
  <2> QED
    BY <2>1 DEF Members
<1>3. /\ dispatchNVWriteItem(q) = Struct(rq, rq.ok /\ rq.s["value"] # NULL)
      /\ dispatchNVWriteItem(p) = Struct(rp, rp.ok /\ rp.s["value"] # NULL)
  BY DEF dispatchNVWriteItem
<1> HIDE DEF format
<1> DEFINE h == rq.ok /\ rq.s["value"] # NULL
           h2 == rp.ok /\ rp.s["value"] # NULL
<1>4. h => Read(q, 1, format).ok /\ h2
  BY <1>1, <1>2, PlainHolds
<1>5. /\ dispatchNVWriteItem(q) = Struct(Read(q, 1, format), h)
      /\ dispatchNVWriteItem(p) = Struct(Read(p, 1, format), h2)
  BY <1>3
<1> HIDE DEF h, h2
<1> QED
  BY <1>1, <1>4, <1>5, StructSent

LEMMA RadioCapabilitySent ==
    ASSUME NEW p, NEW q, Cut(q, p)
    PROVE  Sent(dispatchRadioCapability(q), dispatchRadioCapability(p))
<1> DEFINE names == <<"version", "session", "phase", "rat">>
           rest == <<string("logicalModemUuid"), int32("status")>>
           format == int32s(names) \o rest
           fits(r) == readStringFromParcelInplace(r.s["logicalModemUuid"])
<1>1. DOMAIN names = 1..4 /\ 4 \in Nat
  OBVIOUS
<1>2. /\ dispatchRadioCapability(q)
           = Struct(Read(q, 1, format), Read(q, 1, format).ok /\ fits(Read(q, 1, format)))
      /\ dispatchRadioCapability(p)
           = Struct(Read(p, 1, format), Read(p, 1, format).ok /\ fits(Read(p, 1, format)))
  BY DEF dispatchRadioCapability
<1> HIDE DEF names
<1>3. PICK a : a = int32s(names)
  OBVIOUS
<1>4. PlainFormat(a) /\ Len(a) = 4
  BY <1>1, <1>3, PlainInts
<1> DEFINE S == {string("logicalModemUuid"), int32("status")}
<1>5. rest \in Seq(S) /\ Len(rest) = 2 /\ rest[1] = string("logicalModemUuid")
  OBVIOUS
<1>6. \A f \in S : Plain(f)
  BY PlainMembers
<1> HIDE DEF S, rest
<1>7. PlainFormat(rest)
  BY <1>5, <1>6 DEF PlainFormat
<1>8. PlainFormat(a \o rest)
  BY <1>4, <1>7, PlainConcat
<1>9. Len(a \o rest) = 6 /\ (a \o rest)[5] = rest[1]
  <2>1. PICK T : a \in Seq(T)
    BY <1>4 DEF PlainFormat
  <2>2. a \in Seq(S \cup T) /\ rest \in Seq(S \cup T)
    BY <1>5, <2>1
  <2>3. PICK n, m : n = Len(a) /\ m = Len(rest)
    OBVIOUS
  <2>4. Len(a \o rest) = n + m /\ \A i \in 1..m : (a \o rest)[n + i] = rest[i]
    BY <2>2, <2>3, ConcatIs
  <2>5. n = 4 /\ m = 2
    BY <1>4, <1>5, <2>3
  <2>6. Len(a \o rest) = 4 + 2 /\ (a \o rest)[4 + 1] = rest[1]
    BY <2>4, <2>5
  <2> QED
    BY <2>6
<1>10. "logicalModemUuid" \in Members(format, Len(format))
  <2>1. rest[1].name = "logicalModemUuid"
    BY <1>5 DEF string
  <2> QED
    BY <1>3, <1>9, <2>1 DEF Members
<1>11. PlainFormat(format)
  BY <1>3, <1>8
<1> HIDE DEF format
<1> DEFINE h == Read(q, 1, format).ok /\ fits(Read(q, 1, format))
           h2 == Read(p, 1, format).ok /\ fits(Read(p, 1, format))
<1>12. h => Read(q, 1, format).ok /\ h2
  BY <1>10, <1>11, PlainHolds DEF readStringFromParcelInplace
<1>13. /\ dispatchRadioCapability(q) = Struct(Read(q, 1, format), h)
       /\ dispatchRadioCapability(p) = Struct(Read(p, 1, format), h2)
  BY <1>2
<1> HIDE DEF h, h2
<1> QED
  BY <1>11, <1>12, <1>13, StructSent

-----------------------------------------------------------------------------
(* Copies.                                                                 *)

\* A copy has the members of the original, but for some that are NULL.
Copied(s, s2) == DOMAIN s = DOMAIN s2 /\ \A name \in DOMAIN s : s[name] \in {s2[name], NULL}

LEMMA CopiedSent ==
    ASSUME NEW s, NEW s2, Copied(s, s2)
    PROVE  Sent(ToVendor(<<s>>), ToVendor(<<s2>>))
BY OneSent DEF Copied

LEMMA TwoCopiedSent ==
    ASSUME NEW s, NEW s2, NEW u, NEW u2, Copied(s, s2), Copied(u, u2)
    PROVE  Sent(ToVendor(<<s, u>>), ToVendor(<<s2, u2>>))
<1>1. /\ ToVendor(<<s, u>>).args = <<s, u>> /\ ToVendor(<<s2, u2>>).args = <<s2, u2>>
  BY DEF ToVendor
<1>2. /\ Len(<<s, u>>) = Len(<<s2, u2>>) /\ DOMAIN <<s2, u2>> = {1, 2}
      /\ <<s, u>>[1] = s /\ <<s, u>>[2] = u /\ <<s2, u2>>[1] = s2 /\ <<s2, u2>>[2] = u2
  OBVIOUS
<1> DEFINE x == ToVendor(<<s, u>>)
           y == ToVendor(<<s2, u2>>)
<1>3. Len(x.args) = Len(y.args) /\ DOMAIN y.args = {1, 2}
  BY <1>1, <1>2
<1>4. x.args[1] = s /\ y.args[1] = s2 /\ x.args[2] = u /\ y.args[2] = u2
  BY <1>1, <1>2
<1> HIDE DEF x, y
<1>5. \A name \in DOMAIN x.args[1] : x.args[1][name] \in {y.args[1][name], NULL}
  BY <1>4 DEF Copied
<1>6. \A name \in DOMAIN x.args[2] : x.args[2][name] \in {y.args[2][name], NULL}
  BY <1>4 DEF Copied
<1>7. \A i \in DOMAIN y.args :
        \A name \in DOMAIN x.args[i] : x.args[i][name] \in {y.args[i][name], NULL}
  BY <1>3, <1>5, <1>6
<1>8. Sent(x, y)
  BY <1>3, <1>7 DEF Sent
<1> QED
  BY <1>8 DEF x, y

LEMMA CopiedMember ==
    ASSUME NEW s, NEW s2, Copied(s, s2), NEW name, NEW v, NEW v2, v \in {v2, NULL}
    PROVE  Copied(WithMember(s, name, v), WithMember(s2, name, v2))
BY DEF Copied, WithMember

LEMMA NoneOfNone == NoneIfEmpty(NULL) = NULL
BY Zenon DEF NoneIfEmpty

LEMMA CopiedRead ==
    ASSUME NEW p, NEW q, Cut(q, p), NEW at \in Nat \ {0}, NEW format, PlainFormat(format),
           Read(q, at, format).ok
    PROVE  Read(p, at, format).ok /\ Copied(Read(q, at, format).s, Read(p, at, format).s)
BY PlainHolds DEF Copied

LEMMA IntsWhole ==
    ASSUME NEW p, NEW q, Cut(q, p), NEW at \in Nat \ {0}, NEW format, PlainFormat(format),
           Len(format) # 0, format[Len(format)].kind = "int", Read(q, at, format).ok
    PROVE  /\ Read(q, at, format).at = Read(p, at, format).at
           /\ Read(q, at, format).s = Read(p, at, format).s
           /\ Read(p, at, format).ok
BY FormatOf, ReadWhole

LEMMA OneIntWhole ==
    ASSUME NEW p, NEW q, Cut(q, p), NEW at \in Nat \ {0}, NEW name, Read(q, at, <<int32(name)>>).ok
    PROVE  /\ Read(q, at, <<int32(name)>>).at = Read(p, at, <<int32(name)>>).at
           /\ Read(q, at, <<int32(name)>>).s = Read(p, at, <<int32(name)>>).s
           /\ Read(p, at, <<int32(name)>>).ok
<1>1. PlainFormat(<<int32(name)>>)
  BY PlainOne, PlainMembers
<1>2. Len(<<int32(name)>>) = 1 /\ <<int32(name)>>[1].kind = "int"
  BY DEF int32
<1> DEFINE format == <<int32(name)>>
<1>3. Len(format) # 0 /\ format[Len(format)].kind = "int"
  BY <1>2
<1> HIDE DEF format
<1> QED
  BY <1>1, <1>3, IntsWhole DEF format

LEMMA OneIntIs ==
    ASSUME NEW p, NEW at, NEW name
    PROVE  /\ Read(p, at, <<int32(name)>>).ok = (at <= Len(p))
           /\ at <= Len(p) => Read(p, at, <<int32(name)>>).at = at + 1
           /\ at <= Len(p) /\ "int" \in DOMAIN p[at] =>
                Read(p, at, <<int32(name)>>).s[name] = p[at].int
<1> DEFINE r == [at |-> at, ok |-> TRUE, s |-> <<>>]
<1>1. int32(name).kind = "int" /\ int32(name).name = name
  BY DEF int32
<1>2. Read(p, at, <<int32(name)>>) = ReadField(p, r, int32(name))
  BY <1>1, ReadOne DEF ReadMember
<1>3. r.at = at /\ r.ok = TRUE /\ r.s = <<>>
  OBVIOUS
<1> HIDE DEF r
<1>4. Read(p, at, <<int32(name)>>).ok = (at <= Len(p))
  BY <1>1, <1>2, <1>3, FieldIs DEF FieldOk
<1>5. at <= Len(p) => Read(p, at, <<int32(name)>>).at = at + 1
  BY <1>1, <1>2, <1>3, FieldIs DEF FieldAt
<1>6. Read(p, at, <<int32(name)>>).s = WithMember(<<>>, name, FieldValue(p, at, "int"))
  BY <1>1, <1>2, <1>3, FieldIs
<1>7. WithMember(<<>>, name, FieldValue(p, at, "int"))[name] = FieldValue(p, at, "int")
  <2>1. DOMAIN <<>> = {}
    OBVIOUS
  <2> QED
    BY <2>1 DEF WithMember
<1>8. at <= Len(p) /\ "int" \in DOMAIN p[at] => FieldValue(p, at, "int") = p[at].int
  BY DEF FieldValue
<1> QED
  BY <1>4, <1>5, <1>6, <1>7, <1>8

LEMMA VoidSent ==
    ASSUME NEW p, NEW q
    PROVE  Sent(dispatchVoid(q), dispatchVoid(p))
BY NullSent DEF dispatchVoid

LEMMA StringSent ==
    ASSUME NEW p, NEW q, Cut(q, p)
    PROVE  Sent(dispatchString(q), dispatchString(p))
<1>1. PlainFormat(<<string("string")>>)
  BY PlainOne, PlainMembers
<1>2. Read(q, 1, <<string("string")>>).ok
  BY ReadText
<1> QED
  BY <1>1, <1>2, CopiedRead, CopiedSent DEF dispatchString

LEMMA InplaceCopied ==
    ASSUME NEW p, NEW q, Cut(q, p), NEW at \in Nat \ {0}, NEW n
    PROVE  readInplace(q, at, n) \in {readInplace(p, at, n), NULL}
BY DEF readInplace, Cut

LEMMA RawSent ==
    ASSUME NEW p, NEW q, Cut(q, p)
    PROVE  Sent(dispatchRaw(q), dispatchRaw(p))
<1>1. PICK r, r2 : r = Read(q, 1, <<int32("len")>>) /\ r2 = Read(p, 1, <<int32("len")>>)
  OBVIOUS
<1>2. CASE ~r.ok
  BY <1>1, <1>2, NotSent DEF dispatchRaw
<1>3. CASE r.ok
  <2>1. r.s = r2.s /\ r2.ok
    BY <1>1, <1>3, OneIntWhole
  <2>2. PICK n : n = IF r.s["len"] = -1 THEN 0 ELSE r.s["len"]
    OBVIOUS
  <2> DEFINE s == [len |-> n, data |-> readInplace(q, 2, n)]
             s2 == [len |-> n, data |-> readInplace(p, 2, n)]
  <2>3. dispatchRaw(q) = ToVendor(<<s>>)
    BY <1>1, <1>3, <2>2 DEF dispatchRaw
  <2>4. dispatchRaw(p) = ToVendor(<<s2>>)
    BY <1>1, <2>1, <2>2 DEF dispatchRaw
  <2>5. Copied(s, s2)
    <3>1. readInplace(q, 2, n) \in {readInplace(p, 2, n), NULL}
      BY InplaceCopied
    <3> QED
      BY <3>1 DEF Copied
  <2> HIDE DEF s, s2
  <2> QED
    BY <2>3, <2>4, <2>5, CopiedSent
<1> QED
  BY <1>2, <1>3

-----------------------------------------------------------------------------
(* Lists.                                                                  *)

ListCopied(l, l2) ==
    /\ \E S : l \in Seq(S) /\ l2 \in Seq(S)
    /\ Len(l) = Len(l2)
    /\ \A i \in 1..Len(l) : Copied(l[i], l2[i])

LEMMA ListSent ==
    ASSUME NEW l, NEW l2, ListCopied(l, l2)
    PROVE  Sent(ToVendor(l), ToVendor(l2))
<1>1. ToVendor(l).args = l /\ ToVendor(l2).args = l2
  BY DEF ToVendor
<1>2. Len(l) = Len(l2) /\ \A i \in 1..Len(l) : Copied(l[i], l2[i])
  BY DEF ListCopied
<1>3. DOMAIN l2 = 1..Len(l)
  BY DEF ListCopied
<1> QED
  BY <1>1, <1>2, <1>3 DEF Sent, Copied

LEMMA MoreSent ==
    ASSUME NEW h, NEW l, NEW l2, ListCopied(l, l2)
    PROVE  ListCopied(<<h>> \o l, <<h>> \o l2)
<1>1. PICK S : l \in Seq(S) /\ l2 \in Seq(S)
  BY DEF ListCopied
<1>2. PICK T, o : T = S \cup {h} /\ o = <<h>>
  OBVIOUS
<1>3. PICK n : n = Len(l)
  OBVIOUS
<1>4. n \in Nat /\ Len(l) = n /\ Len(l2) = n /\ \A i \in 1..n : Copied(l[i], l2[i])
  BY <1>1, <1>3 DEF ListCopied
<1>5. o \in Seq(T) /\ Len(o) = 1 /\ o[1] = h
  BY <1>2
<1>6. l \in Seq(T) /\ l2 \in Seq(T)
  BY <1>1, <1>2
<1>7. ASSUME NEW k \in Seq(T), Len(k) = n
      PROVE  /\ o \o k \in Seq(T) /\ Len(o \o k) = n + 1
             /\ (o \o k)[1] = h
             /\ \A i \in 1..n : (o \o k)[i + 1] = k[i]
  <2>1. o \in Seq(T) /\ k \in Seq(T)
    BY <1>5
  <2>2. /\ Len(o \o k) = Len(o) + Len(k)
        /\ \A i \in 1..Len(o) : (o \o k)[i] = o[i]
        /\ \A i \in 1..Len(k) : (o \o k)[Len(o) + i] = k[i]
    BY <2>1, ConcatIs
  <2>3. o \o k \in Seq(T)
    BY <2>1
  <2>4. Len(o) = 1 /\ o[1] = h /\ Len(k) = n /\ n \in Nat
    BY <1>4, <1>5, <1>7
  <2>5. /\ Len(o \o k) = 1 + n
        /\ \A i \in 1..1 : (o \o k)[i] = o[i]
        /\ \A i \in 1..n : (o \o k)[1 + i] = k[i]
    BY <2>2, <2>4
  <2> QED
    BY <2>3, <2>4, <2>5
<1>8. PICK m, m2 : m = o \o l /\ m2 = o \o l2
  OBVIOUS
<1>9. /\ m \in Seq(T) /\ Len(m) = n + 1 /\ m[1] = h
      /\ \A i \in 1..n : m[i + 1] = l[i]
  BY <1>4, <1>6, <1>7, <1>8
<1>10. /\ m2 \in Seq(T) /\ Len(m2) = n + 1 /\ m2[1] = h
       /\ \A i \in 1..n : m2[i + 1] = l2[i]
  BY <1>4, <1>6, <1>7, <1>8
<1>11. ASSUME NEW i \in 1..(n + 1) PROVE Copied(m[i], m2[i])
  <2>1. CASE i = 1
    BY <1>9, <1>10, <2>1 DEF Copied
  <2>2. CASE i # 1
    <3>1. i - 1 \in 1..n /\ (i - 1) + 1 = i
      BY <1>4, <2>2
    <3>2. m[i] = l[i - 1] /\ m2[i] = l2[i - 1]
      BY <1>9, <1>10, <3>1
    <3> QED
      BY <1>4, <3>1, <3>2
  <2> QED
    BY <2>1, <2>2
<1>12. ListCopied(m, m2)
  BY <1>9, <1>10, <1>11 DEF ListCopied
<1> QED
  BY <1>2, <1>8, <1>12

LEMMA NearCopied ==
    ASSUME NEW s, NEW s2, NEW members, NEW strings, Near(s, s2, members, strings)
    PROVE  Copied(s, s2)
BY DEF Near, Copied

ListsCopied(format, l, l2) ==
    /\ IsTexts(format) => l.ok
    /\ l.ok => l2.ok /\ ListCopied(l.list, l2.list)

LEMMA ReadListCopied ==
    ASSUME NEW p, NEW q, Cut(q, p), NEW at \in Nat \ {0}, NEW count \in Nat,
           NEW format, PlainFormat(format),
           \A i \in 1..Len(format) : format[i].kind # "digits",
           \/ \E i \in 1..Len(format) : format[i].kind # "str"
           \/ IsTexts(format)
    PROVE  ListsCopied(format, ReadList(q, at, count, format), ReadList(p, at, count, format))
<1>1. PICK n \in Nat : n = Len(format) /\ Format(format, n)
  BY FormatOf
<1>2. PICK lq, lp : lq = ReadList(q, at, count, format) /\ lp = ReadList(p, at, count, format)
  OBVIOUS
<1>3. \A i \in 1..n : format[i].kind # "digits"
  BY <1>1
<1>4. (\E i \in 1..n : format[i].kind # "str") \/ (n = 1 /\ IsTexts(format))
  <2>1. IsTexts(format) => n = 1
    BY <1>1 DEF IsTexts
  <2> QED
    BY <1>1, <2>1
<1>5. ListsHold(ReadList(q, at, count, format), ReadList(p, at, count, format), count, format, n)
  BY <1>1, <1>3, <1>4, ListHolds
<1>6. ListsHold(lq, lp, count, format, n)
  BY <1>2, <1>5
<1>7. lq.ok => lp.ok /\ ListCopied(lq.list, lp.list)
  BY <1>6, NearCopied DEF ListCopied, ListsHold
<1>8. ListsCopied(format, lq, lp)
  BY <1>6, <1>7 DEF ListsCopied, ListsHold
<1> QED
  BY <1>2, <1>8

\* A count that is read is one of those the block may have.
CountIs(r, r2, name, counts, at) ==
    /\ r2.ok /\ r.s = r2.s /\ r.s[name] \in counts
    /\ r.at = at + 1 /\ r2.at = at + 1

LEMMA CountRead ==
    ASSUME NEW p, NEW q, Cut(q, p), NEW at \in Nat \ {0}, NEW counts, Counts(p, at, counts), NEW name,
           Read(q, at, <<int32(name)>>).ok
    PROVE  CountIs(Read(q, at, <<int32(name)>>), Read(p, at, <<int32(name)>>), name, counts, at)
<1>1. at <= Len(q)
  BY OneIntIs
<1>2. at <= Len(p) /\ q[at] = p[at]
  BY <1>1 DEF Cut
<1>3. "int" \in DOMAIN q[at] /\ q[at].int \in counts
  BY <1>2 DEF Counts
<1>4. Read(q, at, <<int32(name)>>).s[name] = q[at].int
  BY <1>1, <1>3, OneIntIs
<1>5. Read(q, at, <<int32(name)>>).at = at + 1 /\ Read(p, at, <<int32(name)>>).at = at + 1
  BY <1>1, <1>2, OneIntIs
<1> QED
  BY <1>3, <1>4, <1>5, OneIntWhole DEF CountIs

LEMMA StringsHold ==
    ASSUME NEW p, NEW q, Cut(q, p), NEW at \in Nat \ {0}, Counts(p, at, Nat \cup {-1}),
           Strings(q, at).ok
    PROVE  /\ Strings(p, at).ok
           /\ Strings(q, at).null = Strings(p, at).null
           /\ Strings(q, at).null => Strings(q, at).list = NULL
           /\ ~Strings(q, at).null => ListCopied(Strings(q, at).list, Strings(p, at).list)
<1> DEFINE counts == Nat \cup {-1}
<1>1. PICK r, r2 : r = Read(q, at, <<int32("count")>>) /\ r2 = Read(p, at, <<int32("count")>>)
  OBVIOUS
<1>2. r.ok
  BY <1>1 DEF Strings
<1> HIDE DEF counts
<1>3. Counts(p, at, counts)
  BY DEF counts
<1>4. r2.ok /\ r.s = r2.s /\ r.s["count"] \in counts /\ r.at = at + 1 /\ r2.at = at + 1
  <2>1. CountIs(r, r2, "count", counts, at)
    BY <1>1, <1>2, <1>3, CountRead
  <2> QED
    BY <2>1 DEF CountIs
<1>5. PICK n : n = r.s["count"]
  OBVIOUS
<1>6. n \in Nat \cup {-1}
  BY <1>4, <1>5 DEF counts
<1> DEFINE format == <<string("string")>>
           lq == ReadList(q, at + 1, n, format)
           lp == ReadList(p, at + 1, n, format)
<1>7. /\ Strings(q, at).null = (n = -1) /\ Strings(p, at).null = (n = -1)
      /\ Strings(q, at).ok /\ Strings(p, at).ok
      /\ Strings(q, at).list = IF n = -1 THEN NULL ELSE lq.list
      /\ Strings(p, at).list = IF n = -1 THEN NULL ELSE lp.list
  BY <1>1, <1>2, <1>4, <1>5 DEF Strings
<1>8. PlainFormat(format)
  BY PlainOne, PlainMembers
<1>9. IsTexts(format) /\ Len(format) = 1
  BY DEF IsTexts
<1>10. \A i \in 1..1 : format[i].kind # "digits"
  BY DEF string
<1> HIDE DEF format
<1>11. ASSUME n # -1 PROVE ListCopied(lq.list, lp.list)
  <2>1. n \in Nat /\ at + 1 \in Nat \ {0}
    BY <1>6, <1>11
  <2> QED
    BY <1>8, <1>9, <1>10, <2>1, ReadListCopied DEF ListsCopied
<1> HIDE DEF lq, lp
<1> QED
  BY <1>7, <1>11

LEMMA StringsSent ==
    ASSUME NEW p, NEW q, Cut(q, p), Counts(p, 1, Nat \cup {-1})
    PROVE  Sent(dispatchStrings(q), dispatchStrings(p))
<1>1. PICK l, l2 : l = Strings(q, 1) /\ l2 = Strings(p, 1)
  OBVIOUS
<1>2. CASE ~l.ok
  BY <1>1, <1>2, NotSent DEF dispatchStrings
<1>3. CASE l.ok
  <2>1. /\ l2.ok /\ (l.null => l.list = NULL)
        /\ ~l.null => ListCopied(l.list, l2.list)
    BY <1>1, <1>3, StringsHold
  <2>2. dispatchStrings(q) = ToVendor(l.list) /\ dispatchStrings(p) = ToVendor(l2.list)
    BY <1>1, <1>3, <2>1 DEF dispatchStrings
  <2>3. CASE l.null
    BY <2>1, <2>2, <2>3, NullSent
  <2>4. CASE ~l.null
    BY <2>1, <2>2, <2>4, ListSent
  <2> QED
    BY <2>3, <2>4
<1> QED
  BY <1>2, <1>3

LEMMA DataCallSent ==
    ASSUME NEW p, NEW q, Cut(q, p), Counts(p, 1, Nat \cup {-1}), NEW v, ~(v < 4)
    PROVE  Sent(dispatchDataCall(q, v), dispatchDataCall(p, v))
<1>1. dispatchDataCall(q, v) = dispatchStrings(q) /\ dispatchDataCall(p, v) = dispatchStrings(p)
  BY DEF dispatchDataCall
<1> QED
  BY <1>1, StringsSent

LEMMA IntsSent ==
    ASSUME NEW p, NEW q, Cut(q, p), Counts(p, 1, Nat)
    PROVE  Sent(dispatchInts(q), dispatchInts(p))
<1> DEFINE format == <<int32("int")>>
<1>1. PICK r, r2 : r = Read(q, 1, <<int32("count")>>) /\ r2 = Read(p, 1, <<int32("count")>>)
  OBVIOUS
<1>2. CASE ~r.ok
  BY <1>1, <1>2, NotSent DEF dispatchInts
<1>3. CASE r.ok
  <2>1. r2.ok /\ r.s = r2.s /\ r.s["count"] \in Nat
    <3>1. CountIs(r, r2, "count", Nat, 1)
      BY <1>1, <1>3, CountRead
    <3> QED
      BY <3>1 DEF CountIs
  <2>2. PICK n \in Nat : n = r.s["count"]
    BY <2>1
  <2>3. PICK l, l2 : l = ReadList(q, 2, n, format) /\ l2 = ReadList(p, 2, n, format)
    OBVIOUS
  <2>4. /\ dispatchInts(q) = IF n # 0 /\ l.ok THEN ToVendor(l.list) ELSE invalidCommandBlock
        /\ dispatchInts(p) = IF n # 0 /\ l2.ok THEN ToVendor(l2.list) ELSE invalidCommandBlock
    BY <1>1, <1>3, <2>1, <2>2, <2>3 DEF dispatchInts
  <2>5. PlainFormat(format)
    BY PlainOne, PlainMembers
  <2>6. Len(format) = 1 /\ 1 \in 1..1 /\ format[1].kind = "int"
    BY DEF int32
  <2>7. \A i \in 1..1 : i = 1
    OBVIOUS
  <2> HIDE DEF format
  <2>8. l.ok => l2.ok /\ ListCopied(l.list, l2.list)
    <3>1. 2 \in Nat \ {0} /\ \A i \in 1..Len(format) : format[i].kind # "digits"
      BY <2>6, <2>7
    <3>2. \E i \in 1..Len(format) : format[i].kind # "str"
      BY <2>6
    <3>3. ListsCopied(format, ReadList(q, 2, n, format), ReadList(p, 2, n, format))
      BY <2>5, <3>1, <3>2, ReadListCopied
    <3>4. ListsCopied(format, l, l2)
      BY <2>3, <3>3
    <3> QED
      BY <3>4 DEF ListsCopied
  <2> QED
    BY <2>4, <2>8, ListSent, NotSent
<1> QED
  BY <1>2, <1>3

LEMMA StructsSent ==
    ASSUME NEW p, NEW q, Cut(q, p), Counts(p, 1, Nat), NEW format, PlainFormat(format),
           \A i \in 1..Len(format) : format[i].kind # "digits",
           \E i \in 1..Len(format) : format[i].kind # "str"
    PROVE  Sent(Structs(q, format), Structs(p, format))
<1>1. PICK r, r2 : r = Read(q, 1, <<int32("num")>>) /\ r2 = Read(p, 1, <<int32("num")>>)
  OBVIOUS
<1>2. CASE ~r.ok
  BY <1>1, <1>2, NotSent DEF Structs
<1>3. CASE r.ok
  <2>1. r2.ok /\ r.s = r2.s /\ r.s["num"] \in Nat
    <3>1. CountIs(r, r2, "num", Nat, 1)
      BY <1>1, <1>3, CountRead
    <3> QED
      BY <3>1 DEF CountIs
  <2>2. PICK n \in Nat : n = r.s["num"]
    BY <2>1
  <2>3. PICK l, l2 : l = ReadList(q, 2, n, format) /\ l2 = ReadList(p, 2, n, format)
    OBVIOUS
  <2>4. /\ Structs(q, format) = IF l.ok THEN ToVendor(l.list) ELSE invalidCommandBlock
        /\ Structs(p, format) = IF l2.ok THEN ToVendor(l2.list) ELSE invalidCommandBlock
    BY <1>1, <1>3, <2>1, <2>2, <2>3 DEF Structs
  <2>5. l.ok => l2.ok /\ ListCopied(l.list, l2.list)
    <3>1. ListsCopied(format, ReadList(q, 2, n, format), ReadList(p, 2, n, format))
      BY ReadListCopied
    <3>2. ListsCopied(format, l, l2)
      BY <2>3, <3>1
    <3> QED
      BY <3>2 DEF ListsCopied
  <2> QED
    BY <2>4, <2>5, ListSent, NotSent
<1> QED
  BY <1>2, <1>3

LEMMA IntsFormat ==
    ASSUME NEW names, NEW n \in Nat \ {0}, DOMAIN names = 1..n
    PROVE  /\ PlainFormat(int32s(names)) /\ Len(int32s(names)) # 0
           /\ int32s(names)[Len(int32s(names))].kind = "int"
           /\ \A i \in 1..Len(int32s(names)) : int32s(names)[i].kind # "digits"
           /\ \E i \in 1..Len(int32s(names)) : int32s(names)[i].kind # "str"
<1>1. PICK format : format = int32s(names)
  OBVIOUS
<1>2. PlainFormat(format) /\ Len(format) = n /\ \A i \in 1..n : format[i] = int32(names[i])
  BY <1>1, PlainInts
<1>3. \A i \in 1..n : format[i].kind = "int"
  BY <1>2 DEF int32
<1>4. n # 0 /\ n \in 1..n
  OBVIOUS
<1> QED
  BY <1>1, <1>2, <1>3, <1>4

LEMMA GsmBrSmsCnfSent ==
    ASSUME NEW p, NEW q, Cut(q, p), Counts(p, 1, Nat)
    PROVE  Sent(dispatchGsmBrSmsCnf(q), dispatchGsmBrSmsCnf(p))
<1> DEFINE names == <<"fromServiceId", "toServiceId", "fromCodeScheme", "toCodeScheme", "selected">>
<1>1. DOMAIN names = 1..5 /\ 5 \in Nat \ {0}
  OBVIOUS
<1>2. /\ dispatchGsmBrSmsCnf(q) = Structs(q, int32s(names))
      /\ dispatchGsmBrSmsCnf(p) = Structs(p, int32s(names))
  BY DEF dispatchGsmBrSmsCnf
<1> HIDE DEF names
<1>3. PICK format : format = int32s(names)
  OBVIOUS
<1>4. /\ PlainFormat(format)
      /\ \A i \in 1..Len(format) : format[i].kind # "digits"
      /\ \E i \in 1..Len(format) : format[i].kind # "str"
  BY <1>1, <1>3, IntsFormat
<1>5. Sent(Structs(q, format), Structs(p, format))
  BY <1>4, StructsSent
<1> QED
  BY <1>2, <1>3, <1>5

LEMMA CdmaBrSmsCnfSent ==
    ASSUME NEW p, NEW q, Cut(q, p), Counts(p, 1, Nat)
    PROVE  Sent(dispatchCdmaBrSmsCnf(q), dispatchCdmaBrSmsCnf(p))
<1> DEFINE names == <<"service_category", "language", "selected">>
<1>1. DOMAIN names = 1..3 /\ 3 \in Nat \ {0}
  OBVIOUS
<1>2. /\ dispatchCdmaBrSmsCnf(q) = Structs(q, int32s(names))
      /\ dispatchCdmaBrSmsCnf(p) = Structs(p, int32s(names))
  BY DEF dispatchCdmaBrSmsCnf
<1> HIDE DEF names
<1>3. PICK format : format = int32s(names)
  OBVIOUS
<1>4. /\ PlainFormat(format)
      /\ \A i \in 1..Len(format) : format[i].kind # "digits"
      /\ \E i \in 1..Len(format) : format[i].kind # "str"
  BY <1>1, <1>3, IntsFormat
<1>5. Sent(Structs(q, format), Structs(p, format))
  BY <1>4, StructsSent
<1> QED
  BY <1>2, <1>3, <1>5

LEMMA DataProfileSent ==
    ASSUME NEW p, NEW q, Cut(q, p), Counts(p, 1, Nat)
    PROVE  Sent(dispatchDataProfile(q), dispatchDataProfile(p))
<1> DEFINE format == <<int32("profileId"), string("apn"), string("protocol"), int32("authType"),
                       string("user"), string("password"), int32("type"), int32("maxConnsTime"),
                       int32("maxConns"), int32("waitTime"), int32("enabled")>>
           S == {int32("profileId"), string("apn"), string("protocol"), int32("authType"),
                 string("user"), string("password"), int32("type"), int32("maxConnsTime"),
                 int32("maxConns"), int32("waitTime"), int32("enabled")}
<1>1. format \in Seq(S)
  OBVIOUS
<1>2. Len(format) = 11 /\ format[1] = int32("profileId")
  OBVIOUS
<1>3. \A f \in S : Plain(f)
  BY PlainMembers
<1>4. \A f \in S : f.kind # "digits"
  BY DEF int32, string
<1>5. /\ dispatchDataProfile(q) = Structs(q, format)
      /\ dispatchDataProfile(p) = Structs(p, format)
  BY DEF dispatchDataProfile
<1> HIDE DEF format, S
<1>6. PlainFormat(format)
  BY <1>1, <1>3 DEF PlainFormat
<1>7. \A i \in 1..Len(format) : format[i] \in S
  BY <1>1
<1>8. \A i \in 1..Len(format) : format[i].kind # "digits"
  BY <1>4, <1>7
<1>9. \E i \in 1..Len(format) : format[i].kind # "str"
  <2>1. 1 \in 1..Len(format)
    BY <1>2
  <2>2. format[1].kind # "str"
    BY <1>2 DEF int32
  <2> QED
    BY <2>1, <2>2
<1> QED
  BY <1>5, <1>6, <1>8, <1>9, StructsSent

-----------------------------------------------------------------------------
(* The functions that read a struct in more than one piece.                *)

LEMMA ReadThree ==
    ASSUME NEW p, NEW at, NEW f, NEW g, NEW h
    PROVE  Read(p, at, <<f, g, h>>) = ReadMember(p, Read(p, at, <<f, g>>), h)
<1>1. /\ DOMAIN <<f, g, h>> = 1..3 /\ DOMAIN <<f, g>> = 1..2
      /\ 3 \in Nat /\ 2 \in Nat
  OBVIOUS
<1>2. PICK R : Steps(p, at, 3, <<f, g, h>>, R)
  BY <1>1, ReadSteps
<1>3. PICK T : Steps(p, at, 2, <<f, g>>, T)
  BY <1>1, ReadSteps
<1>4. R[0] = [at |-> at, ok |-> TRUE, s |-> <<>>] /\ T[0] = [at |-> at, ok |-> TRUE, s |-> <<>>]
  BY <1>2, <1>3 DEF Steps
<1>5. R[1] = ReadMember(p, R[0], f) /\ R[2] = ReadMember(p, R[1], g) /\ R[3] = ReadMember(p, R[2], h)
  <2>1. /\ 0 \in 0..(3 - 1) /\ 1 \in 0..(3 - 1) /\ 2 \in 0..(3 - 1)
        /\ 0 + 1 = 1 /\ 1 + 1 = 2 /\ 2 + 1 = 3
        /\ <<f, g, h>>[1] = f /\ <<f, g, h>>[2] = g /\ <<f, g, h>>[3] = h
    OBVIOUS
  <2>2. \A k \in 0..(3 - 1) : R[k + 1] = ReadMember(p, R[k], <<f, g, h>>[k + 1])
    BY <1>2 DEF Steps
  <2>3. /\ R[0 + 1] = ReadMember(p, R[0], <<f, g, h>>[0 + 1])
        /\ R[1 + 1] = ReadMember(p, R[1], <<f, g, h>>[1 + 1])
        /\ R[2 + 1] = ReadMember(p, R[2], <<f, g, h>>[2 + 1])
    BY <2>1, <2>2
  <2> QED
    BY <2>1, <2>3
<1>6. T[1] = ReadMember(p, T[0], f) /\ T[2] = ReadMember(p, T[1], g)
  <2>1. /\ 0 \in 0..(2 - 1) /\ 1 \in 0..(2 - 1)
        /\ 0 + 1 = 1 /\ 1 + 1 = 2
        /\ <<f, g>>[1] = f /\ <<f, g>>[2] = g
    OBVIOUS
  <2>2. \A k \in 0..(2 - 1) : T[k + 1] = ReadMember(p, T[k], <<f, g>>[k + 1])
    BY <1>3 DEF Steps
  <2>3. /\ T[0 + 1] = ReadMember(p, T[0], <<f, g>>[0 + 1])
        /\ T[1 + 1] = ReadMember(p, T[1], <<f, g>>[1 + 1])
    BY <2>1, <2>2
  <2> QED
    BY <2>1, <2>3
<1>7. R[2] = T[2]
  BY <1>4, <1>5, <1>6
<1>8. Read(p, at, <<f, g, h>>) = R[3] /\ Read(p, at, <<f, g>>) = T[2]
  BY <1>2, <1>3 DEF Steps
<1> QED
  BY <1>5, <1>7, <1>8

LEMMA SmsWriteSent ==
    ASSUME NEW p, NEW q, Cut(q, p)
    PROVE  Sent(dispatchSmsWrite(q), dispatchSmsWrite(p))
<1> DEFINE two == <<int32("status"), string("pdu")>>
           three == <<int32("status"), string("pdu"), string("smsc")>>
           S == {int32("status"), string("pdu"), string("smsc")}
<1>1. two \in Seq(S) /\ three \in Seq(S)
  OBVIOUS
<1>2. \A f \in S : Plain(f)
  BY PlainMembers
<1>3. "pdu" \in Members(two, Len(two))
  <2>1. Len(two) = 2 /\ 2 \in 1..2 /\ two[2].name = "pdu"
    BY DEF string
  <2> HIDE DEF two
  <2> QED
    BY <2>1 DEF Members
<1>4. ASSUME NEW b
      PROVE  dispatchSmsWrite(b) = Struct(Read(b, 1, three), Read(b, 1, two).ok /\ Read(b, 1, two).s["pdu"] # NULL)
  BY DEF dispatchSmsWrite
<1>5. ASSUME NEW b
      PROVE  Read(b, 1, three).ok = Read(b, 1, two).ok
  <2>1. Read(b, 1, three) = ReadMember(b, Read(b, 1, two), string("smsc"))
    BY ReadThree
  <2>2. string("smsc").kind = "str"
    BY DEF string
  <2> HIDE DEF two, three
  <2>3. Read(b, 1, three) = ReadField(b, Read(b, 1, two), string("smsc"))
    BY <2>1, <2>2 DEF ReadMember
  <2> QED
    BY <2>2, <2>3, FieldIs DEF FieldOk
<1> HIDE DEF S, two, three
<1>6. PlainFormat(two) /\ PlainFormat(three)
  BY <1>1, <1>2 DEF PlainFormat
<1> DEFINE h == Read(q, 1, two).ok /\ Read(q, 1, two).s["pdu"] # NULL
           h2 == Read(p, 1, two).ok /\ Read(p, 1, two).s["pdu"] # NULL
<1>7. h => Read(q, 1, two).ok /\ h2
  <2> SUFFICES ASSUME Read(q, 1, two).ok, Read(q, 1, two).s["pdu"] # NULL
               PROVE  Read(p, 1, two).ok /\ Read(p, 1, two).s["pdu"] # NULL
    OBVIOUS
  <2>1. Read(p, 1, two).ok /\ Copied(Read(q, 1, two).s, Read(p, 1, two).s)
    BY <1>6, CopiedRead
  <2>2. "pdu" \in DOMAIN Read(q, 1, two).s
    BY <1>3, <1>6, PlainHolds
  <2> QED
    BY <2>1, <2>2 DEF Copied
<1>8. h => Read(q, 1, three).ok /\ h2
  BY <1>5, <1>7
<1>9. dispatchSmsWrite(q) = Struct(Read(q, 1, three), h) /\ dispatchSmsWrite(p) = Struct(Read(p, 1, three), h2)
  BY <1>4
<1> HIDE DEF h, h2
<1> QED
  BY <1>6, <1>8, <1>9, StructSent

LEMMA CallForwardSent ==
    ASSUME NEW p, NEW q, Cut(q, p)
    PROVE  Sent(dispatchCallForward(q), dispatchCallForward(p))
<1> DEFINE format == <<int32("status"), int32("reason"), int32("serviceClass"), int32("toa"),
                       string("number"), int32("timeSeconds")>>
           S == {int32("status"), int32("reason"), int32("serviceClass"), int32("toa"),
                 string("number"), int32("timeSeconds")}
           with(s) == [s EXCEPT !["number"] = NoneIfEmpty(@)]
<1>1. format \in Seq(S)
  OBVIOUS
<1>2. \A f \in S : Plain(f)
  BY PlainMembers
<1>3. ASSUME NEW b
      PROVE  dispatchCallForward(b) = IF Read(b, 1, format).ok THEN ToVendor(<<with(Read(b, 1, format).s)>>)
                                      ELSE invalidCommandBlock
  BY DEF dispatchCallForward
<1> HIDE DEF format, S
<1>4. PlainFormat(format)
  BY <1>1, <1>2 DEF PlainFormat
<1>5. PICK r, r2 : r = Read(q, 1, format) /\ r2 = Read(p, 1, format)
  OBVIOUS
<1>6. CASE ~r.ok
  BY <1>3, <1>5, <1>6, NotSent
<1>7. CASE r.ok
  <2>1. r2.ok /\ Copied(r.s, r2.s)
    BY <1>4, <1>5, <1>7, CopiedRead
  <2>2. Copied(with(r.s), with(r2.s))
    BY <2>1, NoneOfNone DEF Copied
  <2> HIDE DEF with
  <2>3. dispatchCallForward(q) = ToVendor(<<with(r.s)>>) /\ dispatchCallForward(p) = ToVendor(<<with(r2.s)>>)
    BY <1>3, <1>5, <1>7, <2>1
  <2> QED
    BY <2>2, <2>3, CopiedSent
<1> QED
  BY <1>6, <1>7

\* The user-to-user information: if its status holds, so does the whole one's.
UusCopied(u, u2) == u.ok => u2.ok /\ Copied(u.s, u2.s)

LEMMA UusHold ==
    ASSUME NEW p, NEW q, Cut(q, p)
    PROVE  UusCopied(Uus(q), Uus(p))
<1> DEFINE names == <<"uusType", "uusDcs", "uusLength">>
           none(s) == WithMember([s EXCEPT !["uusLength"] = 0], "uusData", NULL)
           some(z, at, n, s) == WithMember(s, "uusData", readInplace(z, at, n))
<1>1. DOMAIN names = 1..3 /\ 3 \in Nat \ {0}
  OBVIOUS
<1>2. PICK format : format = int32s(names)
  OBVIOUS
<1>3. ASSUME NEW z
      PROVE  /\ Uus(z).ok = Read(z, 4, format).ok
             /\ Uus(z).s = IF Read(z, 4, format).s["uusLength"] = -1 THEN none(Read(z, 4, format).s)
                           ELSE some(z, Read(z, 4, format).at, Read(z, 4, format).s["uusLength"],
                                     Read(z, 4, format).s)
  BY <1>2 DEF Uus
<1> HIDE DEF names, none, some
<1>4. PlainFormat(format) /\ Len(format) # 0 /\ format[Len(format)].kind = "int"
  BY <1>1, <1>2, IntsFormat
<1>5. PICK r, r2 : r = Read(q, 4, format) /\ r2 = Read(p, 4, format)
  OBVIOUS
<1>6. CASE ~r.ok
  BY <1>3, <1>5, <1>6 DEF UusCopied
<1>7. CASE r.ok
  <2>1. r2.ok /\ r.s = r2.s /\ r.at = r2.at
    BY <1>4, <1>5, <1>7, IntsWhole
  <2>2. r.at \in Nat \ {0}
    <3>1. Cut(q, q) /\ Format(format, Len(format)) /\ Len(format) \in Nat
      BY <1>4, CutSelf, FormatOf
    <3> QED
      BY <1>5, <3>1, ReadShape
  <2>3. PICK n, s, at : n = r.s["uusLength"] /\ s = r.s /\ at = r.at
    OBVIOUS
  <2>4. /\ Uus(q).ok /\ Uus(p).ok
        /\ Uus(q).s = IF n = -1 THEN none(s) ELSE some(q, at, n, s)
        /\ Uus(p).s = IF n = -1 THEN none(s) ELSE some(p, at, n, s)
    BY <1>3, <1>5, <1>7, <2>1, <2>3
  <2>5. Copied(none(s), none(s)) /\ Copied(s, s)
    BY DEF Copied
  <2>6. Copied(some(q, at, n, s), some(p, at, n, s))
    <3>1. readInplace(q, at, n) \in {readInplace(p, at, n), NULL}
      BY <2>2, <2>3, InplaceCopied
    <3> QED
      BY <2>5, <3>1, CopiedMember DEF some
  <2>7. Copied(Uus(q).s, Uus(p).s)
    BY <2>4, <2>5, <2>6
  <2> QED
    BY <2>4, <2>7 DEF UusCopied
<1> QED
  BY <1>6, <1>7

LEMMA DialSent ==
    ASSUME NEW p, NEW q, Cut(q, p), NEW v
    PROVE  Sent(dispatchDial(q, v), dispatchDial(p, v))
<1> DEFINE format == <<string("address"), int32("clir")>>
           S == {string("address"), int32("clir")}
           Dial(e, f, u) ==
               IF ~e.ok \/ e.s["address"] = NULL THEN invalidCommandBlock
               ELSE IF v < 3 THEN ToVendor(<<e.s>>)
               ELSE IF ~f.ok THEN invalidCommandBlock
               ELSE IF f.s["uusPresent"] = 0 THEN ToVendor(<<WithMember(e.s, "uusInfo", NULL)>>)
               ELSE IF u.ok THEN ToVendor(<<e.s, u.s>>)
               ELSE invalidCommandBlock
<1>1. format \in Seq(S)
  OBVIOUS
<1>2. \A f \in S : Plain(f)
  BY PlainMembers
<1>3. "address" \in Members(format, Len(format))
  <2>1. Len(format) = 2 /\ 1 \in 1..2 /\ format[1].name = "address"
    BY DEF string
  <2> HIDE DEF format
  <2> QED
    BY <2>1 DEF Members
<1>4. ASSUME NEW z
      PROVE  dispatchDial(z, v) = Dial(Read(z, 1, format), Read(z, 3, <<int32("uusPresent")>>), Uus(z))
  BY DEF dispatchDial
<1> HIDE DEF format, S
<1>5. PlainFormat(format)
  BY <1>1, <1>2 DEF PlainFormat
<1>6. PICK e, e2, f, f2, u, u2 :
        /\ e = Read(q, 1, format) /\ e2 = Read(p, 1, format)
        /\ f = Read(q, 3, <<int32("uusPresent")>>) /\ f2 = Read(p, 3, <<int32("uusPresent")>>)
        /\ u = Uus(q) /\ u2 = Uus(p)
  OBVIOUS
<1>7. e.ok => e2.ok /\ Copied(e.s, e2.s) /\ "address" \in DOMAIN e.s
  BY <1>3, <1>5, <1>6, CopiedRead, PlainHolds
<1>8. f.ok => f2.ok /\ f.s = f2.s
  BY <1>6, OneIntWhole
<1>9. UusCopied(u, u2)
  BY <1>6, UusHold
<1>10. dispatchDial(q, v) = Dial(e, f, u) /\ dispatchDial(p, v) = Dial(e2, f2, u2)
  BY <1>4, <1>6
<1>11. CASE ~e.ok \/ e.s["address"] = NULL
  BY <1>10, <1>11, NotSent
<1>12. CASE e.ok /\ e.s["address"] # NULL
  <2>1. e2.ok /\ Copied(e.s, e2.s) /\ e2.s["address"] # NULL
    BY <1>7, <1>12 DEF Copied
  <2>2. CASE v < 3
    <3>1. dispatchDial(q, v) = ToVendor(<<e.s>>) /\ dispatchDial(p, v) = ToVendor(<<e2.s>>)
      BY <1>10, <1>12, <2>1, <2>2
    <3> QED
      BY <2>1, <3>1, CopiedSent
  <2>3. CASE ~(v < 3) /\ ~f.ok
    BY <1>10, <1>12, <2>3, NotSent
  <2>4. CASE ~(v < 3) /\ f.ok
    <3>1. f2.ok /\ f.s = f2.s
      BY <1>8, <2>4
    <3>2. CASE f.s["uusPresent"] = 0
      <4>1. /\ dispatchDial(q, v) = ToVendor(<<WithMember(e.s, "uusInfo", NULL)>>)
            /\ dispatchDial(p, v) = ToVendor(<<WithMember(e2.s, "uusInfo", NULL)>>)
        BY <1>10, <1>12, <2>1, <2>4, <3>1, <3>2
      <4>2. Copied(WithMember(e.s, "uusInfo", NULL), WithMember(e2.s, "uusInfo", NULL))
        BY <2>1, CopiedMember
      <4> QED
        BY <4>1, <4>2, CopiedSent
    <3>3. CASE f.s["uusPresent"] # 0 /\ u.ok
      <4>1. u2.ok /\ Copied(u.s, u2.s)
        BY <1>9, <3>3 DEF UusCopied
      <4>2. dispatchDial(q, v) = ToVendor(<<e.s, u.s>>) /\ dispatchDial(p, v) = ToVendor(<<e2.s, u2.s>>)
        BY <1>10, <1>12, <2>1, <2>4, <3>1, <3>3, <4>1
      <4> QED
        BY <2>1, <4>1, <4>2, TwoCopiedSent
    <3>4. CASE f.s["uusPresent"] # 0 /\ ~u.ok
      BY <1>10, <1>12, <2>4, <3>4, NotSent
    <3> QED
      BY <3>2, <3>3, <3>4
  <2> QED
    BY <2>2, <2>3, <2>4
<1> QED
  BY <1>11, <1>12


-----------------------------------------------------------------------------
(* CDMA messages.                                                          *)

LEMMA PlainCdma == PlainFormat(cdmaAddress) /\ PlainFormat(cdmaSubAddress)
<1> DEFINE S == {int32("uTeleserviceID"), uint8("bIsServicePresent"), int32("uServicecategory"),
                 int32("digit_mode"), int32("number_mode"), int32("number_type"),
                 int32("number_plan"), uint8("number_of_digits")}
           T == {int32("subaddressType"), uint8("odd"), uint8("sub_number_of_digits")}
<1>1. cdmaAddress \in Seq(S)
  BY DEF cdmaAddress
<1>2. cdmaSubAddress \in Seq(T)
  BY DEF cdmaSubAddress
<1>3. (\A f \in S : Plain(f)) /\ (\A f \in T : Plain(f))
  BY PlainMembers
<1> HIDE DEF S, T
<1> QED
  BY <1>1, <1>2, <1>3 DEF PlainFormat

LEMMA RilCdmaSmsWriteArgsSent ==
    ASSUME NEW p, NEW q, Cut(q, p)
    PROVE  Sent(dispatchRilCdmaSmsWriteArgs(q), dispatchRilCdmaSmsWriteArgs(p))
<1> DEFINE status == <<int32("status")>>
           number == <<allDigits("digits", RIL_CDMA_SMS_ADDRESS_MAX)>>
           text == <<allDigits("sub_digits", RIL_CDMA_SMS_SUBADDRESS_MAX), int32("uBearerDataLen"),
                     allDigits("aBearerData", RIL_CDMA_SMS_BEARER_DATA_MAX)>>
           format == status \o cdmaAddress \o number \o cdmaSubAddress \o text
           T == {allDigits("sub_digits", RIL_CDMA_SMS_SUBADDRESS_MAX), int32("uBearerDataLen"),
                 allDigits("aBearerData", RIL_CDMA_SMS_BEARER_DATA_MAX)}
<1>1. /\ dispatchRilCdmaSmsWriteArgs(q) = Struct(Read(q, 1, format), Read(q, 1, format).ok)
      /\ dispatchRilCdmaSmsWriteArgs(p) = Struct(Read(p, 1, format), Read(p, 1, format).ok)
  BY DEF dispatchRilCdmaSmsWriteArgs
<1>2. /\ RIL_CDMA_SMS_ADDRESS_MAX \in Nat /\ RIL_CDMA_SMS_SUBADDRESS_MAX \in Nat
      /\ RIL_CDMA_SMS_BEARER_DATA_MAX \in Nat
  BY ParcelAssumption
<1>3. PlainFormat(status) /\ PlainFormat(number)
  BY <1>2, PlainOne, PlainMembers
<1>4. PlainFormat(text)
  <2>1. text \in Seq(T)
    OBVIOUS
  <2>2. \A f \in T : Plain(f)
    BY <1>2, PlainMembers
  <2> HIDE DEF T, text
  <2> QED
    BY <2>1, <2>2 DEF PlainFormat
<1> HIDE DEF status, number, text
<1>5. PlainFormat(format)
  BY <1>3, <1>4, PlainCdma, PlainConcat
<1> HIDE DEF format
<1> QED
  BY <1>1, <1>5, OkSent

\* The members of a CDMA message: the digits are counted by a member before them.
CdmaMembers ==
    <<int32("uTeleserviceID"), uint8("bIsServicePresent"), int32("uServicecategory"),
      int32("digit_mode"), int32("number_mode"), int32("number_type"), int32("number_plan"),
      uint8("number_of_digits"), digits("digits", "number_of_digits", RIL_CDMA_SMS_ADDRESS_MAX),
      int32("subaddressType"), uint8("odd"), uint8("sub_number_of_digits"),
      digits("sub_digits", "sub_number_of_digits", RIL_CDMA_SMS_SUBADDRESS_MAX),
      int32("uBearerDataLen"),
      digits("aBearerData", "uBearerDataLen", RIL_CDMA_SMS_BEARER_DATA_MAX)>>

\* n of them, from one on.
Part(f, from, n) ==
    /\ f \in Seq({CdmaMembers[i] : i \in 1..15}) /\ Len(f) = n
    /\ \A i \in 1..n : f[i] = CdmaMembers[from + i]

LEMMA PartConcat ==
    ASSUME NEW from \in Nat, NEW n \in Nat, NEW m \in Nat, NEW f, NEW g,
           Part(f, from, n), Part(g, from + n, m)
    PROVE  Part(f \o g, from, n + m)
<1> DEFINE S == {CdmaMembers[i] : i \in 1..15}
<1>1. f \in Seq(S) /\ Len(f) = n /\ g \in Seq(S) /\ Len(g) = m
  BY DEF Part
<1>2. \A i \in 1..n : f[i] = CdmaMembers[from + i]
  BY DEF Part
<1>3. \A i \in 1..m : g[i] = CdmaMembers[from + n + i]
  BY DEF Part
<1> HIDE DEF S
<1>4. PICK h : h = f \o g
  OBVIOUS
<1>5. h \in Seq(S)
  BY <1>1, <1>4
<1>6. Len(h) = n + m /\ (\A i \in 1..n : h[i] = f[i]) /\ \A i \in 1..m : h[n + i] = g[i]
  <2>1. /\ Len(f \o g) = Len(f) + Len(g)
        /\ \A i \in 1..Len(f) : (f \o g)[i] = f[i]
        /\ \A i \in 1..Len(g) : (f \o g)[Len(f) + i] = g[i]
    <3>1. f \in Seq(S) /\ g \in Seq(S)
      BY <1>1
    <3>2. PICK a, b : a = f /\ b = g
      OBVIOUS
    <3>3. a \in Seq(S) /\ b \in Seq(S)
      BY <3>1, <3>2
    <3>4. /\ Len(a \o b) = Len(a) + Len(b)
          /\ \A i \in 1..Len(a) : (a \o b)[i] = a[i]
          /\ \A i \in 1..Len(b) : (a \o b)[Len(a) + i] = b[i]
      BY <3>3, ConcatIs
    <3> QED
      BY <3>2, <3>4
  <2>2. Len(f) = n /\ Len(g) = m
    BY <1>1
  <2> QED
    BY <1>4, <2>1, <2>2
<1>7. ASSUME NEW i \in 1..(n + m) PROVE h[i] = CdmaMembers[from + i]
  <2>1. CASE i <= n
    BY <1>2, <1>6, <2>1
  <2>2. CASE ~(i <= n)
    <3>1. i - n \in 1..m /\ n + (i - n) = i /\ from + n + (i - n) = from + i
      BY <2>2
    <3>2. h[n + (i - n)] = CdmaMembers[from + n + (i - n)]
      BY <1>3, <1>6, <3>1
    <3> QED
      BY <3>1, <3>2
  <2> QED
    BY <2>1, <2>2
<1> QED
  BY <1>4, <1>5, <1>6, <1>7 DEF Part, S

\* The members are those of constructCdmaSms.
CdmaFormat ==
    cdmaAddress \o <<digits("digits", "number_of_digits", RIL_CDMA_SMS_ADDRESS_MAX)>>
    \o cdmaSubAddress
    \o <<digits("sub_digits", "sub_number_of_digits", RIL_CDMA_SMS_SUBADDRESS_MAX),
         int32("uBearerDataLen"),
         digits("aBearerData", "uBearerDataLen", RIL_CDMA_SMS_BEARER_DATA_MAX)>>

LEMMA CdmaParts ==
    /\ Part(cdmaAddress, 0, 8)
    /\ Part(<<digits("digits", "number_of_digits", RIL_CDMA_SMS_ADDRESS_MAX)>>, 8, 1)
    /\ Part(cdmaSubAddress, 9, 3)
    /\ Part(<<digits("sub_digits", "sub_number_of_digits", RIL_CDMA_SMS_SUBADDRESS_MAX),
              int32("uBearerDataLen"),
              digits("aBearerData", "uBearerDataLen", RIL_CDMA_SMS_BEARER_DATA_MAX)>>, 12, 3)
<1> DEFINE S == {CdmaMembers[i] : i \in 1..15}
<1>1. /\ CdmaMembers[1] = int32("uTeleserviceID") /\ CdmaMembers[2] = uint8("bIsServicePresent")
      /\ CdmaMembers[3] = int32("uServicecategory") /\ CdmaMembers[4] = int32("digit_mode")
      /\ CdmaMembers[5] = int32("number_mode") /\ CdmaMembers[6] = int32("number_type")
      /\ CdmaMembers[7] = int32("number_plan") /\ CdmaMembers[8] = uint8("number_of_digits")
      /\ CdmaMembers[9] = digits("digits", "number_of_digits", RIL_CDMA_SMS_ADDRESS_MAX)
      /\ CdmaMembers[10] = int32("subaddressType") /\ CdmaMembers[11] = uint8("odd")
      /\ CdmaMembers[12] = uint8("sub_number_of_digits")
      /\ CdmaMembers[13]
           = digits("sub_digits", "sub_number_of_digits", RIL_CDMA_SMS_SUBADDRESS_MAX)
      /\ CdmaMembers[14] = int32("uBearerDataLen")
      /\ CdmaMembers[15] = digits("aBearerData", "uBearerDataLen", RIL_CDMA_SMS_BEARER_DATA_MAX)
  BY DEF CdmaMembers
<1>2. \A i \in 1..15 : CdmaMembers[i] \in S
  OBVIOUS
<1> HIDE DEF S
<1>3. Part(cdmaAddress, 0, 8)
  <2>1. /\ CdmaMembers[1] \in S /\ CdmaMembers[2] \in S /\ CdmaMembers[3] \in S
        /\ CdmaMembers[4] \in S /\ CdmaMembers[5] \in S /\ CdmaMembers[6] \in S
        /\ CdmaMembers[7] \in S /\ CdmaMembers[8] \in S
    BY <1>2
  <2>2. cdmaAddress = <<CdmaMembers[1], CdmaMembers[2], CdmaMembers[3], CdmaMembers[4],
                        CdmaMembers[5], CdmaMembers[6], CdmaMembers[7], CdmaMembers[8]>>
    BY <1>1 DEF cdmaAddress
  <2>3. cdmaAddress \in Seq(S) /\ Len(cdmaAddress) = 8
    BY <2>1, <2>2
  <2>4. ASSUME NEW i \in 1..8 PROVE cdmaAddress[i] = CdmaMembers[0 + i]
    BY <2>2
  <2> QED
    BY <2>3, <2>4 DEF Part, S
<1>4. Part(<<digits("digits", "number_of_digits", RIL_CDMA_SMS_ADDRESS_MAX)>>, 8, 1)
  <2> DEFINE f == <<digits("digits", "number_of_digits", RIL_CDMA_SMS_ADDRESS_MAX)>>
  <2>1. f = <<CdmaMembers[9]>> /\ CdmaMembers[9] \in S
    BY <1>1, <1>2
  <2> HIDE DEF f
  <2>2. f \in Seq(S) /\ Len(f) = 1 /\ \A i \in 1..1 : f[i] = CdmaMembers[8 + i]
    BY <2>1
  <2>3. Part(f, 8, 1)
    BY <2>2 DEF Part, S
  <2> QED
    BY <2>3 DEF f
<1>5. Part(cdmaSubAddress, 9, 3)
  <2>1. CdmaMembers[10] \in S /\ CdmaMembers[11] \in S /\ CdmaMembers[12] \in S
    BY <1>2
  <2>2. cdmaSubAddress = <<CdmaMembers[10], CdmaMembers[11], CdmaMembers[12]>>
    BY <1>1 DEF cdmaSubAddress
  <2>3. cdmaSubAddress \in Seq(S) /\ Len(cdmaSubAddress) = 3
    BY <2>1, <2>2
  <2>4. ASSUME NEW i \in 1..3 PROVE cdmaSubAddress[i] = CdmaMembers[9 + i]
    BY <2>2
  <2> QED
    BY <2>3, <2>4 DEF Part, S
<1>6. Part(<<digits("sub_digits", "sub_number_of_digits", RIL_CDMA_SMS_SUBADDRESS_MAX),
             int32("uBearerDataLen"),
             digits("aBearerData", "uBearerDataLen", RIL_CDMA_SMS_BEARER_DATA_MAX)>>, 12, 3)
  <2> DEFINE f == <<digits("sub_digits", "sub_number_of_digits", RIL_CDMA_SMS_SUBADDRESS_MAX),
                    int32("uBearerDataLen"),
                    digits("aBearerData", "uBearerDataLen", RIL_CDMA_SMS_BEARER_DATA_MAX)>>
  <2>1. CdmaMembers[13] \in S /\ CdmaMembers[14] \in S /\ CdmaMembers[15] \in S
    BY <1>2
  <2>2. f = <<CdmaMembers[13], CdmaMembers[14], CdmaMembers[15]>>
    BY <1>1
  <2> HIDE DEF f
  <2>3. f \in Seq(S) /\ Len(f) = 3 /\ \A i \in 1..3 : f[i] = CdmaMembers[12 + i]
    BY <2>1, <2>2
  <2>4. Part(f, 12, 3)
    BY <2>3 DEF Part, S
  <2> QED
    BY <2>4 DEF f
<1> QED
  BY <1>3, <1>4, <1>5, <1>6

LEMMA CdmaWhole == Part(CdmaFormat, 0, 15)
<1> DEFINE number == <<digits("digits", "number_of_digits", RIL_CDMA_SMS_ADDRESS_MAX)>>
           text == <<digits("sub_digits", "sub_number_of_digits", RIL_CDMA_SMS_SUBADDRESS_MAX),
                     int32("uBearerDataLen"),
                     digits("aBearerData", "uBearerDataLen", RIL_CDMA_SMS_BEARER_DATA_MAX)>>
<1>1. Part(cdmaAddress, 0, 8) /\ Part(number, 8, 1) /\ Part(cdmaSubAddress, 9, 3) /\ Part(text, 12, 3)
  BY CdmaParts
<1>2. CdmaFormat = cdmaAddress \o number \o cdmaSubAddress \o text
  BY DEF CdmaFormat
<1> HIDE DEF number, text
<1>3. /\ 0 + 8 = 8 /\ 8 + 1 = 9 /\ 0 + 9 = 9 /\ 9 + 3 = 12 /\ 0 + 12 = 12 /\ 12 + 3 = 15
      /\ 0 \in Nat /\ 8 \in Nat /\ 1 \in Nat /\ 9 \in Nat /\ 3 \in Nat /\ 12 \in Nat
  OBVIOUS
<1>4. Part(cdmaAddress \o number, 0, 9)
  <2>1. Part(cdmaAddress \o number, 0, 8 + 1)
    BY <1>1, <1>3, PartConcat
  <2> QED
    BY <1>3, <2>1
<1>5. Part(cdmaAddress \o number \o cdmaSubAddress, 0, 12)
  <2>1. Part(cdmaAddress \o number \o cdmaSubAddress, 0, 9 + 3)
    BY <1>1, <1>3, <1>4, PartConcat
  <2> QED
    BY <1>3, <2>1
<1>6. Part(cdmaAddress \o number \o cdmaSubAddress \o text, 0, 15)
  <2>1. Part(cdmaAddress \o number \o cdmaSubAddress \o text, 0, 12 + 3)
    BY <1>1, <1>3, <1>5, PartConcat
  <2> QED
    BY <1>3, <2>1
<1> QED
  BY <1>2, <1>6

LEMMA CdmaFormatOk == Format(CdmaFormat, 15)
<1>1. PICK f : f = CdmaFormat
  OBVIOUS
<1>2. Part(f, 0, 15)
  BY <1>1, CdmaWhole
<1>3. DOMAIN f = 1..15
  BY <1>2 DEF Part
<1>4. ASSUME NEW i \in 1..15 PROVE f[i] = CdmaMembers[i]
  <2>1. 0 + i = i
    OBVIOUS
  <2> QED
    BY <1>2, <2>1 DEF Part
<1>5. /\ f[8].name = "number_of_digits" /\ f[12].name = "sub_number_of_digits"
      /\ f[14].name = "uBearerDataLen"
  BY <1>4 DEF CdmaMembers, int32, uint8
<1>6. /\ f[9].name = "digits" /\ f[13].name = "sub_digits" /\ f[15].name = "aBearerData"
      /\ f[9].kind = "digits" /\ f[13].kind = "digits" /\ f[15].kind = "digits"
      /\ f[9].count = "number_of_digits" /\ f[13].count = "sub_number_of_digits"
      /\ f[15].count = "uBearerDataLen"
      /\ f[9].max = RIL_CDMA_SMS_ADDRESS_MAX /\ f[13].max = RIL_CDMA_SMS_SUBADDRESS_MAX
      /\ f[15].max = RIL_CDMA_SMS_BEARER_DATA_MAX
  BY <1>4 DEF CdmaMembers, digits
<1>7. ASSUME NEW i \in 1..15 PROVE i \in {9, 13, 15} \/ f[i].kind \in {"int", "byte"}
  BY <1>4 DEF CdmaMembers, int32, uint8
<1>8. RIL_CDMA_SMS_ADDRESS_MAX \in Nat /\ RIL_CDMA_SMS_SUBADDRESS_MAX \in Nat
      /\ RIL_CDMA_SMS_BEARER_DATA_MAX \in Nat
  BY ParcelAssumption
<1>9. /\ "number_of_digits" \in Members(f, 8) /\ "sub_number_of_digits" \in Members(f, 12)
      /\ "uBearerDataLen" \in Members(f, 14)
  BY <1>5 DEF Members
<1>10. ASSUME NEW m \in {"number_of_digits", "sub_number_of_digits", "uBearerDataLen"}
       PROVE  m \in NumbersOf(f, 15)
  <2>1. m \in Members(f, 15)
    BY <1>5 DEF Members
  <2>2. ASSUME NEW i \in 1..15, f[i].name = m PROVE f[i].kind \in {"int", "byte"}
    BY <1>6, <1>7, <2>2
  <2> QED
    BY <2>1, <2>2 DEF NumbersOf
<1>11. Counted(f[9], Members(f, 8), NumbersOf(f, 15))
  BY <1>6, <1>8, <1>9, <1>10 DEF Counted
<1>12. Counted(f[13], Members(f, 12), NumbersOf(f, 15))
  BY <1>6, <1>8, <1>9, <1>10 DEF Counted
<1>13. Counted(f[15], Members(f, 14), NumbersOf(f, 15))
  BY <1>6, <1>8, <1>9, <1>10 DEF Counted
<1>14. \A i \in 1..15 : f[i].kind \in {"int", "long", "byte", "str", "digits"}
  BY <1>6, <1>7
<1>15. ASSUME NEW i \in 1..15, f[i].kind = "digits"
       PROVE  Counted(f[i], Members(f, i - 1), NumbersOf(f, 15))
  <2>1. i = 9 \/ i = 13 \/ i = 15
    BY <1>7, <1>15
  <2>2. 9 - 1 = 8 /\ 13 - 1 = 12 /\ 15 - 1 = 14
    OBVIOUS
  <2> QED
    BY <1>11, <1>12, <1>13, <2>1, <2>2
<1> QED
  BY <1>1, <1>3, <1>14, <1>15 DEF Format

LEMMA CdmaHolds ==
    ASSUME NEW p, NEW q, Cut(q, p), NEW at \in Nat \ {0}, constructCdmaSms(q, at).ok
    PROVE  /\ constructCdmaSms(p, at).ok
           /\ Copied(constructCdmaSms(q, at).s, constructCdmaSms(p, at).s)
<1>1. /\ constructCdmaSms(q, at) = Read(q, at, CdmaFormat)
      /\ constructCdmaSms(p, at) = Read(p, at, CdmaFormat)
  BY DEF constructCdmaSms, CdmaFormat
<1>2. Format(CdmaFormat, 15) /\ 15 \in Nat
  BY CdmaFormatOk
<1> QED
  BY <1>1, <1>2, ReadHolds DEF Copied

LEMMA CdmaSmsSent ==
    ASSUME NEW p, NEW q, Cut(q, p)
    PROVE  Sent(dispatchCdmaSms(q), dispatchCdmaSms(p))
<1>1. PICK r, r2 : r = constructCdmaSms(q, 1) /\ r2 = constructCdmaSms(p, 1)
  OBVIOUS
<1>2. dispatchCdmaSms(q) = Struct(r, r.ok) /\ dispatchCdmaSms(p) = Struct(r2, r2.ok)
  BY <1>1 DEF dispatchCdmaSms
<1>3. CASE ~r.ok
  BY <1>2, <1>3, NotSent DEF Struct
<1>4. CASE r.ok
  <2>1. r2.ok /\ Copied(r.s, r2.s)
    BY <1>1, <1>4, CdmaHolds
  <2>2. dispatchCdmaSms(q) = ToVendor(<<r.s>>) /\ dispatchCdmaSms(p) = ToVendor(<<r2.s>>)
    BY <1>2, <1>4, <2>1 DEF Struct
  <2> QED
    BY <2>1, <2>2, CopiedSent
<1> QED
  BY <1>3, <1>4

-----------------------------------------------------------------------------
(* IMS messages.                                                           *)

\* Three numbers have been read if the last one has.
LEMMA ThreePlaces ==
    ASSUME NEW p, Cut(p, p), NEW at \in Nat \ {0}, NEW f, NEW g, NEW h,
           f.kind \in {"int", "byte"}, g.kind \in {"int", "byte"}, h.kind \in {"int", "byte"},
           Read(p, at, <<f, g, h>>).ok
    PROVE  Read(p, at, <<f, g, h>>).at = at + 3
<1>1. DOMAIN <<f, g, h>> = 1..3 /\ 3 \in Nat
  OBVIOUS
<1>2. PICK R : Steps(p, at, 3, <<f, g, h>>, R)
  BY <1>1, ReadSteps
<1>3. R[1] = ReadMember(p, R[0], f) /\ R[2] = ReadMember(p, R[1], g) /\ R[3] = ReadMember(p, R[2], h)
  <2>1. /\ 0 \in 0..(3 - 1) /\ 1 \in 0..(3 - 1) /\ 2 \in 0..(3 - 1)
        /\ 0 + 1 = 1 /\ 1 + 1 = 2 /\ 2 + 1 = 3
        /\ <<f, g, h>>[1] = f /\ <<f, g, h>>[2] = g /\ <<f, g, h>>[3] = h
    OBVIOUS
  <2>2. \A k \in 0..(3 - 1) : R[k + 1] = ReadMember(p, R[k], <<f, g, h>>[k + 1])
    BY <1>2 DEF Steps
  <2>3. /\ R[0 + 1] = ReadMember(p, R[0], <<f, g, h>>[0 + 1])
        /\ R[1 + 1] = ReadMember(p, R[1], <<f, g, h>>[1 + 1])
        /\ R[2 + 1] = ReadMember(p, R[2], <<f, g, h>>[2 + 1])
    BY <2>1, <2>2
  <2> QED
    BY <2>1, <2>3
<1>4. PICK a0, a1, a2, a3 : a0 = R[0].at /\ a1 = R[1].at /\ a2 = R[2].at /\ a3 = R[3].at
  OBVIOUS
<1>5. a0 = at
  BY <1>2, <1>4 DEF Steps
<1>6. R[1] = ReadField(p, R[0], f) /\ R[2] = ReadField(p, R[1], g) /\ R[3] = ReadField(p, R[2], h)
  BY <1>3 DEF ReadMember
<1>7. a1 = FieldAt(p, a0) /\ a2 = FieldAt(p, a1) /\ a3 = FieldAt(p, a2)
  BY <1>4, <1>6, FieldIs
<1>8. R[3] = Read(p, at, <<f, g, h>>)
  BY <1>2 DEF Steps
<1>9. a2 <= Len(p)
  <2>1. R[3].ok
    BY <1>8
  <2>2. FieldOk(p, a2, R[2].ok, h.kind)
    BY <1>4, <1>6, <2>1, FieldIs
  <2>3. h.kind # "str"
    OBVIOUS
  <2> QED
    BY <2>2, <2>3 DEF FieldOk
<1>10. PICK n \in Nat : n = Len(p)
  BY DEF Cut
<1>11. a3 = at + 3
  <2>1. /\ a1 = IF a0 <= n THEN a0 + 1 ELSE a0
        /\ a2 = IF a1 <= n THEN a1 + 1 ELSE a1
        /\ a3 = IF a2 <= n THEN a2 + 1 ELSE a2
    BY <1>7, <1>10 DEF FieldAt
  <2> QED
    BY <1>5, <1>9, <1>10, <2>1
<1> QED
  BY <1>4, <1>8, <1>11

\* The header of a message, if its status holds, is the whole block's.
ImsHeaderCopied(h, h2) == h.ok => /\ h2.ok /\ h.s = h2.s
                                  /\ h.at = 4 /\ h2.at = 4

LEMMA ImsHeaderHolds ==
    ASSUME NEW p, NEW q, Cut(q, p)
    PROVE  ImsHeaderCopied(ImsHeader(q), ImsHeader(p))
<1> DEFINE format == <<int32("tech"), uint8("retry"), int32("messageRef")>>
           S == {int32("tech"), uint8("retry"), int32("messageRef")}
<1>1. format \in Seq(S) /\ Len(format) = 3 /\ format[3] = int32("messageRef")
  OBVIOUS
<1>2. \A f \in S : Plain(f)
  BY PlainMembers
<1>3. ASSUME NEW z PROVE ImsHeader(z) = Read(z, 1, format)
  BY DEF ImsHeader
<1>4. ASSUME NEW z, Cut(z, z), ImsHeader(z).ok PROVE ImsHeader(z).at = 4
  <2>1. /\ int32("tech").kind \in {"int", "byte"} /\ uint8("retry").kind \in {"int", "byte"}
        /\ int32("messageRef").kind \in {"int", "byte"}
    BY DEF int32, uint8
  <2>2. Read(z, 1, format).at = 1 + 3
    BY <1>3, <1>4, <2>1, ThreePlaces
  <2> HIDE DEF format
  <2> QED
    BY <1>3, <2>2
<1> HIDE DEF format, S
<1>5. PlainFormat(format)
  BY <1>1, <1>2 DEF PlainFormat
<1>6. Len(format) # 0 /\ format[Len(format)].kind = "int"
  BY <1>1 DEF int32
<1>7. SUFFICES ASSUME ImsHeader(q).ok PROVE ImsHeaderCopied(ImsHeader(q), ImsHeader(p))
  BY DEF ImsHeaderCopied
<1>8. ImsHeader(p).ok /\ ImsHeader(q).s = ImsHeader(p).s
  BY <1>3, <1>5, <1>6, <1>7, IntsWhole
<1>9. ImsHeader(q).at = 4 /\ ImsHeader(p).at = 4
  BY <1>4, <1>7, <1>8, CutSelf
<1> QED
  BY <1>8, <1>9 DEF ImsHeaderCopied

LEMMA ImsGsmSmsSent ==
    ASSUME NEW p, NEW q, Cut(q, p), Counts(p, 4, Nat \cup {-1}), NEW h, NEW h2,
           h.s = h2.s, h.at = 4, h2.at = 4
    PROVE  Sent(dispatchImsGsmSms(q, h), dispatchImsGsmSms(p, h2))
<1>1. PICK l, l2 : l = Strings(q, 4) /\ l2 = Strings(p, 4)
  OBVIOUS
<1>2. PICK s : s = h.s
  OBVIOUS
<1>3. CASE ~l.ok
  BY <1>1, <1>3, NotSent DEF dispatchImsGsmSms
<1>4. CASE l.ok
  <2>1. /\ l2.ok /\ l.null = l2.null
        /\ ~l.null => ListCopied(l.list, l2.list)
    BY <1>1, <1>4, StringsHold
  <2>2. CASE l.null
    <3>1. /\ dispatchImsGsmSms(q, h) = ToVendor(<<WithMember(s, "gsmMessage", NULL)>>)
          /\ dispatchImsGsmSms(p, h2) = ToVendor(<<WithMember(s, "gsmMessage", NULL)>>)
      BY <1>1, <1>2, <1>4, <2>1, <2>2 DEF dispatchImsGsmSms
    <3>2. Copied(s, s)
      BY DEF Copied
    <3>3. Copied(WithMember(s, "gsmMessage", NULL), WithMember(s, "gsmMessage", NULL))
      BY DEF Copied
    <3> QED
      BY <3>1, <3>3, CopiedSent
  <2>3. CASE ~l.null
    <3>1. /\ dispatchImsGsmSms(q, h) = ToVendor(<<s>> \o l.list)
          /\ dispatchImsGsmSms(p, h2) = ToVendor(<<s>> \o l2.list)
      BY <1>1, <1>2, <1>4, <2>1, <2>3 DEF dispatchImsGsmSms
    <3>2. ListCopied(l.list, l2.list)
      BY <2>1, <2>3
    <3>3. ListCopied(<<s>> \o l.list, <<s>> \o l2.list)
      BY <3>2, MoreSent
    <3> QED
      BY <3>1, <3>3, ListSent
  <2> QED
    BY <2>2, <2>3
<1> QED
  BY <1>3, <1>4

LEMMA ImsCdmaSmsSent ==
    ASSUME NEW p, NEW q, Cut(q, p), NEW h, NEW h2, h.s = h2.s, h.at = 4, h2.at = 4
    PROVE  Sent(dispatchImsCdmaSms(q, h), dispatchImsCdmaSms(p, h2))
<1>1. PICK r, r2 : r = constructCdmaSms(q, 4) /\ r2 = constructCdmaSms(p, 4)
  OBVIOUS
<1>2. PICK s : s = h.s
  OBVIOUS
<1>3. CASE ~r.ok
  BY <1>1, <1>3, NotSent DEF dispatchImsCdmaSms
<1>4. CASE r.ok
  <2>1. r2.ok /\ Copied(r.s, r2.s)
    BY <1>1, <1>4, CdmaHolds
  <2>2. dispatchImsCdmaSms(q, h) = ToVendor(<<s, r.s>>) /\ dispatchImsCdmaSms(p, h2) = ToVendor(<<s, r2.s>>)
    BY <1>1, <1>2, <1>4, <2>1 DEF dispatchImsCdmaSms
  <2>3. Copied(s, s)
    BY DEF Copied
  <2> QED
    BY <2>1, <2>2, <2>3, TwoCopiedSent
<1> QED
  BY <1>3, <1>4

LEMMA ImsSmsSent ==
    ASSUME NEW p, NEW q, Cut(q, p),
           ImsHeader(p).s["tech"] = RADIO_TECH_3GPP => Counts(p, 4, Nat \cup {-1})
    PROVE  Sent(dispatchImsSms(q), dispatchImsSms(p))
<1>1. PICK h, h2 : h = ImsHeader(q) /\ h2 = ImsHeader(p)
  OBVIOUS
<1>2. ImsHeaderCopied(h, h2)
  BY <1>1, ImsHeaderHolds
<1>3. CASE ~h.ok
  BY <1>1, <1>3, NotSent DEF dispatchImsSms
<1>4. CASE h.ok
  <2>1. h2.ok /\ h.s = h2.s /\ h.at = 4 /\ h2.at = 4
    BY <1>2, <1>4 DEF ImsHeaderCopied
  <2>2. PICK tech : tech = h.s["tech"] /\ tech = h2.s["tech"]
    BY <2>1
  <2>3. CASE tech = RADIO_TECH_3GPP
    <3>1. /\ dispatchImsSms(q) = dispatchImsGsmSms(q, h)
          /\ dispatchImsSms(p) = dispatchImsGsmSms(p, h2)
      BY <1>1, <1>4, <2>1, <2>2, <2>3 DEF dispatchImsSms
    <3>2. Counts(p, 4, Nat \cup {-1})
      BY <1>1, <2>2, <2>3
    <3> QED
      BY <2>1, <3>1, <3>2, ImsGsmSmsSent
  <2>4. CASE tech # RADIO_TECH_3GPP /\ tech = RADIO_TECH_3GPP2
    <3>1. /\ dispatchImsSms(q) = dispatchImsCdmaSms(q, h)
          /\ dispatchImsSms(p) = dispatchImsCdmaSms(p, h2)
      BY <1>1, <1>4, <2>1, <2>2, <2>4 DEF dispatchImsSms
    <3> QED
      BY <2>1, <3>1, ImsCdmaSmsSent
  <2>5. CASE tech # RADIO_TECH_3GPP /\ tech # RADIO_TECH_3GPP2
    <3>1. dispatchImsSms(q) = [called |-> FALSE, args |-> NULL]
      BY <1>1, <1>4, <2>2, <2>5 DEF dispatchImsSms
    <3> QED
      BY <3>1, NotSent
  <2> QED
    BY <2>3, <2>4, <2>5
<1> QED
  BY <1>3, <1>4

-----------------------------------------------------------------------------
(* A block that ends after n fields.                                       *)

LEMMA NumbersOfField ==
    ASSUME NEW f \in Field, NEW kind \in DOMAIN f, kind \in {"int", "byte"}
    PROVE  f[kind] \in Int
<1>1. CASE f \in [int : Int]
  BY <1>1
<1>2. CASE f \in [long : Int]
  BY <1>2
<1>3. CASE f \in [byte : 0..255]
  BY <1>3
<1>4. CASE f \in [str : STRING \cup {NULL}]
  <2>1. DOMAIN f = {"str"}
    BY <1>4
  <2> QED
    BY <2>1
<1>5. CASE f \in [raw : Seq(0..255)]
  <2>1. DOMAIN f = {"raw"}
    BY <1>5
  <2> QED
    BY <2>1
<1> QED
  BY <1>1, <1>2, <1>3, <1>4, <1>5 DEF Field

LEMMA CutSubSeq ==
    ASSUME NEW p \in Seq(Field), NEW n \in 0..Len(p)
    PROVE  Cut(SubSeq(p, 1, n), p)
<1>1. Len(SubSeq(p, 1, n)) = n /\ \A i \in 1..n : SubSeq(p, 1, n)[i] = p[i]
  OBVIOUS
<1>2. Len(p) \in Nat /\ \A i \in 1..Len(p) : p[i] \in Field
  OBVIOUS
<1>3. PICK q : q = SubSeq(p, 1, n)
  OBVIOUS
<1>4. Len(q) = n /\ \A i \in 1..n : q[i] = p[i]
  BY <1>1, <1>3
<1>5. \A i \in 1..Len(p) : \A kind \in DOMAIN p[i] : kind \in {"int", "byte"} => p[i][kind] \in Int
  BY <1>2, NumbersOfField
<1>6. Cut(q, p)
  BY <1>2, <1>4, <1>5 DEF Cut
<1> QED
  BY <1>3, <1>6

=============================================================================
