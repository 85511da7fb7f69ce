---------------------- MODULE RedundancyManagerProofs ----------------------
(***************************************************************************)
(* Proofs about RedundancyManager, for any list of servers and any level   *)
(* of redundancy, whatever races there are: the two lists are a partition  *)
(* of the endpoints, a lost endpoint is looked after, and the regions know *)
(* when all are gone.                                                      *)
(***************************************************************************)
EXTENDS RedundancyManager, WellFoundedInduction, TLAPS

(* Induction over the natural numbers, for a set of them.                  *)
LEMMA LeastNumber ==
  ASSUME NEW T \in SUBSET Nat, T # {}
  PROVE  \E x \in T : \A y \in T : x <= y
<1> DEFINE R == OpToRel(<, Nat)
<1>1. \A a, b \in Nat : a < b => <<a, b>> \in R BY DEF OpToRel
<1>2. IsWellFoundedOn(R, Nat) BY NatLessThanWellFounded, Zenon
<1> HIDE DEF R
<1>3. PICK x \in T : \A y \in T : ~ (<<y, x>> \in R) BY <1>2, WFMin, Zenon
<1>4. \A y \in T : ~(y < x) BY <1>1, <1>3, Zenon
<1> QED BY <1>3, <1>4

LEMMA SetInduction ==
  ASSUME NEW S, 0 \in S, \A n \in Nat : n \in S => n + 1 \in S
  PROVE  Nat \subseteq S
<1> SUFFICES ASSUME Nat \ S # {} PROVE FALSE BY Zenon
<1>.  PICK x \in Nat \ S : \A y \in Nat \ S : x <= y BY LeastNumber, Zenon
<1>2. x # 0 /\ x - 1 \in Nat /\ ~(x <= x - 1) /\ (x - 1) + 1 = x OBVIOUS
<1>3. x - 1 \in S BY <1>2, Zenon
<1> QED BY <1>2, <1>3, Zenon

(* A loop of n turns, where turn i does F[i] to what it is given: the      *)
(* values after each of the turns.                                         *)
Loops(n, S, b, F) ==
  {g \in [0..n -> S] : g[0] = b /\ \A i \in 1..n : g[i] = F[i][g[i - 1]]}

LEMMA LoopExists ==
  ASSUME NEW n \in Nat, NEW S, NEW b \in S, NEW F \in [1..n -> [S -> S]]
  PROVE  Loops(n, S, b, F) # {}
<1> DEFINE Q == {m \in Nat : m <= n => \E g \in [0..m -> S] :
                   g[0] = b /\ \A i \in 1..m : g[i] = F[i][g[i - 1]]}
<1>1. 0 \in Q
  <2> DEFINE g == [i \in 0..0 |-> b]
  <2>1. g \in [0..0 -> S] /\ g[0] = b /\ \A i \in 1..0 : g[i] = F[i][g[i - 1]]
    OBVIOUS
  <2> HIDE DEF g
  <2> QED BY <2>1
<1>2. ASSUME NEW m \in Nat, m \in Q PROVE m + 1 \in Q
  <2> SUFFICES ASSUME m + 1 <= n
               PROVE  \E g \in [0..(m + 1) -> S] :
                        g[0] = b /\ \A i \in 1..(m + 1) : g[i] = F[i][g[i - 1]]
    BY DEF Q
  <2>.  PICK g \in [0..m -> S] :
          g[0] = b /\ \A i \in 1..m : g[i] = F[i][g[i - 1]]
    BY <1>2
  <2> DEFINE h == [i \in 0..(m + 1) |-> IF i = m + 1 THEN F[m + 1][g[m]]
                                        ELSE g[i]]
  <2>2. h \in [0..(m + 1) -> S] OBVIOUS
  <2>3. h[0] = b OBVIOUS
  <2>4. ASSUME NEW i \in 1..(m + 1) PROVE h[i] = F[i][h[i - 1]] OBVIOUS
  <2> HIDE DEF h
  <2> QED BY <2>2, <2>3, <2>4, Zenon
<1>3. Nat \subseteq Q BY <1>1, <1>2, SetInduction, Zenon
<1>4. n \in Q /\ n <= n BY <1>3
<1>5. \E g \in [0..n -> S] : g[0] = b /\ \A i \in 1..n : g[i] = F[i][g[i - 1]]
  BY <1>4 DEF Q
<1> QED BY <1>5, Zenon DEF Loops

-----------------------------------------------------------------------------
(* Sequences of endpoints.                                                 *)

LEMMA SeqFacts ==
  ASSUME NEW E, NEW s \in Seq(E)
  PROVE  /\ Len(s) \in Nat /\ DOMAIN s = 1..Len(s)
         /\ \A i \in 1..Len(s) : s[i] \in E
         /\ Range(s) = {s[i] : i \in 1..Len(s)} /\ Range(s) \subseteq E
         /\ IsInjective(s) <=> \A i, j \in 1..Len(s) : s[i] = s[j] => i = j
         /\ s = <<>> <=> Len(s) = 0
<1>.  Len(s) \in Nat /\ DOMAIN s = 1..Len(s) /\ \A i \in 1..Len(s) : s[i] \in E
  OBVIOUS
<1>2. Range(s) = {s[i] : i \in 1..Len(s)} BY Zenon DEF Range
<1>3. Range(s) \subseteq E BY <1>2, Zenon
<1>4. IsInjective(s) <=> \A i, j \in 1..Len(s) : s[i] = s[j] => i = j
  BY Zenon DEF IsInjective
<1>5. s = <<>> <=> Len(s) = 0 OBVIOUS
<1> QED BY <1>2, <1>3, <1>4, <1>5, Zenon

LEMMA RangeAppend ==
  ASSUME NEW E, NEW s \in Seq(E), NEW e \in E
  PROVE  Range(Append(s, e)) = Range(s) \cup {e}
<1>1. Append(s, e) \in Seq(E) /\ Len(Append(s, e)) = Len(s) + 1 OBVIOUS
<1>2. /\ \A i \in 1..Len(s) : Append(s, e)[i] = s[i]
      /\ Append(s, e)[Len(s) + 1] = e
  OBVIOUS
<1>3. Range(Append(s, e)) = {Append(s, e)[i] : i \in 1..(Len(s) + 1)}
  BY <1>1, SeqFacts, Zenon
<1>4. Range(s) = {s[i] : i \in 1..Len(s)} BY SeqFacts
<1> QED BY <1>2, <1>3, <1>4

LEMMA InjectiveAppend ==
  ASSUME NEW E, NEW s \in Seq(E), NEW e \in E, IsInjective(s), e \notin Range(s)
  PROVE  IsInjective(Append(s, e))
<1>1. Append(s, e) \in Seq(E) /\ Len(Append(s, e)) = Len(s) + 1 OBVIOUS
<1>2. /\ \A i \in 1..Len(s) : Append(s, e)[i] = s[i]
      /\ Append(s, e)[Len(s) + 1] = e
  OBVIOUS
<1>3. /\ \A i \in 1..Len(s) : s[i] # e
      /\ \A i, j \in 1..Len(s) : s[i] = s[j] => i = j
  BY SeqFacts
<1>4. \A i \in 1..(Len(s) + 1) : i \in 1..Len(s) \/ i = Len(s) + 1 OBVIOUS
<1>5. \A i, j \in 1..(Len(s) + 1) : Append(s, e)[i] = Append(s, e)[j] => i = j
  BY <1>2, <1>3, <1>4, Zenon
<1> QED BY <1>1, <1>5, SeqFacts, Zenon

LEMMA RangeConcat ==
  ASSUME NEW E, NEW s \in Seq(E), NEW t \in Seq(E)
  PROVE  Range(s \o t) = Range(s) \cup Range(t)
<1>1. s \o t \in Seq(E) /\ Len(s \o t) = Len(s) + Len(t) OBVIOUS
<1>2. /\ \A i \in 1..Len(s) : (s \o t)[i] = s[i]
      /\ \A i \in 1..Len(t) : (s \o t)[Len(s) + i] = t[i]
  OBVIOUS
<1>3. Range(s \o t) = {(s \o t)[i] : i \in 1..(Len(s) + Len(t))}
  BY <1>1, SeqFacts, Zenon
<1>.  Range(s) = {s[i] : i \in 1..Len(s)} /\ Range(t) = {t[i] : i \in 1..Len(t)}
  BY SeqFacts
<1>5. ASSUME NEW i \in 1..(Len(s) + Len(t)), i > Len(s)
      PROVE  i - Len(s) \in 1..Len(t) /\ Len(s) + (i - Len(s)) = i
  BY <1>5
<1>6. ASSUME NEW i \in 1..(Len(s) + Len(t))
      PROVE  (s \o t)[i] \in Range(s) \cup Range(t)
  <2>1. CASE i <= Len(s) BY <1>2, <2>1
  <2>2. CASE i > Len(s) BY <1>2, <1>5, <2>2
  <2> QED BY <2>1, <2>2
<1>7. ASSUME NEW i \in 1..Len(s) PROVE s[i] \in Range(s \o t) BY <1>2, <1>3
<1>8. ASSUME NEW i \in 1..Len(t) PROVE t[i] \in Range(s \o t)
  <2>1. Len(s) + i \in 1..(Len(s) + Len(t)) OBVIOUS
  <2> QED BY <1>2, <1>3, <2>1
<1> QED BY <1>3, <1>6, <1>7, <1>8, Zenon

LEMMA ConcatInjective ==
  ASSUME NEW E, NEW s \in Seq(E), NEW t \in Seq(E),
         IsInjective(s), IsInjective(t), Range(s) \cap Range(t) = {}
  PROVE  IsInjective(s \o t)
<1>1. s \o t \in Seq(E) /\ Len(s \o t) = Len(s) + Len(t) OBVIOUS
<1>.  /\ \A i \in 1..Len(s) : (s \o t)[i] = s[i]
      /\ \A i \in 1..Len(t) : (s \o t)[Len(s) + i] = t[i]
  OBVIOUS
<1>3. Range(s) = {s[i] : i \in 1..Len(s)} /\ Range(t) = {t[i] : i \in 1..Len(t)}
  BY SeqFacts
<1>4. /\ \A i, j \in 1..Len(s) : s[i] = s[j] => i = j
      /\ \A i, j \in 1..Len(t) : t[i] = t[j] => i = j
  BY SeqFacts
<1>5. ASSUME NEW i \in 1..(Len(s) + Len(t)), NEW j \in 1..(Len(s) + Len(t)),
             (s \o t)[i] = (s \o t)[j]
      PROVE  i = j
  <2>.  \A k \in 1..(Len(s) + Len(t)) : k > Len(s) =>
          /\ k - Len(s) \in 1..Len(t)
          /\ (s \o t)[k] = t[k - Len(s)]
    <3> SUFFICES ASSUME NEW k \in 1..(Len(s) + Len(t)), k > Len(s)
                 PROVE  k - Len(s) \in 1..Len(t) /\ (s \o t)[k] = t[k - Len(s)]
      BY Zenon
    <3>1. k - Len(s) \in 1..Len(t) /\ Len(s) + (k - Len(s)) = k OBVIOUS
    <3> QED BY <3>1
  <2>1. CASE i <= Len(s) /\ j <= Len(s)
    <3>1. i \in 1..Len(s) /\ j \in 1..Len(s) BY <2>1
    <3> QED BY <1>4, <1>5, <3>1, Zenon
  <2>2. CASE i > Len(s) /\ j > Len(s)
    <3>1. /\ i - Len(s) \in 1..Len(t) /\ j - Len(s) \in 1..Len(t)
          /\ t[i - Len(s)] = t[j - Len(s)]
      BY <1>5, <2>2, Zenon
    <3>2. i - Len(s) = j - Len(s) BY <1>4, <3>1, Zenon
    <3> QED BY <3>2
  <2>.  CASE i <= Len(s) /\ j > Len(s)
    <3>1. s[i] \in Range(s) /\ t[j - Len(s)] \in Range(t) BY <1>3
    <3> QED BY <1>5, <3>1
  <2>.  CASE i > Len(s) /\ j <= Len(s)
    <3>1. s[j] \in Range(s) /\ t[i - Len(s)] \in Range(t) BY <1>3
    <3> QED BY <1>5, <3>1
  <2> QED BY <2>1, <2>2
<1> QED BY <1>1, <1>5, SeqFacts, Zenon

LEMMA RangeTail ==
  ASSUME NEW E, NEW s \in Seq(E), s # <<>>
  PROVE  /\ Head(s) \in E /\ Tail(s) \in Seq(E) /\ Len(Tail(s)) = Len(s) - 1
         /\ Head(s) = s[1] /\ \A i \in 1..(Len(s) - 1) : Tail(s)[i] = s[i + 1]
         /\ Head(s) \in Range(s) /\ Range(Tail(s)) \subseteq Range(s)
<1>.  /\ Head(s) \in E /\ Tail(s) \in Seq(E) /\ Len(Tail(s)) = Len(s) - 1
      /\ Head(s) = s[1] /\ \A i \in 1..(Len(s) - 1) : Tail(s)[i] = s[i + 1]
      /\ 1 \in 1..Len(s)
  OBVIOUS
<1>2. Range(s) = {s[i] : i \in 1..Len(s)} BY SeqFacts
<1>3. Range(Tail(s)) = {Tail(s)[i] : i \in 1..(Len(s) - 1)} BY SeqFacts, Zenon
<1>4. \A i \in 1..(Len(s) - 1) : i + 1 \in 1..Len(s) OBVIOUS
<1>5. Range(Tail(s)) \subseteq Range(s) BY <1>2, <1>3, <1>4, Zenon
<1> QED BY <1>2, <1>5, Zenon

LEMMA FrontLast ==
  ASSUME NEW E, NEW s \in Seq(E), s # <<>>
  PROVE  /\ Last(s) \in E /\ Front(s) \in Seq(E) /\ Len(Front(s)) = Len(s) - 1
         /\ Last(s) = s[Len(s)] /\ \A i \in 1..(Len(s) - 1) : Front(s)[i] = s[i]
         /\ Last(s) \in Range(s) /\ Range(s) = Range(Front(s)) \cup {Last(s)}
<1>.  /\ Last(s) \in E /\ Front(s) \in Seq(E) /\ Len(Front(s)) = Len(s) - 1
      /\ Last(s) = s[Len(s)] /\ \A i \in 1..(Len(s) - 1) : Front(s)[i] = s[i]
      /\ Len(s) \in 1..Len(s)
  <2>.  Len(s) \in Nat /\ Len(s) \in 1..Len(s) /\ s[Len(s)] \in E OBVIOUS
  <2>2. /\ SubSeq(s, 1, Len(s) - 1) \in Seq(E)
        /\ Len(SubSeq(s, 1, Len(s) - 1)) = Len(s) - 1
    <3> DEFINE n == Len(s) - 1
    <3>1. n \in Nat /\ n <= Len(s) OBVIOUS
    <3>2. \A i \in 1..n : s[i] \in E OBVIOUS
    <3> HIDE DEF n
    <3>3. SubSeq(s, 1, n) \in Seq(E) BY <3>1, <3>2
    <3>4. Len(SubSeq(s, 1, n)) = n BY <3>1, <3>2
    <3> QED BY <3>3, <3>4 DEF n
  <2>3. \A i \in 1..(Len(s) - 1) : SubSeq(s, 1, Len(s) - 1)[i] = s[i]
    OBVIOUS
  <2> QED BY <2>2, <2>3, Zenon DEF Last, Front
<1>2. Range(s) = {s[i] : i \in 1..Len(s)} BY SeqFacts
<1>3. Range(Front(s)) = {Front(s)[i] : i \in 1..(Len(s) - 1)}
  BY SeqFacts
<1>4. Range(s) = Range(Front(s)) \cup {Last(s)} BY <1>2, <1>3
<1> QED BY <1>4, Zenon

(* What is left to do of a list: its end.                                  *)
RestOf(todo, s) ==
  /\ Len(todo) <= Len(s)
  /\ \A i \in 1..Len(todo) : todo[i] = s[(Len(s) - Len(todo)) + i]

LEMMA RestAll ==
  ASSUME NEW E, NEW s \in Seq(E)
  PROVE  RestOf(s, s)
BY DEF RestOf

LEMMA RestTail ==
  ASSUME NEW E, NEW s \in Seq(E), NEW todo \in Seq(E), todo # <<>>,
         RestOf(todo, s)
  PROVE  /\ RestOf(Tail(todo), s)
         /\ (Len(s) - Len(todo)) + 1 \in 1..Len(s)
         /\ Len(s) - Len(Tail(todo)) = (Len(s) - Len(todo)) + 1
         /\ Head(todo) = s[(Len(s) - Len(todo)) + 1]
<1>.  /\ Len(Tail(todo)) = Len(todo) - 1 /\ Head(todo) = todo[1]
      /\ \A i \in 1..(Len(todo) - 1) : Tail(todo)[i] = todo[i + 1]
      /\ Len(todo) \in Nat /\ Len(s) \in Nat /\ Len(todo) >= 1
  OBVIOUS
<1>.  /\ Len(todo) <= Len(s)
      /\ \A i \in 1..Len(todo) : todo[i] = s[(Len(s) - Len(todo)) + i]
  BY DEF RestOf
<1>3. Head(todo) = s[(Len(s) - Len(todo)) + 1]
  <2>1. 1 \in 1..Len(todo) OBVIOUS
  <2> QED BY <2>1
<1>4. ASSUME NEW i \in 1..(Len(todo) - 1)
      PROVE  Tail(todo)[i] = s[(Len(s) - (Len(todo) - 1)) + i]
  <2>1. i + 1 \in 1..Len(todo) OBVIOUS
  <2>2. (Len(s) - (Len(todo) - 1)) + i = (Len(s) - Len(todo)) + (i + 1) OBVIOUS
  <2>3. todo[i + 1] = s[(Len(s) - Len(todo)) + (i + 1)] BY <2>1, Zenon
  <2> QED BY <2>2, <2>3
<1>5. RestOf(Tail(todo), s) BY <1>4 DEF RestOf
<1> QED BY <1>3, <1>5

(* src has some of the first k members of dest, in their order.            *)
TakenFrom(src, dest, k) ==
  /\ \A i \in 1..Len(src) : \E j \in 1..k : src[i] = dest[j]
  /\ \A i, i2 \in 1..Len(src) : \A j, j2 \in 1..Len(dest) :
       i < i2 /\ src[i] = dest[j] /\ src[i2] = dest[j2] => j < j2

LEMMA TakenNone ==
  ASSUME NEW dest, NEW k
  PROVE  TakenFrom(<<>>, dest, k)
BY DEF TakenFrom

LEMMA TakenLater ==
  ASSUME NEW src, NEW dest, NEW k \in Nat, TakenFrom(src, dest, k)
  PROVE  TakenFrom(src, dest, k + 1)
<1>1. \A j \in 1..k : j \in 1..(k + 1) OBVIOUS
<1> QED BY <1>1, Zenon DEF TakenFrom

LEMMA TakenNext ==
  ASSUME NEW E, NEW src \in Seq(E), NEW dest \in Seq(E), IsInjective(dest),
         NEW k \in Nat, k + 1 <= Len(dest), TakenFrom(src, dest, k)
  PROVE  TakenFrom(Append(src, dest[k + 1]), dest, k + 1)
<1> DEFINE t == Append(src, dest[k + 1])
<1>0. k + 1 \in 1..Len(dest) /\ dest[k + 1] \in E BY SeqFacts
<1>.  /\ Len(t) = Len(src) + 1 /\ t[Len(src) + 1] = dest[k + 1]
      /\ \A i \in 1..Len(src) : t[i] = src[i]
  BY <1>0
<1>2. \A i, j \in 1..Len(dest) : dest[i] = dest[j] => i = j BY SeqFacts
<1>.  /\ \A i \in 1..Len(src) : \E j \in 1..k : src[i] = dest[j]
      /\ \A i, i2 \in 1..Len(src) : \A j, j2 \in 1..Len(dest) :
           i < i2 /\ src[i] = dest[j] /\ src[i2] = dest[j2] => j < j2
  BY Zenon DEF TakenFrom
<1> HIDE DEF t
<1>4. \A i \in 1..(Len(src) + 1) : i \in 1..Len(src) \/ i = Len(src) + 1
  OBVIOUS
<1>5. ASSUME NEW i \in 1..(Len(src) + 1)
      PROVE  \E j \in 1..(k + 1) : t[i] = dest[j]
  <2>1. k + 1 \in 1..(k + 1) /\ \A j \in 1..k : j \in 1..(k + 1) OBVIOUS
  <2>2. CASE i \in 1..Len(src) BY <2>1, <2>2, Zenon
  <2>3. CASE i = Len(src) + 1 BY <2>1, <2>3, Zenon
  <2> QED BY <1>4, <2>2, <2>3, Zenon
<1>6. ASSUME NEW i \in 1..(Len(src) + 1), NEW i2 \in 1..(Len(src) + 1),
             NEW j \in 1..Len(dest), NEW j2 \in 1..Len(dest),
             i < i2, t[i] = dest[j], t[i2] = dest[j2]
      PROVE  j < j2
  <2>.  i \in 1..Len(src) BY <1>6
  <2>2. CASE i2 \in 1..Len(src) BY <1>6, <2>2, Zenon
  <2>3. CASE i2 = Len(src) + 1
    <3>1. j2 = k + 1 BY <1>0, <1>2, <1>6, <2>3, Zenon
    <3>2. PICK jj \in 1..k : src[i] = dest[jj] BY Zenon
    <3>3. jj \in 1..Len(dest) /\ jj < k + 1 OBVIOUS
    <3>4. j = jj BY <1>2, <1>6, <3>2, <3>3, Zenon
    <3> QED BY <3>1, <3>3, <3>4
  <2> QED BY <1>4, <2>2, <2>3, Zenon
<1>7. TakenFrom(t, dest, k + 1)
  BY <1>5, <1>6, Zenon DEF TakenFrom
<1> QED BY <1>7 DEF t

LEMMA TakenFacts ==
  ASSUME NEW E, NEW src \in Seq(E), NEW dest \in Seq(E), IsInjective(dest),
         NEW k \in Nat, k <= Len(dest), TakenFrom(src, dest, k)
  PROVE  /\ IsInjective(src) /\ Range(src) \subseteq Range(dest)
         /\ Range(src) \subseteq {dest[j] : j \in 1..k}
<1>.  /\ \A i \in 1..Len(src) : \E j \in 1..k : src[i] = dest[j]
      /\ \A i, i2 \in 1..Len(src) : \A j, j2 \in 1..Len(dest) :
           i < i2 /\ src[i] = dest[j] /\ src[i2] = dest[j2] => j < j2
  BY Zenon DEF TakenFrom
<1>2. \A j \in 1..k : j \in 1..Len(dest) OBVIOUS
<1>3. ASSUME NEW i \in 1..Len(src), NEW i2 \in 1..Len(src), src[i] = src[i2]
      PROVE  ~(i < i2)
  <2>1. PICK j \in 1..k : src[i] = dest[j] BY Zenon
  <2>2. j \in 1..Len(dest) /\ ~(j < j) OBVIOUS
  <2> QED BY <1>3, <2>1, <2>2, Zenon
<1>4. \A i, i2 \in 1..Len(src) : src[i] = src[i2] => i = i2
  <2> SUFFICES ASSUME NEW i \in 1..Len(src), NEW i2 \in 1..Len(src),
                      src[i] = src[i2]
               PROVE  i = i2
    BY Zenon
  <2>1. ~(i < i2) BY <1>3, Zenon
  <2>2. ~(i2 < i) BY <1>3, Zenon
  <2> QED BY <2>1, <2>2
<1>5. Range(src) = {src[i] : i \in 1..Len(src)} BY SeqFacts
<1>6. Range(dest) = {dest[j] : j \in 1..Len(dest)} BY SeqFacts
<1>7. IsInjective(src) BY <1>4, SeqFacts
<1> QED BY <1>2, <1>5, <1>6, <1>7, Zenon

-----------------------------------------------------------------------------
(* removeEndpointsInOrder and selectServers.                               *)

(* A turn of the loop of removeEndpointsInOrder.                           *)
RemovalTurn(src, e, acc) ==
  IF acc.itSrc <= Len(src) /\ src[acc.itSrc] = e
  THEN [acc EXCEPT !.itSrc = @ + 1]
  ELSE [acc EXCEPT !.temp = Append(@, e)]

RemovalLoop(dest, src, c) ==
  /\ removeEndpointsInOrder(dest, src) = c[Len(dest)].temp
  /\ c[0] = [temp |-> <<>>, itSrc |-> 1]
  /\ \A i \in 1..Len(dest) : c[i] = RemovalTurn(src, dest[i], c[i - 1])

LEMMA RemovalUnfolds ==
  ASSUME NEW E, NEW dest \in Seq(E), NEW src \in Seq(E)
  PROVE  \E c : RemovalLoop(dest, src, c)
<1> DEFINE S == [temp : Seq(E), itSrc : Nat]
           F == [i \in 1..Len(dest) |->
                   [acc \in S |-> RemovalTurn(src, dest[i], acc)]]
           b == [temp |-> <<>>, itSrc |-> 1]
<1>1. ASSUME NEW e \in E, NEW acc \in S PROVE RemovalTurn(src, e, acc) \in S
  <2>0. acc.itSrc + 1 \in Nat /\ Append(acc.temp, e) \in Seq(E)
        /\ acc.itSrc \in Nat /\ acc.temp \in Seq(E)
        /\ acc = [temp |-> acc.temp, itSrc |-> acc.itSrc]
    OBVIOUS
  <2>1. [acc EXCEPT !.itSrc = @ + 1] \in S BY <2>0
  <2>2. [acc EXCEPT !.temp = Append(@, e)] \in S BY <2>0, Zenon
  <2> QED BY <2>1, <2>2, Zenon DEF RemovalTurn
<1>2. Len(dest) \in Nat /\ 0 \in 0..Len(dest) /\ Len(dest) \in 0..Len(dest)
      /\ b \in S /\ \A i \in 1..Len(dest) : dest[i] \in E
  OBVIOUS
<1> HIDE DEF S, b
<1>3. F \in [1..Len(dest) -> [S -> S]] BY <1>1, <1>2
<1>4. \A i \in 1..Len(dest) : F[i] = [acc \in S |-> RemovalTurn(src, dest[i], acc)]
  BY Zenon
<1> HIDE DEF F
<1>5. Loops(Len(dest), S, b, F) # {} BY <1>2, <1>3, LoopExists, Zenon
<1>6. PICK g \in [0..Len(dest) -> S] :
        g[0] = b /\ \A i \in 1..Len(dest) : g[i] = F[i][g[i - 1]]
  BY <1>5, Zenon DEF Loops
<1> DEFINE D(f) == [n \in 0..Len(dest) |->
                      IF n = 0 THEN b ELSE RemovalTurn(src, dest[n], f[n - 1])]
<1>7. g = D(g)
  <2>1. ASSUME NEW n \in 0..Len(dest)
        PROVE  g[n] = IF n = 0 THEN b ELSE RemovalTurn(src, dest[n], g[n - 1])
    <3>1. CASE n = 0 BY <1>6, <3>1, Zenon
    <3>2. CASE n # 0
      <4>1. n \in 1..Len(dest) /\ n - 1 \in 0..Len(dest) BY <1>2, <3>2
      <4>2. g[n - 1] \in S BY <4>1, Zenon
      <4>3. g[n] = RemovalTurn(src, dest[n], g[n - 1])
        BY <1>4, <1>6, <4>1, <4>2, Zenon
      <4> QED BY <3>2, <4>3, Zenon
    <3> QED BY <3>1, <3>2, Zenon
  <2> QED BY <2>1, Zenon
<1> DEFINE c == CHOOSE f : f = D(f)
<1>8. c = D(c) BY <1>7, Zenon
<1>9. removeEndpointsInOrder(dest, src) = c[Len(dest)].temp
  BY DEF removeEndpointsInOrder, RemovalTurn, b
<1> HIDE DEF c
<1>10. c[0] = b BY <1>2, <1>8, Zenon
<1>11. ASSUME NEW i \in 1..Len(dest)
       PROVE  c[i] = RemovalTurn(src, dest[i], c[i - 1])
  <2>1. i \in 0..Len(dest) /\ i # 0 BY <1>2
  <2> QED BY <1>8, <2>1, Zenon
<1> QED BY <1>9, <1>10, <1>11, Zenon DEF b, RemovalLoop

(* The first of temp is the first of dest that is not in src.              *)
FirstLeft(dest, src, temp) ==
  temp # <<>> =>
    \E j \in 1..Len(dest) : /\ temp[1] = dest[j] /\ dest[j] \notin Range(src)
                            /\ \A i \in 1..(j - 1) : dest[i] \in Range(src)

(* After n turns: pos[m] is where dest has src[m].                         *)
Removed(dest, src, pos, n, acc) ==
  /\ acc \in [temp : Seq(Range(dest)), itSrc : 1..(Len(src) + 1)]
  /\ \A m \in 1..Len(src) : m < acc.itSrc <=> pos[m] <= n
  /\ IsInjective(acc.temp)
  /\ Range(acc.temp) = {dest[j] : j \in 1..n} \ Range(src)
  /\ Len(acc.temp) + acc.itSrc = n + 1
  /\ FirstLeft(dest, src, acc.temp)

LEMMA RemovedNext ==
  ASSUME NEW E, NEW dest \in Seq(E), NEW src \in Seq(E), IsInjective(dest),
         NEW pos \in [1..Len(src) -> 1..Len(dest)],
         \A m \in 1..Len(src) : src[m] = dest[pos[m]],
         \A m, m2 \in 1..Len(src) : m < m2 => pos[m] < pos[m2],
         NEW n \in Nat, n + 1 <= Len(dest), NEW acc,
         Removed(dest, src, pos, n, acc)
  PROVE  Removed(dest, src, pos, n + 1, RemovalTurn(src, dest[n + 1], acc))
<1> DEFINE k == acc.itSrc
           t == acc.temp
           e == dest[n + 1]
<1>0. /\ n + 1 \in 1..Len(dest) /\ Len(src) \in Nat
      /\ \A m \in 1..Len(src) : pos[m] \in 1..Len(dest)
      /\ Range(src) = {src[m] : m \in 1..Len(src)}
  BY SeqFacts
<1>a. acc \in [temp : Seq(Range(dest)), itSrc : 1..(Len(src) + 1)]
  BY Zenon DEF Removed
<1>b. k \in 1..(Len(src) + 1) /\ t \in Seq(Range(dest)) BY <1>a
<1>.  /\ k \in 1..(Len(src) + 1)
      /\ \A m \in 1..Len(src) : m < k <=> pos[m] <= n
      /\ t \in Seq(Range(dest)) /\ IsInjective(t)
      /\ Range(t) = {dest[j] : j \in 1..n} \ Range(src)
      /\ Len(t) + k = n + 1 /\ FirstLeft(dest, src, t)
  BY <1>b, Zenon DEF Removed
<1>2. \A i, j \in 1..Len(dest) : dest[i] = dest[j] => i = j BY SeqFacts
<1>3. \A m \in 1..Len(src) : src[m] = e => pos[m] = n + 1
  BY <1>0, <1>2, Zenon
<1>4. {dest[j] : j \in 1..(n + 1)} = {dest[j] : j \in 1..n} \cup {e} OBVIOUS
<1>5. e \in Range(dest) /\ e \notin {dest[j] : j \in 1..n}
  <2>1. Range(dest) = {dest[j] : j \in 1..Len(dest)} BY SeqFacts, Zenon
  <2>2. \A j \in 1..n : j \in 1..Len(dest) /\ j # n + 1 OBVIOUS
  <2> QED BY <1>0, <1>2, <2>1, <2>2, Zenon
<1>6. CASE k <= Len(src) /\ src[k] = e
  <2> DEFINE a == [acc EXCEPT !.itSrc = @ + 1]
  <2>1. RemovalTurn(src, e, acc) = a BY <1>6, Zenon DEF RemovalTurn
  <2>2. a.itSrc = k + 1 /\ a.temp = t BY <1>a, <1>b
  <2>.  k \in 1..Len(src) /\ k + 1 \in 1..(Len(src) + 1) BY <1>0, <1>6
  <2>4. pos[k] = n + 1 /\ e \in Range(src) BY <1>0, <1>3, <1>6, Zenon
  <2>5. ASSUME NEW m \in 1..Len(src)
        PROVE  m < k + 1 <=> pos[m] <= n + 1
    <3>.  CASE m < k
      <4>1. pos[m] <= n BY Zenon
      <4> QED BY <1>0, <4>1
    <3>2. CASE m = k BY <2>4, <3>2
    <3>.  CASE k < m
      <4>1. pos[k] < pos[m] BY Zenon
      <4> QED BY <1>0, <2>4, <4>1
    <3> QED BY <3>2
  <2>6. Range(t) = {dest[j] : j \in 1..(n + 1)} \ Range(src)
    BY <1>4, <2>4, Zenon
  <2>7. Len(t) + (k + 1) = (n + 1) + 1
    <3>1. Len(t) \in Nat /\ Len(t) + k = n + 1 /\ k \in Nat BY <1>b, <1>0
    <3>2. \A x, y \in Nat : x + y = n + 1 => x + (y + 1) = (n + 1) + 1 OBVIOUS
    <3> QED BY <3>1, <3>2, Zenon
  <2> HIDE DEF k, t, e, a
  <2>8. Removed(dest, src, pos, n + 1, a)
    <3>1. a \in [temp : Seq(Range(dest)), itSrc : 1..(Len(src) + 1)]
      BY <1>a, Zenon DEF a, k
    <3> QED BY <2>2, <2>5, <2>6, <2>7, <3>1, Zenon DEF Removed
  <2> QED BY <2>1, <2>8 DEF e
<1>7. CASE ~(k <= Len(src) /\ src[k] = e)
  <2> DEFINE a == [acc EXCEPT !.temp = Append(@, e)]
  <2>1. RemovalTurn(src, e, acc) = a BY <1>7, Zenon DEF RemovalTurn
  <2>2. a.itSrc = k /\ a.temp = Append(t, e) BY <1>a
  <2>3. ASSUME k \in 1..Len(src) PROVE pos[k] > n + 1
    <3>1. pos[k] # n + 1
      <4>1. src[k] # e BY <1>7, <2>3
      <4> QED BY <1>0, <2>3, <4>1, Zenon
    <3>2. ~(k < k) BY <2>3
    <3>3. ~(pos[k] <= n) BY <2>3, <3>2, Zenon
    <3> QED BY <1>0, <2>3, <3>1, <3>3
  <2>4. ASSUME NEW m \in 1..Len(src)
        PROVE  (m < k <=> pos[m] <= n + 1) /\ pos[m] # n + 1
    <3>.  CASE m < k
      <4>1. pos[m] <= n BY Zenon
      <4> QED BY <1>0, <4>1
    <3>2. CASE m = k BY <1>0, <2>3, <3>2
    <3>.  CASE k < m
      <4>1. k \in 1..Len(src) OBVIOUS
      <4>2. pos[k] < pos[m] /\ pos[k] > n + 1 BY <2>3, <4>1, Zenon
      <4> QED BY <1>0, <4>1, <4>2
    <3> QED BY <3>2
  <2>5. e \notin Range(src) BY <1>0, <1>3, <2>4, Zenon
  <2>6. Range(Append(t, e)) = Range(t) \cup {e} BY <1>5, RangeAppend
  <2>7. Range(Append(t, e)) = {dest[j] : j \in 1..(n + 1)} \ Range(src)
    BY <1>4, <2>5, <2>6, Zenon
  <2>.  Append(t, e) \in Seq(Range(dest)) /\ Len(Append(t, e)) = Len(t) + 1
    BY <1>5
  <2>9. Len(Append(t, e)) + k = (n + 1) + 1 OBVIOUS
  <2>10. IsInjective(Append(t, e))
    <3>1. e \notin Range(t) BY <1>5, Zenon
    <3> HIDE DEF t, e
    <3>2. t \in Seq(Range(dest)) /\ e \in Range(dest) /\ IsInjective(t)
      BY <1>5, Zenon
    <3> QED BY <3>1, <3>2, InjectiveAppend
  <2>12. FirstLeft(dest, src, Append(t, e))
    <3>.  CASE t = <<>>
      <4>1. Append(t, e)[1] = e OBVIOUS
      <4>2. Range(t) = {} BY DEF Range
      <4>3. \A j \in 1..n : dest[j] \in Range(src) BY <4>2, Zenon
      <4>4. (n + 1) - 1 = n OBVIOUS
      <4> QED BY <1>0, <2>5, <4>1, <4>3, <4>4, Zenon DEF FirstLeft
    <3>.  CASE t # <<>>
      <4> HIDE DEF t, e
      <4>1. Append(t, e)[1] = t[1] BY <1>5
      <4> QED BY <4>1, Zenon DEF FirstLeft
    <3> QED BY Zenon
  <2> HIDE DEF k, t, e, a
  <2>11. Removed(dest, src, pos, n + 1, a)
    <3>1. a \in [temp : Seq(Range(dest)), itSrc : 1..(Len(src) + 1)]
      BY <1>a, Zenon DEF a, t
    <3> QED BY <2>2, <2>4, <2>7, <2>9, <2>10, <2>12, <3>1, Zenon
           DEF Removed
  <2> QED BY <2>1, <2>11 DEF e
<1> QED BY <1>6, <1>7, Zenon

(* removeEndpointsInOrder removes what it is given, if that was taken from *)
(* the list in its order.                                                  *)
LEMMA RemovalIsExact ==
  ASSUME NEW E, NEW dest \in Seq(E), NEW src \in Seq(E), IsInjective(dest),
         TakenFrom(src, dest, Len(dest))
  PROVE  /\ removeEndpointsInOrder(dest, src) \in Seq(E)
         /\ IsInjective(removeEndpointsInOrder(dest, src))
         /\ Range(removeEndpointsInOrder(dest, src)) = Range(dest) \ Range(src)
         /\ Len(removeEndpointsInOrder(dest, src)) + Len(src) = Len(dest)
         /\ FirstLeft(dest, src, removeEndpointsInOrder(dest, src))
<1> DEFINE r == removeEndpointsInOrder(dest, src)
<1>0. PICK c : RemovalLoop(dest, src, c) BY RemovalUnfolds, Zenon
<1>1. /\ r = c[Len(dest)].temp
      /\ c[0] = [temp |-> <<>>, itSrc |-> 1]
      /\ \A i \in 1..Len(dest) : c[i] = RemovalTurn(src, dest[i], c[i - 1])
  BY <1>0, Zenon DEF RemovalLoop
<1> HIDE DEF r
<1>2. /\ \A i \in 1..Len(src) : \E j \in 1..Len(dest) : src[i] = dest[j]
      /\ \A i, i2 \in 1..Len(src) : \A j, j2 \in 1..Len(dest) :
           i < i2 /\ src[i] = dest[j] /\ src[i2] = dest[j2] => j < j2
  BY Zenon DEF TakenFrom
<1> DEFINE pos == [m \in 1..Len(src) |->
                     CHOOSE j \in 1..Len(dest) : src[m] = dest[j]]
<1>3. \A m \in 1..Len(src) : pos[m] \in 1..Len(dest) /\ src[m] = dest[pos[m]]
  BY <1>2, Zenon
<1>4. pos \in [1..Len(src) -> 1..Len(dest)] BY <1>3, Zenon
<1> HIDE DEF pos
<1>5. \A m, m2 \in 1..Len(src) : m < m2 => pos[m] < pos[m2]
  BY <1>2, <1>3, Zenon
<1>6. Len(dest) \in Nat /\ Len(src) \in Nat OBVIOUS
<1> DEFINE Q == {n \in Nat : n <= Len(dest)
                               => Removed(dest, src, pos, n, c[n])}
<1>7. 0 \in Q
  <2> DEFINE b == [temp |-> <<>>, itSrc |-> 1]
  <2>1. b \in [temp : Seq(Range(dest)), itSrc : 1..(Len(src) + 1)] BY <1>6
  <2>2. b.temp = <<>> /\ b.itSrc = 1 /\ Len(b.temp) + b.itSrc = 0 + 1 OBVIOUS
  <2>3. \A m \in 1..Len(src) : m < 1 <=> pos[m] <= 0 BY <1>3, <1>6
  <2>4. IsInjective(<<>>) /\ Range(<<>>) = {} BY DEF IsInjective, Range
  <2>5. {dest[j] : j \in 1..0} \ Range(src) = {}
    <3>1. 1..0 = {} OBVIOUS
    <3> QED BY <3>1, Zenon
  <2>8. FirstLeft(dest, src, <<>>) BY Zenon DEF FirstLeft
  <2> HIDE DEF b
  <2>6. Removed(dest, src, pos, 0, b)
    BY <2>1, <2>2, <2>3, <2>4, <2>5, <2>8, Zenon DEF Removed
  <2>7. c[0] = b BY <1>1, Zenon DEF b
  <2> QED BY <2>6, <2>7
<1>8. ASSUME NEW n \in Nat, n \in Q PROVE n + 1 \in Q
  <2> SUFFICES ASSUME n + 1 <= Len(dest)
               PROVE  Removed(dest, src, pos, n + 1, c[n + 1])
    OBVIOUS
  <2>1. n <= Len(dest) /\ n + 1 \in 1..Len(dest) /\ (n + 1) - 1 = n BY <1>6
  <2>2. Removed(dest, src, pos, n, c[n]) BY <1>8, <2>1, Zenon
  <2>3. c[n + 1] = RemovalTurn(src, dest[n + 1], c[n])
    BY <1>1, <2>1, Zenon
  <2>4. Removed(dest, src, pos, n + 1, RemovalTurn(src, dest[n + 1], c[n]))
    BY <1>3, <1>4, <1>5, <2>2, RemovedNext, Zenon
  <2> QED BY <2>3, <2>4, Zenon
<1>9. Removed(dest, src, pos, Len(dest), c[Len(dest)])
  <2>1. Nat \subseteq Q BY <1>7, <1>8, SetInduction, Zenon
  <2> QED BY <1>6, <2>1
<1> DEFINE a == c[Len(dest)]
<1>10. /\ a \in [temp : Seq(Range(dest)), itSrc : 1..(Len(src) + 1)]
       /\ \A m \in 1..Len(src) : m < a.itSrc <=> pos[m] <= Len(dest)
       /\ IsInjective(r) /\ Len(r) + a.itSrc = Len(dest) + 1
       /\ Range(r) = {dest[j] : j \in 1..Len(dest)} \ Range(src)
       /\ FirstLeft(dest, src, r)
  BY <1>1, <1>9, Zenon DEF Removed
<1> HIDE DEF a
<1>11. a.itSrc = Len(src) + 1
  <2>1. a.itSrc \in 1..(Len(src) + 1) BY <1>10
  <2>2. ASSUME a.itSrc \in 1..Len(src) PROVE FALSE
    <3>1. pos[a.itSrc] <= Len(dest) /\ ~(a.itSrc < a.itSrc) BY <1>3, <1>6, <2>2
    <3> QED BY <1>10, <2>2, <3>1, Zenon
  <2> QED BY <1>6, <2>1, <2>2
<1>12. Range(dest) = {dest[j] : j \in 1..Len(dest)} /\ Range(dest) \subseteq E
  BY SeqFacts
<1>13. r \in Seq(E) /\ Len(r) \in Nat
  <2>1. r \in Seq(Range(dest)) BY <1>1, <1>10 DEF a
  <2> QED BY <1>12, <2>1
<1>14. Len(r) + Len(src) = Len(dest) BY <1>6, <1>10, <1>11, <1>13
<1> QED BY <1>10, <1>12, <1>13, <1>14 DEF r

(* selectServers gives the servers that are not excluded, once each.       *)
SelectTurn(e, out) ==
  IF e \in Range(m_redundantEndpoints) THEN out ELSE Append(out, e)

SelectLoop(c) ==
  /\ Selected = c[Len(m_servers)]
  /\ c[0] = <<>>
  /\ \A i \in 1..Len(m_servers) : c[i] = SelectTurn(m_servers[i], c[i - 1])

(* The orders of a set of endpoints.                                       *)
LEMMA OrderFacts ==
  ASSUME NEW S \in SUBSET Endpoints, NEW s \in SetToSeqs(S)
  PROVE  s \in Seq(Endpoints) /\ IsInjective(s) /\ Range(s) = S
<1>1. PICK n \in 0..Len(m_servers) : s \in [1..n -> S] BY Zenon DEF SetToSeqs
<1>2. Len(m_servers) \in Nat BY RedundancyAssumption
<1>3. s \in Seq(Endpoints) BY <1>1, <1>2
<1> QED BY <1>3, Zenon DEF SetToSeqs

(* The list of the endpoint whose ping failed.                             *)
LEMMA PingedList ==
  ASSUME NEW e \in Endpoints
  PROVE  <<e>> \in Seq(Endpoints) /\ <<e>> # <<>> /\ Range(<<e>>) = {e}
<1>1. /\ <<e>> \in Seq(Endpoints) /\ <<e>> # <<>>
      /\ DOMAIN <<e>> = {1} /\ <<e>>[1] = e
  OBVIOUS
<1> QED BY <1>1, Zenon DEF Range

-----------------------------------------------------------------------------
(* Types.                                                                  *)

Busy == {"scan", "offer", "join", "start", "recover", "promote"}
Adding == {"join", "start", "recover"}
Offering == Adding \cup {"offer"}
Destroying == {"stop", "flag", "clean", "wait", "closed"}

(* The holder has an endpoint in turn where it needs one, and what it is   *)
(* to move to the front is there.                                          *)
Turns(m) ==
  /\ m.pc \in Adding \cup {"flag", "wait"} => m.todo # <<>>
  /\ m.pc \in Adding => ~m.isRedundancySatisfied
  /\ m.isPrimaryAtBack => m.isPrimaryConnected /\ m.tempRedundant # <<>>

LEMMA HolderTypes ==
  ASSUME NEW m \in Holders
  PROVE  /\ m.todo \in Seq(Endpoints) /\ m.tempRedundant \in Seq(Endpoints)
         /\ m.tempNonredundant \in Seq(Endpoints) /\ m.secondaryCount \in Nat
         /\ m.init \in BOOLEAN /\ m.isPrimaryConnected \in BOOLEAN
         /\ m.isRedundancySatisfied \in BOOLEAN /\ m.isPrimaryAtBack \in BOOLEAN
         /\ m.err \in BOOLEAN /\ m.fatal \in BOOLEAN
BY DEF Holders

LEMMA IdleHolder ==
  /\ Idle \in Holders /\ Idle.pc = "idle" /\ Idle.todo = <<>> /\ ~Idle.fatal
  /\ Idle.secondaryCount = 0 /\ ~Idle.isPrimaryConnected
  /\ ~Idle.isRedundancySatisfied /\ ~Idle.isPrimaryAtBack
  /\ Idle.tempRedundant = <<>> /\ Idle.tempNonredundant = <<>>
BY DEF Idle, Holders

(* A holder that begins a loop with nothing done.                          *)
Fresh(pc, todo) == [Idle EXCEPT !.pc = pc, !.todo = todo]

LEMMA FreshHolder ==
  ASSUME NEW pc \in {"leave", "stop", "closed"}, NEW todo \in Seq(Endpoints)
  PROVE  /\ Fresh(pc, todo) \in Holders /\ Fresh(pc, todo).pc = pc
         /\ Fresh(pc, todo).todo = todo /\ ~Fresh(pc, todo).fatal
         /\ ~Fresh(pc, todo).isPrimaryConnected
         /\ ~Fresh(pc, todo).isRedundancySatisfied
         /\ ~Fresh(pc, todo).isPrimaryAtBack
         /\ Fresh(pc, todo).tempRedundant = <<>>
         /\ Fresh(pc, todo).tempNonredundant = <<>>
<1> DEFINE m == Fresh(pc, todo)
<1>0. m = [Idle EXCEPT !.pc = pc, !.todo = todo] BY Zenon DEF Fresh
<1> HIDE DEF m
<1>1. m = [pc |-> pc, init |-> FALSE, todo |-> todo, secondaryCount |-> 0,
           isPrimaryConnected |-> FALSE, isRedundancySatisfied |-> FALSE,
           isPrimaryAtBack |-> FALSE, tempRedundant |-> <<>>,
           tempNonredundant |-> <<>>, err |-> TRUE, fatal |-> FALSE]
  BY <1>0, Zenon DEF Idle
<1>2. m \in Holders BY <1>1 DEF Holders
<1>3. /\ m.pc = pc /\ m.todo = todo /\ ~m.fatal /\ ~m.isPrimaryConnected
      /\ ~m.isRedundancySatisfied /\ ~m.isPrimaryAtBack
      /\ m.tempRedundant = <<>> /\ m.tempNonredundant = <<>>
  BY <1>1
<1> QED BY <1>2, <1>3 DEF m

LEMMA ClosedHolder ==
  [Idle EXCEPT !.pc = "closed"] = Fresh("closed", <<>>)
<1> DEFINE m == [Idle EXCEPT !.pc = "closed"]
           f == Fresh("closed", <<>>)
<1>1. f = [Idle EXCEPT !.pc = "closed", !.todo = <<>>] BY Zenon DEF Fresh
<1>0. m = [Idle EXCEPT !.pc = "closed"] OBVIOUS
<1> HIDE DEF m, f
<1>2. m = [pc |-> "closed", init |-> FALSE, todo |-> <<>>, secondaryCount |-> 0,
           isPrimaryConnected |-> FALSE, isRedundancySatisfied |-> FALSE,
           isPrimaryAtBack |-> FALSE, tempRedundant |-> <<>>,
           tempNonredundant |-> <<>>, err |-> TRUE, fatal |-> FALSE]
  BY <1>0, Zenon DEF Idle
<1>3. f = [pc |-> "closed", init |-> FALSE, todo |-> <<>>, secondaryCount |-> 0,
           isPrimaryConnected |-> FALSE, isRedundancySatisfied |-> FALSE,
           isPrimaryAtBack |-> FALSE, tempRedundant |-> <<>>,
           tempNonredundant |-> <<>>, err |-> TRUE, fatal |-> FALSE]
  BY <1>1, Zenon DEF Idle
<1>4. m = f BY <1>2, <1>3, Zenon
<1> QED BY <1>4 DEF m, f

LEMMA BegunHolder ==
  ASSUME NEW init \in BOOLEAN, m_redundantEndpoints \in Seq(Endpoints)
  PROVE  /\ Begun(init) \in Holders /\ Begun(init).pc = "scan"
         /\ Begun(init).todo = m_redundantEndpoints /\ ~Begun(init).fatal
         /\ Begun(init).secondaryCount = 0 /\ ~Begun(init).isPrimaryConnected
         /\ ~Begun(init).isRedundancySatisfied
         /\ ~Begun(init).isPrimaryAtBack
         /\ Begun(init).tempRedundant = <<>>
         /\ Begun(init).tempNonredundant = <<>>
<1> DEFINE m == Begun(init)
<1>0. m = [Idle EXCEPT !.pc = "scan", !.init = init,
                       !.todo = m_redundantEndpoints]
  BY Zenon DEF Begun
<1> HIDE DEF m
<1>1. m = [pc |-> "scan", init |-> init, todo |-> m_redundantEndpoints,
           secondaryCount |-> 0, isPrimaryConnected |-> FALSE,
           isRedundancySatisfied |-> FALSE, isPrimaryAtBack |-> FALSE,
           tempRedundant |-> <<>>, tempNonredundant |-> <<>>,
           err |-> TRUE, fatal |-> FALSE]
  BY <1>0, Zenon DEF Idle
<1>2. m \in Holders BY <1>1 DEF Holders
<1>3. /\ m.pc = "scan" /\ m.todo = m_redundantEndpoints /\ ~m.fatal
      /\ m.secondaryCount = 0 /\ ~m.isPrimaryConnected
      /\ ~m.isRedundancySatisfied /\ ~m.isPrimaryAtBack
      /\ m.tempRedundant = <<>> /\ m.tempNonredundant = <<>>
  BY <1>1
<1> QED BY <1>2, <1>3 DEF m

(* The same holder elsewhere.                                              *)
LEMMA MovedHolder ==
  ASSUME mrl \in Holders, NEW m,
         NEW pc \in {"join", "start", "recover", "flag", "wait"},
         m = [mrl EXCEPT !.pc = pc]
  PROVE  /\ m \in Holders /\ m.pc = pc /\ m.todo = mrl.todo
         /\ m.fatal = mrl.fatal
         /\ m.secondaryCount = mrl.secondaryCount
         /\ m.isPrimaryConnected = mrl.isPrimaryConnected
         /\ m.isRedundancySatisfied = mrl.isRedundancySatisfied
         /\ m.isPrimaryAtBack = mrl.isPrimaryAtBack
         /\ m.tempRedundant = mrl.tempRedundant
         /\ m.tempNonredundant = mrl.tempNonredundant
         /\ m.init = mrl.init /\ m.err = mrl.err
BY DEF Holders

SameCounts(m, m0) ==
  /\ m.secondaryCount = m0.secondaryCount
  /\ m.isPrimaryConnected = m0.isPrimaryConnected
  /\ m.isRedundancySatisfied = m0.isRedundancySatisfied
  /\ m.isPrimaryAtBack = m0.isPrimaryAtBack

LEMMA FollowingHolder ==
  ASSUME mrl \in Holders, mrl.todo # <<>>
  PROVE  /\ Following \in Holders /\ Following.pc = mrl.pc
         /\ Following.todo = Tail(mrl.todo) /\ SameCounts(Following, mrl)
         /\ Following.tempRedundant = mrl.tempRedundant
         /\ Following.tempNonredundant = mrl.tempNonredundant
         /\ Following.init = mrl.init /\ Following.err = mrl.err
         /\ Following.fatal = mrl.fatal
         /\ ep \in Endpoints
<1>0. mrl.todo \in Seq(Endpoints) BY HolderTypes
<1>1. Tail(mrl.todo) \in Seq(Endpoints) /\ ep \in Endpoints
  BY <1>0, RangeTail, Zenon DEF ep
<1> DEFINE t == Tail(mrl.todo)
           m == Following
<1>2. m = [mrl EXCEPT !.todo = t] BY DEF Following
<1>3. t \in Seq(Endpoints) BY <1>1
<1> HIDE DEF t, m
<1>4. m \in Holders BY <1>2, <1>3 DEF Holders
<1>5. /\ m.pc = mrl.pc /\ m.todo = t /\ SameCounts(m, mrl)
      /\ m.tempRedundant = mrl.tempRedundant
      /\ m.tempNonredundant = mrl.tempNonredundant
      /\ m.init = mrl.init /\ m.err = mrl.err /\ m.fatal = mrl.fatal
  BY <1>2 DEF Holders, SameCounts
<1> QED BY <1>1, <1>4, <1>5 DEF m, t

(* The endpoint in turn is not redundant any more.                         *)
LEMMA GoneHolder ==
  ASSUME mrl \in Holders, mrl.todo # <<>>
  PROVE  /\ Gone \in Holders /\ Gone.pc = mrl.pc
         /\ Gone.todo = Tail(mrl.todo) /\ SameCounts(Gone, mrl)
         /\ Gone.tempRedundant = mrl.tempRedundant
         /\ Gone.tempNonredundant = Append(mrl.tempNonredundant, ep)
         /\ Gone.fatal = mrl.fatal
<1> DEFINE f == Following
           g == Gone
           t == Append(f.tempNonredundant, ep)
<1>1. g = [f EXCEPT !.tempNonredundant = t] BY DEF Gone
<1>.  /\ f \in Holders /\ f.pc = mrl.pc
      /\ f.todo = Tail(mrl.todo) /\ SameCounts(f, mrl)
      /\ f.tempRedundant = mrl.tempRedundant
      /\ f.tempNonredundant = mrl.tempNonredundant
      /\ f.fatal = mrl.fatal /\ ep \in Endpoints
  BY FollowingHolder, Zenon
<1> HIDE DEF f, g
<1>3. t \in Seq(Endpoints) BY HolderTypes
<1> HIDE DEF t
<1>4. g \in Holders BY <1>1, <1>3, Zenon DEF Holders
<1>5. /\ g.pc = f.pc /\ g.todo = f.todo /\ SameCounts(g, f)
      /\ g.tempRedundant = f.tempRedundant /\ g.fatal = f.fatal
      /\ g.tempNonredundant = t
  BY <1>1 DEF Holders, SameCounts
<1>6. SameCounts(g, mrl) BY <1>5, Zenon DEF SameCounts
<1>7. t = Append(mrl.tempNonredundant, ep) BY Zenon DEF t
<1> QED BY <1>4, <1>5, <1>6, <1>7, Zenon DEF g

(* There is another secondary.                                             *)
LEMMA SecondaryHolder ==
  ASSUME NEW m \in Holders
  PROVE  /\ Secondary(m) \in Holders /\ Secondary(m).pc = m.pc
         /\ Secondary(m).todo = m.todo
         /\ Secondary(m).secondaryCount = m.secondaryCount + 1
         /\ Secondary(m).isPrimaryConnected = m.isPrimaryConnected
         /\ Secondary(m).isRedundancySatisfied <=>
              m.isPrimaryConnected /\ m.secondaryCount + 1 = m_redundancyLevel
         /\ Secondary(m).isPrimaryAtBack = m.isPrimaryAtBack
         /\ Secondary(m).tempRedundant = m.tempRedundant
         /\ Secondary(m).tempNonredundant = m.tempNonredundant
         /\ Secondary(m).fatal = m.fatal
<1> DEFINE s == Secondary(m)
           c == m.secondaryCount + 1
           b == m.isPrimaryConnected /\ m.secondaryCount + 1 = m_redundancyLevel
<1>1. s = [m EXCEPT !.secondaryCount = c, !.isRedundancySatisfied = b]
  BY DEF Secondary
<1>2. c \in Nat /\ b \in BOOLEAN BY HolderTypes
<1> HIDE DEF s, c, b
<1>3. s \in Holders BY <1>1, <1>2, Zenon DEF Holders
<1>4. /\ s.pc = m.pc /\ s.todo = m.todo /\ s.secondaryCount = c
      /\ s.isPrimaryConnected = m.isPrimaryConnected
      /\ s.isRedundancySatisfied = b /\ s.isPrimaryAtBack = m.isPrimaryAtBack
      /\ s.tempRedundant = m.tempRedundant
      /\ s.tempNonredundant = m.tempNonredundant /\ s.fatal = m.fatal
  BY <1>1 DEF Holders
<1> QED BY <1>3, <1>4, Zenon DEF s, c, b

LEMMA PromotedHolder ==
  ASSUME NEW m \in Holders, NEW p, p = [m EXCEPT !.isPrimaryConnected = TRUE]
  PROVE  /\ p \in Holders /\ p.pc = m.pc /\ p.todo = m.todo
         /\ p.secondaryCount = m.secondaryCount /\ p.isPrimaryConnected
         /\ p.isRedundancySatisfied = m.isRedundancySatisfied
         /\ p.isPrimaryAtBack = m.isPrimaryAtBack
         /\ p.tempRedundant = m.tempRedundant
         /\ p.tempNonredundant = m.tempNonredundant /\ p.fatal = m.fatal
BY Zenon DEF Holders

LEMMA FailedHolder ==
  ASSUME mrl \in Holders, mrl.todo # <<>>, NEW fatal \in BOOLEAN
  PROVE  /\ Failed(fatal) \in Holders /\ Failed(fatal).pc = "offer"
         /\ Failed(fatal).todo = Tail(mrl.todo)
         /\ SameCounts(Failed(fatal), mrl)
         /\ Failed(fatal).tempRedundant = mrl.tempRedundant
         /\ Failed(fatal).tempNonredundant = mrl.tempNonredundant
         /\ Failed(fatal).fatal <=> mrl.fatal \/ fatal
<1> DEFINE f == Following
           g == Failed(fatal)
           b == f.fatal \/ fatal
<1>1. g = [f EXCEPT !.pc = "offer", !.err = TRUE, !.fatal = b] BY DEF Failed
<1>.  /\ f \in Holders /\ f.todo = Tail(mrl.todo) /\ SameCounts(f, mrl)
      /\ f.tempRedundant = mrl.tempRedundant
      /\ f.tempNonredundant = mrl.tempNonredundant /\ f.fatal = mrl.fatal
  BY FollowingHolder, Zenon
<1>3. b \in BOOLEAN /\ (b <=> mrl.fatal \/ fatal) OBVIOUS
<1> HIDE DEF f, g, b
<1>4. g \in Holders BY <1>1, <1>3, Zenon DEF Holders
<1>5. /\ g.pc = "offer" /\ g.todo = f.todo /\ SameCounts(g, f)
      /\ g.tempRedundant = f.tempRedundant /\ g.fatal = b
      /\ g.tempNonredundant = f.tempNonredundant
  BY <1>1 DEF Holders, SameCounts
<1>6. SameCounts(g, mrl) BY <1>5, Zenon DEF SameCounts
<1> QED BY <1>3, <1>4, <1>5, <1>6, Zenon DEF g

(* Recover adds the endpoint in turn.                                      *)
Added == [Following EXCEPT !.pc = "offer", !.tempRedundant = Append(@, ep),
                           !.err = FALSE]

LEMMA AddedHolder ==
  ASSUME mrl \in Holders, mrl.todo # <<>>
  PROVE  /\ Added \in Holders /\ Added.pc = "offer"
         /\ Added.todo = Tail(mrl.todo) /\ SameCounts(Added, mrl)
         /\ Added.tempRedundant = Append(mrl.tempRedundant, ep)
         /\ Added.tempNonredundant = mrl.tempNonredundant
         /\ Added.fatal = mrl.fatal
<1> DEFINE f == Following
           g == Added
           t == Append(f.tempRedundant, ep)
<1>1. g = [f EXCEPT !.pc = "offer", !.tempRedundant = t, !.err = FALSE]
  BY DEF Added
<1>.  /\ f \in Holders /\ f.todo = Tail(mrl.todo) /\ SameCounts(f, mrl)
      /\ f.tempRedundant = mrl.tempRedundant
      /\ f.tempNonredundant = mrl.tempNonredundant
      /\ f.fatal = mrl.fatal /\ ep \in Endpoints
  BY FollowingHolder, Zenon
<1> HIDE DEF f, g
<1>3. t \in Seq(Endpoints) BY HolderTypes
<1> HIDE DEF t
<1>4. g \in Holders BY <1>1, <1>3, Zenon DEF Holders
<1>5. /\ g.pc = "offer" /\ g.todo = f.todo /\ SameCounts(g, f)
      /\ g.tempRedundant = t /\ g.fatal = f.fatal
      /\ g.tempNonredundant = f.tempNonredundant
  BY <1>1 DEF Holders, SameCounts
<1>6. SameCounts(g, mrl) BY <1>5, Zenon DEF SameCounts
<1>7. t = Append(mrl.tempRedundant, ep) BY Zenon DEF t
<1> QED BY <1>4, <1>5, <1>6, <1>7, Zenon DEF g

LEMMA StoppedHolder ==
  ASSUME mrl \in Holders, mrl.todo # <<>>, NEW pc \in {"stop", "clean"}, NEW p,
         p = [Following EXCEPT !.pc = pc]
  PROVE  /\ p \in Holders /\ p.pc = pc /\ p.todo = Tail(mrl.todo)
         /\ SameCounts(p, mrl) /\ p.tempRedundant = mrl.tempRedundant
         /\ p.tempNonredundant = mrl.tempNonredundant /\ p.fatal = mrl.fatal
<1> DEFINE f == Following
<1>1. p = [f EXCEPT !.pc = pc] OBVIOUS
<1>.  /\ f \in Holders /\ f.todo = Tail(mrl.todo) /\ SameCounts(f, mrl)
      /\ f.tempRedundant = mrl.tempRedundant
      /\ f.tempNonredundant = mrl.tempNonredundant /\ f.fatal = mrl.fatal
  BY FollowingHolder, Zenon
<1> HIDE DEF f
<1>3. p \in Holders BY <1>1, Zenon DEF Holders
<1>4. /\ p.pc = pc /\ p.todo = f.todo /\ SameCounts(p, f)
      /\ p.tempRedundant = f.tempRedundant /\ p.fatal = f.fatal
      /\ p.tempNonredundant = f.tempNonredundant
  BY <1>1, Zenon DEF Holders, SameCounts
<1>5. SameCounts(p, mrl) BY <1>4, Zenon DEF SameCounts
<1> QED BY <1>3, <1>4, <1>5, Zenon

-----------------------------------------------------------------------------
(* The lists, and what maintainRedundancyLevel does to them: r and n are   *)
(* m_redundantEndpoints and m_nonredundantEndpoints.                       *)

Partition(r, n) ==
  /\ IsInjective(r) /\ IsInjective(n)
  /\ Range(r) \cap Range(n) = {} /\ Range(r) \cup Range(n) = Endpoints

Within(k) == m_redundancyLevel >= 0 => k <= m_redundancyLevel + 1

(* How many are redundant when maintainRedundancyLevel is done.            *)
Total(m, r) ==
  (Len(r) - Len(m.tempNonredundant)) + Len(m.tempRedundant)

Primaries(m) == IF m.isPrimaryConnected THEN 1 ELSE 0

Counts(m, r) ==
  m_redundancyLevel >= 0 =>
    /\ m.isPrimaryConnected /\ ~m.isRedundancySatisfied
         => m.secondaryCount < m_redundancyLevel
    /\ ~m.isPrimaryConnected => m.secondaryCount <= m_redundancyLevel
    /\ Total(m, r) <= m_redundancyLevel + 1

Scanning(m, r) ==
  /\ RestOf(m.todo, r)
  /\ TakenFrom(m.tempNonredundant, r, Len(r) - Len(m.todo))
  /\ m.tempRedundant = <<>> /\ ~m.isPrimaryAtBack
  /\ (Len(r) - Len(m.todo)) - Len(m.tempNonredundant)
       = m.secondaryCount + Primaries(m)
  /\ ~m.isPrimaryConnected => m.secondaryCount = 0
  /\ m.isRedundancySatisfied => m.todo = <<>>
  /\ Counts(m, r)

Offers(m, r, n) ==
  /\ RestOf(m.todo, n)
  /\ TakenFrom(m.tempNonredundant, r, Len(r))
  /\ TakenFrom(m.tempRedundant, n, Len(n) - Len(m.todo))
  /\ Total(m, r) = m.secondaryCount + Primaries(m)
  /\ ~m.isPrimaryConnected => Len(m.tempNonredundant) = Len(r)
  /\ Counts(m, r)

Promoting(m, r, n) ==
  /\ TakenFrom(m.tempNonredundant, r, Len(r))
  /\ TakenFrom(m.tempRedundant, n, Len(n))
  /\ ~m.isPrimaryConnected => Len(m.tempNonredundant) = Len(r)
  /\ m.isPrimaryConnected => Total(m, r) > 0
  /\ Within(Total(m, r))

Rests(m) ==
  /\ m.tempRedundant = <<>> /\ m.tempNonredundant = <<>>
  /\ ~m.isPrimaryConnected

HolderInv(m, r, n) ==
  /\ r \in Seq(Endpoints) /\ n \in Seq(Endpoints) /\ m \in Holders /\ Turns(m)
  /\ m.pc # "closed" => Partition(r, n) /\ Within(Len(r))
  /\ m.pc = "scan" => Scanning(m, r)
  /\ m.pc \in Offering => Offers(m, r, n)
  /\ m.pc = "promote" => Promoting(m, r, n)
  /\ m.pc \notin Busy => Rests(m)
  /\ m.isRedundancySatisfied => m.isPrimaryConnected
  /\ m.isPrimaryAtBack => Len(m.tempNonredundant) = Len(r)

ListInv == HolderInv(mrl, m_redundantEndpoints, m_nonredundantEndpoints)

LEMMA LevelType ==
  m_redundancyLevel \in Int /\ m_redundancyLevel >= -1
BY RedundancyAssumption

LEMMA HolderFacts ==
  ASSUME NEW m \in Holders, NEW r \in Seq(Endpoints), NEW n \in Seq(Endpoints)
  PROVE  /\ Len(m.todo) \in Nat /\ Len(m.tempRedundant) \in Nat
         /\ Len(m.tempNonredundant) \in Nat /\ m.secondaryCount \in Nat
         /\ Len(r) \in Nat /\ Len(n) \in Nat /\ Primaries(m) \in {0, 1}
<1>1. /\ m.todo \in Seq(Endpoints) /\ m.tempRedundant \in Seq(Endpoints)
      /\ m.tempNonredundant \in Seq(Endpoints) /\ m.secondaryCount \in Nat
  BY HolderTypes
<1> QED BY <1>1 DEF Primaries

(* A run of maintainRedundancyLevel begins.                                *)
LEMMA BegunInv ==
  ASSUME NEW init \in BOOLEAN, m_redundantEndpoints \in Seq(Endpoints),
         m_nonredundantEndpoints \in Seq(Endpoints),
         Partition(m_redundantEndpoints, m_nonredundantEndpoints),
         Within(Len(m_redundantEndpoints))
  PROVE  HolderInv(Begun(init), m_redundantEndpoints, m_nonredundantEndpoints)
<1> DEFINE m == Begun(init)
           r == m_redundantEndpoints
<1>1. /\ m \in Holders /\ m.pc = "scan" /\ m.todo = r
      /\ m.secondaryCount = 0 /\ ~m.isPrimaryConnected
      /\ ~m.isRedundancySatisfied /\ ~m.isPrimaryAtBack
      /\ m.tempRedundant = <<>> /\ m.tempNonredundant = <<>>
  BY BegunHolder
<1>2. r \in Seq(Endpoints) /\ Within(Len(r)) OBVIOUS
<1> HIDE DEF m, r
<1>3. Turns(m) BY <1>1 DEF Turns, Adding
<1>4. RestOf(m.todo, r) BY <1>1, <1>2, RestAll
<1>5. TakenFrom(m.tempNonredundant, r, Len(r) - Len(m.todo))
  BY <1>1, TakenNone
<1>6. Len(m.tempNonredundant) = 0 /\ Len(m.tempRedundant) = 0 /\ Len(r) \in Nat
  BY <1>1, <1>2
<1>7. Primaries(m) = 0 BY <1>1, Zenon DEF Primaries
<1>8. Counts(m, r) BY <1>1, <1>2, <1>6, LevelType DEF Counts, Total, Within
<1>9. (Len(r) - Len(m.todo)) - Len(m.tempNonredundant)
        = m.secondaryCount + Primaries(m)
  <2>1. Len(m.todo) = Len(r) /\ m.secondaryCount = 0 BY <1>1, Zenon
  <2> QED BY <1>6, <1>7, <2>1
<1>10. Scanning(m, r)
  BY <1>1, <1>4, <1>5, <1>8, <1>9, Zenon DEF Scanning
<1>11. m.pc \notin Offering /\ m.pc # "promote" /\ m.pc \in Busy
  BY <1>1 DEF Offering, Adding, Busy
<1> QED BY <1>1, <1>2, <1>3, <1>10, <1>11 DEF HolderInv, m, r

LEMMA RestsInv ==
  ASSUME NEW m \in Holders, NEW r \in Seq(Endpoints), NEW n \in Seq(Endpoints),
         Turns(m), m.pc \notin Busy, Rests(m), ~m.isRedundancySatisfied,
         ~m.isPrimaryAtBack,
         m.pc # "closed" => Partition(r, n) /\ Within(Len(r))
  PROVE  HolderInv(m, r, n)
<1>1. m.pc # "scan" /\ m.pc \notin Offering /\ m.pc # "promote"
  BY DEF Busy, Offering, Adding
<1> QED BY <1>1, Zenon DEF HolderInv

(* A turn of the loop over the redundant endpoints: the one in turn is     *)
(* gone, the primary, or a secondary.                                      *)
LEMMA ScanTurn ==
  ASSUME ListInv, Goes("scan"), NEW m \in Holders,
         m.pc = "scan", m.todo = Tail(mrl.todo), m.tempRedundant = <<>>,
         ~m.isPrimaryAtBack,
         \/ /\ m.tempNonredundant = Append(mrl.tempNonredundant, ep)
            /\ SameCounts(m, mrl)
         \/ /\ m.tempNonredundant = mrl.tempNonredundant
            /\ m.isPrimaryConnected
            /\ m.secondaryCount = mrl.secondaryCount + Primaries(mrl)
            /\ m.isRedundancySatisfied <=> m.secondaryCount = m_redundancyLevel
  PROVE  HolderInv(m, m_redundantEndpoints, m_nonredundantEndpoints)
<1> DEFINE r == m_redundantEndpoints
           n == m_nonredundantEndpoints
           k == Len(r) - Len(mrl.todo)
           tn == mrl.tempNonredundant
<1>1. mrl.pc = "scan" /\ mrl.todo # <<>> /\ ~mrl.isRedundancySatisfied
  BY Zenon DEF Goes
<1>2. /\ r \in Seq(Endpoints) /\ n \in Seq(Endpoints) /\ mrl \in Holders
      /\ Partition(r, n) /\ Within(Len(r)) /\ Scanning(mrl, r)
  BY <1>1 DEF ListInv, HolderInv
<1>3. /\ RestOf(mrl.todo, r) /\ TakenFrom(tn, r, k)
      /\ k - Len(tn) = mrl.secondaryCount + Primaries(mrl)
      /\ ~mrl.isPrimaryConnected => mrl.secondaryCount = 0
      /\ Counts(mrl, r) /\ mrl.tempRedundant = <<>>
  BY <1>2, Zenon DEF Scanning
<1>4. /\ mrl.todo \in Seq(Endpoints) /\ tn \in Seq(Endpoints)
      /\ Len(mrl.todo) \in Nat /\ Len(r) \in Nat
  BY <1>2, HolderTypes
<1>5. /\ RestOf(m.todo, r) /\ k + 1 \in 1..Len(r)
      /\ Len(r) - Len(m.todo) = k + 1 /\ ep = r[k + 1]
  <2>1. /\ RestOf(Tail(mrl.todo), r) /\ k + 1 \in 1..Len(r)
        /\ Len(r) - Len(Tail(mrl.todo)) = k + 1 /\ Head(mrl.todo) = r[k + 1]
    BY <1>1, <1>2, <1>3, <1>4, RestTail, Zenon
  <2> QED BY <2>1, Zenon DEF ep
<1>6. k \in Nat /\ IsInjective(r) BY <1>2, <1>4, <1>5 DEF Partition
<1>a. /\ Len(m.tempNonredundant) \in Nat /\ m.secondaryCount \in Nat
      /\ Len(m.todo) \in Nat /\ Primaries(m) \in {0, 1}
  BY <1>2, HolderFacts, Zenon
<1>b. /\ Len(tn) \in Nat /\ mrl.secondaryCount \in Nat
      /\ Primaries(mrl) \in {0, 1}
  BY <1>2, HolderFacts, Zenon
<1>c. Len(<<>>) = 0 OBVIOUS
<1>7. /\ Len(tn) \in Nat /\ Len(m.tempNonredundant) \in Nat
      /\ mrl.secondaryCount \in Nat /\ m.secondaryCount \in Nat
      /\ Len(m.todo) \in Nat /\ Primaries(mrl) \in {0, 1}
      /\ Len(m.tempRedundant) = 0 /\ Len(mrl.tempRedundant) = 0
  BY <1>3, <1>a, <1>b, <1>c, Zenon
<1>s. Scanning(m, r)
  <2>1. CASE /\ m.tempNonredundant = Append(tn, ep)
             /\ SameCounts(m, mrl)
    <3>1. TakenFrom(m.tempNonredundant, r, k + 1)
      <4>1. k + 1 <= Len(r) BY <1>4, <1>5
      <4>2. TakenFrom(Append(tn, r[k + 1]), r, k + 1)
        BY <1>2, <1>3, <1>4, <1>6, <4>1, TakenNext, Zenon
      <4> QED BY <1>5, <2>1, <4>2, Zenon
    <3>2. Len(m.tempNonredundant) = Len(tn) + 1
      <4>1. ep \in Endpoints BY <1>1, <1>2, FollowingHolder, Zenon
      <4> QED BY <1>4, <2>1, <4>1
    <3>.  /\ m.secondaryCount = mrl.secondaryCount
          /\ m.isPrimaryConnected = mrl.isPrimaryConnected
          /\ m.isRedundancySatisfied = mrl.isRedundancySatisfied
          /\ Primaries(m) = Primaries(mrl)
      BY <2>1, Zenon DEF SameCounts, Primaries
    <3>4. (k + 1) - Len(m.tempNonredundant) = m.secondaryCount + Primaries(m)
      <4>2. k \in Int /\ Len(tn) \in Int /\ mrl.secondaryCount \in Int
            /\ Primaries(mrl) \in Int
        BY <1>6, <1>7
      <4>3. k - Len(tn) = mrl.secondaryCount + Primaries(mrl) BY <1>3, Zenon
      <4> HIDE DEF k, tn
      <4>4. (k + 1) - (Len(tn) + 1) = mrl.secondaryCount + Primaries(mrl)
        BY <4>2, <4>3
      <4> QED BY <3>2, <4>4
    <3>5. Counts(m, r)
      <4>1. Total(m, r) = Total(mrl, r) - 1 /\ Total(mrl, r) \in Int
        BY <1>4, <1>7, <3>2 DEF Total
      <4> QED BY <1>3, <4>1, LevelType DEF Counts
    <3> QED BY <1>1, <1>3, <1>5, <3>1, <3>4, <3>5, Zenon DEF Scanning
  <2>2. CASE /\ m.tempNonredundant = tn /\ m.isPrimaryConnected
             /\ m.secondaryCount = mrl.secondaryCount + Primaries(mrl)
             /\ m.isRedundancySatisfied <=> m.secondaryCount = m_redundancyLevel
    <3>1. TakenFrom(m.tempNonredundant, r, k + 1)
      BY <1>3, <1>6, <2>2, TakenLater, Zenon
    <3>2. Primaries(m) = 1 BY <2>2, Zenon DEF Primaries
    <3>3. (k + 1) - Len(m.tempNonredundant) = m.secondaryCount + Primaries(m)
      <4>2. k \in Int /\ Len(tn) \in Int /\ mrl.secondaryCount \in Int
            /\ Primaries(mrl) \in Int
        BY <1>6, <1>7
      <4>3. k - Len(tn) = mrl.secondaryCount + Primaries(mrl) BY <1>3, Zenon
      <4> HIDE DEF k, tn
      <4>4. (k + 1) - Len(tn) = (mrl.secondaryCount + Primaries(mrl)) + 1
        BY <4>2, <4>3
      <4> QED BY <2>2, <3>2, <4>4
    <3>4. Total(m, r) = Total(mrl, r) /\ Total(m, r) = Len(r) - Len(tn)
      BY <1>4, <1>7, <2>2 DEF Total
    <3>5. m_redundancyLevel >= 0 => Total(m, r) <= m_redundancyLevel + 1
      BY <1>3, <3>4, Zenon DEF Counts
    <3>b. m_redundancyLevel >= 0 => /\ m.secondaryCount <= m_redundancyLevel
                                    /\ m.secondaryCount = m_redundancyLevel
                                         => Len(m.todo) = 0
      <4>1. \A i, d, x, t, l \in Int :
              /\ l - d = i + 1 /\ d >= 0
              /\ (i + 1) - t = x + 1 /\ l - t <= m_redundancyLevel + 1
              => /\ x <= m_redundancyLevel
                 /\ x = m_redundancyLevel => d = 0
        BY LevelType
      <4>2. /\ k \in Int /\ Len(m.todo) \in Int /\ m.secondaryCount \in Int
            /\ Len(tn) \in Int /\ Len(r) \in Int /\ Len(m.todo) >= 0
        BY <1>4, <1>6, <1>7
      <4>3. (k + 1) - Len(tn) = m.secondaryCount + 1 BY <2>2, <3>2, <3>3, Zenon
      <4>4. m_redundancyLevel >= 0 => Len(r) - Len(tn) <= m_redundancyLevel + 1
        BY <3>4, <3>5, Zenon
      <4>5. Len(r) - Len(m.todo) = k + 1 BY <1>5, Zenon
      <4> HIDE DEF k, tn, r
      <4> QED BY <4>1, <4>2, <4>3, <4>4, <4>5, Zenon
    <3>6. m.isRedundancySatisfied => Len(m.todo) = 0
      <4>1. m.isRedundancySatisfied => m_redundancyLevel >= 0
        BY <1>7, <2>2, LevelType
      <4> QED BY <2>2, <3>b, <4>1, Zenon
    <3>7. m.isRedundancySatisfied => m.todo = <<>>
      BY <1>4, <3>6, HolderTypes, SeqFacts, Zenon
    <3>8. Counts(m, r)
      <4>1. m_redundancyLevel >= 0 => m.secondaryCount <= m_redundancyLevel
        BY <3>b, Zenon
      <4>2. m_redundancyLevel >= 0 /\ ~m.isRedundancySatisfied
              => m.secondaryCount < m_redundancyLevel
        BY <1>7, <2>2, <4>1, LevelType
      <4> QED BY <2>2, <3>5, <4>2, Zenon DEF Counts
    <3> QED BY <1>5, <2>2, <3>1, <3>3, <3>7, <3>8, Zenon DEF Scanning
  <2> QED BY <2>1, <2>2
<1>8. m.pc \notin Offering /\ m.pc # "promote" /\ m.pc \in Busy
  BY DEF Offering, Adding, Busy
<1>9. Turns(m) BY DEF Turns, Adding
<1>10. m.isRedundancySatisfied => m.isPrimaryConnected
  BY <1>1, Zenon DEF SameCounts
<1> QED BY <1>2, <1>s, <1>8, <1>9, <1>10, Zenon DEF HolderInv

(* A turn of the loop over the other endpoints: the one in turn is passed  *)
(* by, or it becomes the primary or a secondary.                           *)
LEMMA OfferTurn ==
  ASSUME ListInv, mrl.pc \in Offering, mrl.todo # <<>>,
         ~mrl.isRedundancySatisfied, NEW m \in Holders, m.pc = "offer",
         m.todo = Tail(mrl.todo), m.tempNonredundant = mrl.tempNonredundant,
         \/ m.tempRedundant = mrl.tempRedundant /\ SameCounts(m, mrl)
         \/ /\ m.tempRedundant = Append(mrl.tempRedundant, ep) /\ AsPrimary
            /\ m.secondaryCount = mrl.secondaryCount /\ m.isPrimaryConnected
            /\ m.isRedundancySatisfied /\ m.isPrimaryAtBack
         \/ /\ m.tempRedundant = Append(mrl.tempRedundant, ep) /\ ~AsPrimary
            /\ m.secondaryCount = mrl.secondaryCount + 1
            /\ m.isPrimaryConnected = mrl.isPrimaryConnected
            /\ m.isRedundancySatisfied <=>
                 mrl.isPrimaryConnected
                   /\ mrl.secondaryCount + 1 = m_redundancyLevel
            /\ m.isPrimaryAtBack = mrl.isPrimaryAtBack
  PROVE  HolderInv(m, m_redundantEndpoints, m_nonredundantEndpoints)
<1> DEFINE r == m_redundantEndpoints
           n == m_nonredundantEndpoints
           k == Len(n) - Len(mrl.todo)
           tr == mrl.tempRedundant
           c == mrl.secondaryCount
           p == Primaries(mrl)
           t == Total(mrl, r)
<1>1. mrl.pc # "closed" /\ mrl.pc # "scan" /\ mrl.pc # "promote" /\ mrl.pc \in Busy
  BY DEF Offering, Adding, Busy
<1>2. /\ r \in Seq(Endpoints) /\ n \in Seq(Endpoints) /\ mrl \in Holders
      /\ Turns(mrl) /\ Partition(r, n) /\ Within(Len(r)) /\ Offers(mrl, r, n)
      /\ mrl.isPrimaryAtBack => Len(mrl.tempNonredundant) = Len(r)
  BY <1>1, Zenon DEF ListInv, HolderInv
<1>3. /\ RestOf(mrl.todo, n) /\ TakenFrom(mrl.tempNonredundant, r, Len(r))
      /\ TakenFrom(tr, n, k) /\ t = c + p
      /\ ~mrl.isPrimaryConnected => Len(mrl.tempNonredundant) = Len(r)
      /\ Counts(mrl, r)
  BY <1>2, Zenon DEF Offers
<1>.  /\ mrl.todo \in Seq(Endpoints) /\ tr \in Seq(Endpoints)
      /\ Len(mrl.todo) \in Nat /\ Len(n) \in Nat
  BY <1>2, HolderTypes
<1>5. /\ RestOf(m.todo, n) /\ k + 1 \in 1..Len(n)
      /\ Len(n) - Len(m.todo) = k + 1 /\ ep = n[k + 1]
  <2>1. /\ RestOf(Tail(mrl.todo), n) /\ k + 1 \in 1..Len(n)
        /\ Len(n) - Len(Tail(mrl.todo)) = k + 1 /\ Head(mrl.todo) = n[k + 1]
    BY <1>2, <1>3, RestTail, Zenon
  <2> QED BY <2>1, Zenon DEF ep
<1>6. k \in Nat /\ k + 1 <= Len(n) /\ IsInjective(n)
  BY <1>2, <1>5 DEF Partition
<1>7. /\ c \in Nat /\ p \in Nat /\ p <= 1 /\ Len(tr) \in Nat /\ Len(r) \in Nat
      /\ Len(mrl.tempNonredundant) \in Nat /\ t \in Nat
      /\ p = 1 <=> mrl.isPrimaryConnected
  <2>1. p = 1 <=> mrl.isPrimaryConnected BY DEF Primaries
  <2>.  /\ c \in Nat /\ p \in {0, 1} /\ Len(tr) \in Nat /\ Len(r) \in Nat
        /\ Len(mrl.tempNonredundant) \in Nat
    BY <1>2, HolderFacts, Zenon
  <2>3. p \in Nat /\ p <= 1 OBVIOUS
  <2> HIDE DEF c, p, t
  <2>4. t \in Nat BY <1>3, <2>3
  <2> QED BY <2>1, <2>3, <2>4, Zenon
<1>8. /\ m_redundancyLevel >= 0 /\ mrl.isPrimaryConnected => c < m_redundancyLevel
      /\ m_redundancyLevel >= 0 /\ ~mrl.isPrimaryConnected => c <= m_redundancyLevel
      /\ m_redundancyLevel >= 0 => t <= m_redundancyLevel + 1
  BY <1>3, Zenon DEF Counts
<1>9. m.pc # "scan" /\ m.pc # "promote" /\ m.pc # "closed"
      /\ m.pc \in Busy /\ m.pc \notin Adding
  BY DEF Busy, Adding
<1>a. ASSUME m.tempRedundant = Append(tr, ep)
      PROVE  /\ TakenFrom(m.tempRedundant, n, k + 1) /\ Total(m, r) = t + 1
             /\ m.tempRedundant # <<>>
  <2>1. TakenFrom(Append(tr, n[k + 1]), n, k + 1)
    BY <1>2, <1>3, <1>6, TakenNext, Zenon
  <2>2. ep \in Endpoints BY <1>2, FollowingHolder, Zenon
  <2>3. Len(m.tempRedundant) = Len(tr) + 1 /\ m.tempRedundant # <<>>
    <3> HIDE DEF tr
    <3> QED BY <1>a, <2>2
  <2>4. Total(m, r) = t + 1
    BY <1>7, <2>3 DEF Total
  <2> QED BY <1>5, <1>a, <2>1, <2>3, <2>4, Zenon
<1>.   CASE m.tempRedundant = mrl.tempRedundant /\ SameCounts(m, mrl)
  <2>1. TakenFrom(m.tempRedundant, n, k + 1)
    BY <1>3, <1>6, TakenLater, Zenon
  <2>.  /\ m.secondaryCount = c /\ m.isPrimaryConnected = mrl.isPrimaryConnected
        /\ m.isRedundancySatisfied = mrl.isRedundancySatisfied
        /\ m.isPrimaryAtBack = mrl.isPrimaryAtBack
        /\ Primaries(m) = p /\ Total(m, r) = t
    BY Zenon DEF SameCounts, Primaries, Total
  <2>3. Counts(m, r) BY <1>3, Zenon DEF Counts
  <2>4. Offers(m, r, n) BY <1>3, <1>5, <2>1, <2>3, Zenon DEF Offers
  <2>5. Turns(m)
    <3>1. m.pc \notin Adding \cup {"flag", "wait"} BY <1>9
    <3> QED BY <1>2, <1>9, <3>1, Zenon DEF Turns
  <2> QED BY <1>2, <1>9, <2>4, <2>5, Zenon DEF HolderInv
<1>.   CASE /\ m.tempRedundant = Append(mrl.tempRedundant, ep) /\ AsPrimary
            /\ m.secondaryCount = mrl.secondaryCount /\ m.isPrimaryConnected
            /\ m.isRedundancySatisfied /\ m.isPrimaryAtBack
  <2>.  ~mrl.isPrimaryConnected /\ c = m_redundancyLevel
    BY Zenon DEF AsPrimary
  <2>2. Primaries(m) = 1 /\ p = 0 BY Zenon DEF Primaries
  <2>.  Total(m, r) = t + 1 /\ TakenFrom(m.tempRedundant, n, k + 1)
        /\ m.tempRedundant # <<>>
    BY <1>a, Zenon
  <2>4. Total(m, r) = m.secondaryCount + Primaries(m)
    <3> HIDE DEF c, t, p
    <3>1. m.secondaryCount = c BY DEF c
    <3> QED BY <1>3, <1>7, <2>2, <3>1
  <2>5. Counts(m, r)
    <3>1. Total(m, r) <= m_redundancyLevel + 1
      <4>1. m.secondaryCount = m_redundancyLevel BY Zenon
      <4> QED BY <2>2, <2>4, <4>1, LevelType
    <3> QED BY <3>1, Zenon DEF Counts
  <2>6. Offers(m, r, n)
    BY <1>3, <1>5, <2>4, <2>5, Zenon DEF Offers
  <2>7. Turns(m)
    <3>1. m.pc \notin Adding \cup {"flag", "wait"} BY <1>9
    <3> QED BY <1>9, <3>1, Zenon DEF Turns
  <2>8. Len(m.tempNonredundant) = Len(r) BY <1>3, Zenon
  <2> QED BY <1>2, <1>9, <2>6, <2>7, <2>8, Zenon DEF HolderInv
<1>.   CASE /\ m.tempRedundant = Append(mrl.tempRedundant, ep) /\ ~AsPrimary
            /\ m.secondaryCount = mrl.secondaryCount + 1
            /\ m.isPrimaryConnected = mrl.isPrimaryConnected
            /\ m.isRedundancySatisfied <=>
                 mrl.isPrimaryConnected
                   /\ mrl.secondaryCount + 1 = m_redundancyLevel
            /\ m.isPrimaryAtBack = mrl.isPrimaryAtBack
  <2>1. mrl.isPrimaryConnected \/ c # m_redundancyLevel
    BY Zenon DEF AsPrimary
  <2>2. Primaries(m) = p BY Zenon DEF Primaries
  <2>.  Total(m, r) = t + 1 /\ TakenFrom(m.tempRedundant, n, k + 1)
        /\ m.tempRedundant # <<>>
    BY <1>a, Zenon
  <2>4. Total(m, r) = (c + 1) + p /\ m.secondaryCount = c + 1
    <3>1. m.secondaryCount = c + 1 OBVIOUS
    <3> HIDE DEF c, t, p
    <3> QED BY <1>3, <1>7, <3>1
  <2>5. Counts(m, r)
    <3>1. m_redundancyLevel >= 0 /\ mrl.isPrimaryConnected
            => /\ c + 1 <= m_redundancyLevel
               /\ ~m.isRedundancySatisfied => c + 1 < m_redundancyLevel
      <4>1. mrl.isPrimaryConnected /\ ~m.isRedundancySatisfied
              => c + 1 # m_redundancyLevel
        BY Zenon
      <4> HIDE DEF c
      <4> QED BY <1>7, <1>8, <4>1, LevelType
    <3>2. m_redundancyLevel >= 0 /\ ~mrl.isPrimaryConnected
            => c + 1 <= m_redundancyLevel
      <4> HIDE DEF c
      <4> QED BY <1>7, <1>8, <2>1, LevelType
    <3>3. m_redundancyLevel >= 0 => (c + 1) + p <= m_redundancyLevel + 1
      <4> HIDE DEF c, p
      <4> QED BY <1>7, <3>1, <3>2, LevelType
    <3> QED BY <2>4, <3>1, <3>2, <3>3, Zenon DEF Counts
  <2>6. Offers(m, r, n)
    BY <1>3, <1>5, <2>2, <2>4, <2>5, Zenon DEF Offers
  <2>7. Turns(m)
    <3>1. m.pc \notin Adding \cup {"flag", "wait"} BY <1>9
    <3> QED BY <1>2, <1>9, <3>1, Zenon DEF Turns
  <2> QED BY <1>2, <1>9, <2>6, <2>7, Zenon DEF HolderInv
<1> QED OBVIOUS

LEMMA BackToFrontFacts ==
  ASSUME NEW E, NEW s \in Seq(E), s # <<>>, IsInjective(s)
  PROVE  /\ BackToFront(s) \in Seq(E) /\ IsInjective(BackToFront(s))
         /\ Range(BackToFront(s)) = Range(s)
         /\ Len(BackToFront(s)) = Len(s) /\ BackToFront(s)[1] = Last(s)
<1> DEFINE x == Last(s)
           f == Front(s)
<1>.  /\ x \in E /\ f \in Seq(E) /\ Len(f) = Len(s) - 1
      /\ x = s[Len(s)] /\ \A i \in 1..(Len(s) - 1) : f[i] = s[i]
      /\ Range(s) = Range(f) \cup {x}
  BY FrontLast, Zenon
<1>2. \A i, j \in 1..Len(s) : s[i] = s[j] => i = j BY SeqFacts
<1>3. Len(s) \in Nat /\ Len(s) > 0 OBVIOUS
<1> HIDE DEF x, f
<1>4. /\ <<x>> \in Seq(E) /\ Len(<<x>>) = 1 /\ <<x>>[1] = x
  OBVIOUS
<1>5. Range(<<x>>) = {x} /\ IsInjective(<<x>>) BY DEF Range, IsInjective
<1>6. \A i \in 1..(Len(s) - 1) : i \in 1..Len(s) /\ i # Len(s) BY <1>3
<1>7. Len(s) \in 1..Len(s) BY <1>3
<1>8. IsInjective(f)
  <2>1. \A i, j \in 1..(Len(s) - 1) : f[i] = f[j] => i = j
    BY <1>2, <1>6, Zenon
  <2> QED BY <2>1, SeqFacts
<1>9. x \notin Range(f)
  <2>1. Range(f) = {f[i] : i \in 1..(Len(s) - 1)} BY SeqFacts
  <2> QED BY <1>2, <1>6, <1>7, <2>1, Zenon
<1>10. BackToFront(s) = <<x>> \o f BY DEF BackToFront, x, f
<1>11. Range(<<x>>) \cap Range(f) = {} BY <1>5, <1>9, Zenon
<1>12. IsInjective(<<x>> \o f)
  BY <1>4, <1>5, <1>8, <1>11, ConcatInjective, Zenon
<1>13. Range(<<x>> \o f) = Range(s)
  <2>1. Range(<<x>> \o f) = Range(<<x>>) \cup Range(f)
    <3> DEFINE y == <<x>>
    <3>1. y \in Seq(E) BY <1>4
    <3> HIDE DEF y
    <3>2. Range(y \o f) = Range(y) \cup Range(f) BY <3>1, RangeConcat
    <3> QED BY <3>2 DEF y
  <2> QED BY <1>5, <2>1, Zenon
<1>14. /\ <<x>> \o f \in Seq(E) /\ Len(<<x>> \o f) = Len(s)
       /\ (<<x>> \o f)[1] = x
  BY <1>3, <1>4
<1> QED BY <1>10, <1>12, <1>13, <1>14, Zenon DEF x

(* The lists that Rearrange makes.                                         *)
LEMMA RearrangedLists ==
  ASSUME ListInv, mrl.pc = "promote"
  PROVE  LET r == m_redundantEndpoints
             n == m_nonredundantEndpoints
             tr == mrl.tempRedundant
             tn == mrl.tempNonredundant
             left == removeEndpointsInOrder(r, tn)
             new == left \o tr
             rest == removeEndpointsInOrder(n, tr) \o tn
         IN  /\ left \in Seq(Endpoints) /\ FirstLeft(r, tn, left)
             /\ Range(left) = Range(r) \ Range(tn)
             /\ Len(left) = Len(r) - Len(tn) /\ tr \in Seq(Endpoints)
             /\ new \in Seq(Endpoints) /\ rest \in Seq(Endpoints)
             /\ Partition(new, rest) /\ Len(new) = Total(mrl, r)
             /\ Range(new) = (Range(r) \ Range(tn)) \cup Range(tr)
<1> DEFINE r == m_redundantEndpoints
           n == m_nonredundantEndpoints
           tr == mrl.tempRedundant
           tn == mrl.tempNonredundant
           left == removeEndpointsInOrder(r, tn)
           others1 == removeEndpointsInOrder(n, tr)
<1>.  /\ r \in Seq(Endpoints) /\ n \in Seq(Endpoints) /\ mrl \in Holders
      /\ Partition(r, n) /\ Promoting(mrl, r, n)
  BY DEF ListInv, HolderInv
<1>.  TakenFrom(tn, r, Len(r)) /\ TakenFrom(tr, n, Len(n))
  BY Zenon DEF Promoting
<1>.  /\ IsInjective(r) /\ IsInjective(n)
      /\ Range(r) \cap Range(n) = {} /\ Range(r) \cup Range(n) = Endpoints
  BY Zenon DEF Partition
<1>.  tr \in Seq(Endpoints) /\ tn \in Seq(Endpoints) BY HolderTypes, Zenon
<1>5. Total(mrl, r) = (Len(r) - Len(tn)) + Len(tr) BY Zenon DEF Total
<1> HIDE DEF r, n, tr, tn
<1>.  /\ left \in Seq(Endpoints) /\ IsInjective(left)
      /\ Range(left) = Range(r) \ Range(tn)
      /\ Len(left) + Len(tn) = Len(r) /\ FirstLeft(r, tn, left)
  BY RemovalIsExact
<1>.  /\ others1 \in Seq(Endpoints) /\ IsInjective(others1)
      /\ Range(others1) = Range(n) \ Range(tr)
  BY RemovalIsExact
<1>.  IsInjective(tn) /\ Range(tn) \subseteq Range(r)
  <2>1. Len(r) \in Nat /\ Len(r) <= Len(r) OBVIOUS
  <2> QED BY <2>1, TakenFacts, Zenon
<1>.  IsInjective(tr) /\ Range(tr) \subseteq Range(n)
  <2>1. Len(n) \in Nat /\ Len(n) <= Len(n) OBVIOUS
  <2> QED BY <2>1, TakenFacts, Zenon
<1> HIDE DEF left, others1
<1> DEFINE new == left \o tr
           rest == others1 \o tn
<1>10. Range(left) \cap Range(tr) = {} OBVIOUS
<1>11. Range(others1) \cap Range(tn) = {} OBVIOUS
<1>.   /\ IsInjective(new) /\ Range(new) = Range(left) \cup Range(tr)
  BY <1>10, ConcatInjective, RangeConcat
<1>.   /\ IsInjective(rest) /\ Range(rest) = Range(others1) \cup Range(tn)
  BY <1>11, ConcatInjective, RangeConcat
<1>14. /\ new \in Seq(Endpoints) /\ rest \in Seq(Endpoints)
       /\ Len(new) = Len(left) + Len(tr)
  OBVIOUS
<1>15. Len(left) = Len(r) - Len(tn) /\ Len(new) = (Len(r) - Len(tn)) + Len(tr)
  <2>1. Len(left) \in Nat /\ Len(tn) \in Nat /\ Len(r) \in Nat OBVIOUS
  <2>2. Len(left) = Len(r) - Len(tn) BY <2>1
  <2> QED BY <1>14, <2>2, Zenon
<1> HIDE DEF new, rest
<1>16. Partition(new, rest)
  <2>1. Range(new) \cap Range(rest) = {}
    OBVIOUS
  <2>2. Range(new) \cup Range(rest) = Endpoints
    OBVIOUS
  <2> QED BY <2>1, <2>2, Zenon DEF Partition
<1>17. Range(new) = (Range(r) \ Range(tn)) \cup Range(tr) BY Zenon
<1> QED BY <1>5, <1>14, <1>15, <1>16, <1>17, Zenon
        DEF r, n, tr, tn, left, others1, new, rest

LEMMA RearrangeInv ==
  ASSUME ListInv, Rearrange
  PROVE  /\ ListInv' /\ Len(m_redundantEndpoints') = Total(mrl, m_redundantEndpoints)
         /\ Range(m_redundantEndpoints') =
              (Range(m_redundantEndpoints) \ Range(mrl.tempNonredundant))
                \cup Range(mrl.tempRedundant)
<1> DEFINE r == m_redundantEndpoints
           n == m_nonredundantEndpoints
           tr == mrl.tempRedundant
           tn == mrl.tempNonredundant
           new == removeEndpointsInOrder(r, tn) \o tr
           rest == removeEndpointsInOrder(n, tr) \o tn
           m == mrl'
<1>1. /\ mrl.pc = "promote"
      /\ r' = IF mrl.isPrimaryConnected /\ mrl.isPrimaryAtBack
              THEN BackToFront(new) ELSE new
      /\ n' = rest
      /\ m = [Idle EXCEPT !.pc = "leave", !.todo = tn]
  BY DEF Rearrange
<1>2. /\ new \in Seq(Endpoints) /\ rest \in Seq(Endpoints)
      /\ Partition(new, rest) /\ Len(new) = Total(mrl, r)
      /\ Range(new) = (Range(r) \ Range(tn)) \cup Range(tr)
  BY <1>1, RearrangedLists, Zenon
<1>3. mrl \in Holders /\ Promoting(mrl, r, n) BY <1>1 DEF ListInv, HolderInv
<1>4. /\ Within(Total(mrl, r))
      /\ mrl.isPrimaryConnected => Total(mrl, r) > 0
  BY <1>3, Zenon DEF Promoting
<1>5. tn \in Seq(Endpoints) BY <1>3, HolderTypes, Zenon
<1> HIDE DEF new, rest
<1>6. /\ r' \in Seq(Endpoints) /\ IsInjective(r') /\ Range(r') = Range(new)
      /\ Len(r') = Len(new)
  <2>1. CASE ~(mrl.isPrimaryConnected /\ mrl.isPrimaryAtBack)
    BY <1>1, <1>2, <2>1, Zenon DEF Partition
  <2>.  CASE mrl.isPrimaryConnected /\ mrl.isPrimaryAtBack
    <3>1. new # <<>> /\ IsInjective(new)
      <4>1. Len(new) > 0 BY <1>2, <1>4, Zenon
      <4>2. new # <<>> BY <1>2, <4>1
      <4> QED BY <1>2, <4>2, Zenon DEF Partition
    <3>2. r' = BackToFront(new) BY <1>1, Zenon
    <3>3. /\ BackToFront(new) \in Seq(Endpoints) /\ IsInjective(BackToFront(new))
          /\ Range(BackToFront(new)) = Range(new)
          /\ Len(BackToFront(new)) = Len(new)
      BY <1>2, <3>1, BackToFrontFacts, Zenon
    <3> QED BY <3>2, <3>3, Zenon
  <2> QED BY <2>1, Zenon
<1>7. Partition(r', n') BY <1>1, <1>2, <1>6, Zenon DEF Partition
<1>8. Within(Len(r')) BY <1>2, <1>4, <1>6, Zenon
<1> HIDE DEF m
<1>9. /\ m \in Holders /\ m.pc = "leave" /\ ~m.isPrimaryConnected
      /\ ~m.isRedundancySatisfied /\ ~m.isPrimaryAtBack
      /\ m.tempRedundant = <<>> /\ m.tempNonredundant = <<>>
  <2>1. m = Fresh("leave", tn) BY <1>1, Zenon DEF Fresh
  <2>2. "leave" \in {"leave", "stop", "closed"} OBVIOUS
  <2> QED BY <1>5, <2>1, <2>2, FreshHolder, Zenon
<1>10. /\ Turns(m) /\ m.pc \notin Busy /\ Rests(m)
  BY <1>9 DEF Turns, Busy, Adding, Rests
<1>11. n' \in Seq(Endpoints) BY <1>1, <1>2, Zenon
<1>12. HolderInv(m, r', n')
  BY <1>6, <1>7, <1>8, <1>9, <1>10, <1>11, RestsInv, Zenon
<1>13. ListInv' BY <1>12 DEF ListInv, m
<1> QED BY <1>2, <1>6, <1>13, Zenon

sameLists == <<m_redundantEndpoints, m_nonredundantEndpoints>>

LEMMA ListFacts ==
  ASSUME ListInv
  PROVE  /\ m_redundantEndpoints \in Seq(Endpoints)
         /\ m_nonredundantEndpoints \in Seq(Endpoints)
         /\ mrl \in Holders /\ Turns(mrl)
         /\ mrl.pc # "closed" =>
              /\ Partition(m_redundantEndpoints, m_nonredundantEndpoints)
              /\ Within(Len(m_redundantEndpoints))
         /\ mrl.pc \notin Busy => Rests(mrl)
         /\ mrl.isRedundancySatisfied => mrl.isPrimaryConnected
BY Zenon DEF ListInv, HolderInv

(* The two ways a turn of the scan ends.                                   *)
LEMMA ScanGone ==
  ASSUME ListInv, Goes("scan"), mrl' = Gone, UNCHANGED sameLists
  PROVE  ListInv'
<1>.  mrl.pc = "scan" /\ mrl.todo # <<>> /\ mrl \in Holders
  BY ListFacts, Zenon DEF Goes
<1>2. mrl.tempRedundant = <<>> /\ ~mrl.isPrimaryAtBack
  BY Zenon DEF ListInv, HolderInv, Scanning
<1>3. /\ Gone \in Holders /\ Gone.pc = mrl.pc
      /\ Gone.todo = Tail(mrl.todo) /\ SameCounts(Gone, mrl)
      /\ Gone.tempRedundant = mrl.tempRedundant
      /\ Gone.tempNonredundant = Append(mrl.tempNonredundant, ep)
  BY GoneHolder, Zenon
<1>4. ~Gone.isPrimaryAtBack BY <1>2, <1>3, Zenon DEF SameCounts
<1>5. HolderInv(Gone, m_redundantEndpoints, m_nonredundantEndpoints)
  BY <1>2, <1>3, <1>4, ScanTurn, Zenon
<1> QED BY <1>5, Zenon DEF ListInv, sameLists

LEMMA ScanKept ==
  ASSUME ListInv, Goes("scan"), UNCHANGED sameLists, NEW m \in Holders, mrl' = m,
         m.pc = "scan", m.todo = Tail(mrl.todo), m.tempRedundant = <<>>,
         ~m.isPrimaryAtBack, m.tempNonredundant = mrl.tempNonredundant,
         m.isPrimaryConnected,
         m.secondaryCount = mrl.secondaryCount + Primaries(mrl),
         m.isRedundancySatisfied <=> m.secondaryCount = m_redundancyLevel
  PROVE  ListInv'
<1>1. HolderInv(m, m_redundantEndpoints, m_nonredundantEndpoints)
  BY ScanTurn, Zenon
<1> QED BY <1>1, Zenon DEF ListInv, sameLists

LEMMA ScanFacts ==
  ASSUME ListInv, Goes("scan")
  PROVE  /\ mrl.pc = "scan" /\ mrl.todo # <<>> /\ mrl \in Holders
         /\ ~mrl.isRedundancySatisfied /\ mrl.tempRedundant = <<>>
         /\ ~mrl.isPrimaryAtBack /\ Scanning(mrl, m_redundantEndpoints)
         /\ ~mrl.isPrimaryConnected => mrl.secondaryCount = 0
         /\ Following \in Holders /\ Following.pc = "scan"
         /\ Following.todo = Tail(mrl.todo) /\ SameCounts(Following, mrl)
         /\ Following.tempRedundant = <<>>
         /\ Following.tempNonredundant = mrl.tempNonredundant
         /\ Following.fatal = mrl.fatal
<1>.  /\ mrl.pc = "scan" /\ mrl.todo # <<>> /\ mrl \in Holders
      /\ ~mrl.isRedundancySatisfied
  BY ListFacts, Zenon DEF Goes
<1>2. Scanning(mrl, m_redundantEndpoints)
  BY Zenon DEF ListInv, HolderInv
<1>3. /\ mrl.tempRedundant = <<>> /\ ~mrl.isPrimaryAtBack
      /\ ~mrl.isPrimaryConnected => mrl.secondaryCount = 0
  BY <1>2, Zenon DEF Scanning
<1>4. /\ Following \in Holders /\ Following.pc = mrl.pc
      /\ Following.todo = Tail(mrl.todo) /\ SameCounts(Following, mrl)
      /\ Following.tempRedundant = mrl.tempRedundant
      /\ Following.tempNonredundant = mrl.tempNonredundant
      /\ Following.fatal = mrl.fatal
  BY FollowingHolder, Zenon
<1> QED BY <1>2, <1>3, <1>4, Zenon

(* The endpoint in turn stays redundant.                                   *)
Scanned ==
  /\ mrl'.pc = "scan" /\ mrl'.todo = Tail(mrl.todo)
  /\ mrl'.tempRedundant = <<>> /\ mrl'.tempNonredundant = mrl.tempNonredundant
  /\ mrl'.isPrimaryConnected /\ ~mrl'.isPrimaryAtBack /\ mrl'.fatal = mrl.fatal

(* Past the first endpoint there are two, so a secondary is asked for.     *)
LEMMA ScanLevel ==
  ASSUME ListInv, Goes("scan"), mrl.todo # m_redundantEndpoints
  PROVE  m_redundancyLevel # 0
<1> DEFINE r == m_redundantEndpoints
           t == mrl.todo
<1>.  mrl.pc = "scan" /\ t # <<>> /\ mrl \in Holders /\ Scanning(mrl, r)
  BY ScanFacts, Zenon
<1>.  r \in Seq(Endpoints) /\ Within(Len(r)) /\ RestOf(t, r) /\ t # r
  BY ListFacts, Zenon DEF Scanning
<1>3. t \in Seq(Endpoints) BY HolderTypes, Zenon
<1> HIDE DEF r, t
<1>.  /\ Len(t) \in Nat /\ Len(r) \in Nat /\ Len(t) <= Len(r) /\ Len(t) > 0
      /\ \A i \in 1..Len(t) : t[i] = r[(Len(r) - Len(t)) + i]
  BY <1>3 DEF RestOf
<1>5. Len(t) # Len(r)
  <2> SUFFICES ASSUME Len(t) = Len(r) PROVE FALSE OBVIOUS
  <2>1. \A i \in 1..Len(t) : (Len(r) - Len(t)) + i = i OBVIOUS
  <2>2. \A i \in 1..Len(t) : t[i] = r[i] BY <2>1
  <2> QED BY <1>3, <2>2
<1> QED BY <1>5, LevelType DEF Within

LEMMA ScanFirstInv ==
  ASSUME ListInv, ScanFirst
  PROVE  ListInv' /\ (mrl' = Gone \/ Scanned)
<1> DEFINE f == Following
           b == m_redundancyLevel = 0
           p == [f EXCEPT !.isPrimaryConnected = TRUE,
                          !.isRedundancySatisfied = b]
<1>.  /\ Goes("scan") /\ mrl.todo = m_redundantEndpoints
      /\ mrl' = p \/ mrl' = Gone
  BY Zenon DEF ScanFirst
<1>2. UNCHANGED sameLists BY DEF ScanFirst, lists, sameLists
<1>.  /\ mrl \in Holders /\ Scanning(mrl, m_redundantEndpoints)
      /\ f \in Holders /\ f.pc = "scan" /\ f.todo = Tail(mrl.todo)
      /\ SameCounts(f, mrl) /\ f.tempRedundant = <<>> /\ ~mrl.isPrimaryAtBack
      /\ f.tempNonredundant = mrl.tempNonredundant /\ f.fatal = mrl.fatal
  BY ScanFacts, Zenon
<1>p. /\ p = [f EXCEPT !.isPrimaryConnected = TRUE, !.isRedundancySatisfied = b]
      /\ b \in BOOLEAN
      /\ b <=> m_redundancyLevel = 0
  OBVIOUS
<1> HIDE DEF f, b, p
<1>4. mrl.secondaryCount = 0 /\ Primaries(mrl) = 0
  <2>1. (Len(m_redundantEndpoints) - Len(mrl.todo)) - Len(mrl.tempNonredundant)
          = mrl.secondaryCount + Primaries(mrl)
    BY Zenon DEF Scanning
  <2>2. /\ Len(mrl.todo) \in Nat /\ mrl.secondaryCount \in Nat
        /\ Len(mrl.tempNonredundant) \in Nat /\ Primaries(mrl) \in {0, 1}
        /\ Len(m_redundantEndpoints) = Len(mrl.todo)
    BY ListFacts, HolderFacts, Zenon
  <2> QED BY <2>1, <2>2
<1>.  /\ p \in Holders /\ p.pc = f.pc /\ p.todo = f.todo
      /\ p.secondaryCount = f.secondaryCount /\ p.isPrimaryConnected
      /\ p.isRedundancySatisfied = b /\ p.isPrimaryAtBack = f.isPrimaryAtBack
      /\ p.tempRedundant = f.tempRedundant
      /\ p.tempNonredundant = f.tempNonredundant /\ p.fatal = f.fatal
  BY <1>p, Zenon DEF Holders
<1>.  p.secondaryCount = 0 /\ ~p.isPrimaryAtBack
  BY <1>4, Zenon DEF SameCounts
<1>7. p.secondaryCount = mrl.secondaryCount + Primaries(mrl) BY <1>4
<1>8. p.isRedundancySatisfied <=> p.secondaryCount = m_redundancyLevel
  BY <1>p, Zenon
<1>9. mrl' = p => ListInv' /\ Scanned
  BY <1>2, <1>7, <1>8, ScanKept, Zenon
     DEF Scanned
<1> QED BY <1>2, <1>9, ScanGone, Zenon

LEMMA ScanPromoteInv ==
  ASSUME ListInv, ScanPromote
  PROVE  ListInv' /\ (mrl' = Gone \/ Scanned)
<1> DEFINE f == Following
           p == [f EXCEPT !.isPrimaryConnected = TRUE]
<1>.  /\ Goes("scan") /\ mrl.todo # m_redundantEndpoints
      /\ ~mrl.isPrimaryConnected /\ (mrl' = p \/ mrl' = Gone)
  BY Zenon DEF ScanPromote
<1>2. UNCHANGED sameLists BY DEF ScanPromote, lists, sameLists
<1>.  /\ mrl \in Holders /\ mrl.secondaryCount = 0 /\ ~mrl.isRedundancySatisfied
      /\ f \in Holders /\ f.pc = "scan" /\ f.todo = Tail(mrl.todo)
      /\ SameCounts(f, mrl) /\ f.tempRedundant = <<>> /\ ~mrl.isPrimaryAtBack
      /\ f.tempNonredundant = mrl.tempNonredundant /\ f.fatal = mrl.fatal
  BY ScanFacts, Zenon
<1>p. p = [f EXCEPT !.isPrimaryConnected = TRUE] OBVIOUS
<1> HIDE DEF f, p
<1>4. Primaries(mrl) = 0 BY Zenon DEF Primaries
<1>5. /\ p \in Holders /\ p.pc = f.pc /\ p.todo = f.todo
      /\ p.secondaryCount = f.secondaryCount /\ p.isPrimaryConnected
      /\ p.isRedundancySatisfied = f.isRedundancySatisfied
      /\ p.isPrimaryAtBack = f.isPrimaryAtBack
      /\ p.tempRedundant = f.tempRedundant
      /\ p.tempNonredundant = f.tempNonredundant /\ p.fatal = f.fatal
  BY <1>p, PromotedHolder, Zenon
<1>.  p.secondaryCount = 0 /\ ~p.isPrimaryAtBack /\ ~p.isRedundancySatisfied
  BY <1>5, Zenon DEF SameCounts
<1>7. p.secondaryCount = mrl.secondaryCount + Primaries(mrl)
  BY <1>4
<1>8. p.isRedundancySatisfied <=> p.secondaryCount = m_redundancyLevel
  BY ScanLevel, Zenon
<1>9. mrl' = p => ListInv' /\ Scanned
  BY <1>2, <1>5, <1>7, <1>8, ScanKept, Zenon
     DEF Scanned
<1> QED BY <1>2, <1>9, ScanGone, Zenon

LEMMA ScanSecondaryInv ==
  ASSUME ListInv, ScanSecondary
  PROVE  ListInv' /\ (mrl' = Gone \/ Scanned)
<1> DEFINE f == Following
           p == Secondary(f)
<1>.  /\ Goes("scan") /\ mrl.isPrimaryConnected /\ (mrl' = p \/ mrl' = Gone)
  BY Zenon DEF ScanSecondary
<1>2. UNCHANGED sameLists BY DEF ScanSecondary, lists, sameLists
<1>.  /\ mrl \in Holders
      /\ f \in Holders /\ f.pc = "scan" /\ f.todo = Tail(mrl.todo)
      /\ SameCounts(f, mrl) /\ f.tempRedundant = <<>> /\ ~mrl.isPrimaryAtBack
      /\ f.tempNonredundant = mrl.tempNonredundant /\ f.fatal = mrl.fatal
  BY ScanFacts, Zenon
<1> HIDE DEF f
<1>4. Primaries(mrl) = 1 BY Zenon DEF Primaries
<1>5. /\ p \in Holders /\ p.pc = f.pc /\ p.todo = f.todo
      /\ p.secondaryCount = f.secondaryCount + 1
      /\ p.isPrimaryConnected = f.isPrimaryConnected
      /\ p.isRedundancySatisfied <=>
           f.isPrimaryConnected /\ f.secondaryCount + 1 = m_redundancyLevel
      /\ p.isPrimaryAtBack = f.isPrimaryAtBack
      /\ p.tempRedundant = f.tempRedundant
      /\ p.tempNonredundant = f.tempNonredundant /\ p.fatal = f.fatal
  BY SecondaryHolder, Zenon
<1> HIDE DEF p
<1>6. /\ p.secondaryCount = mrl.secondaryCount + 1 /\ ~p.isPrimaryAtBack
      /\ p.isPrimaryConnected
      /\ p.isRedundancySatisfied <=> p.secondaryCount = m_redundancyLevel
  BY <1>5, Zenon DEF SameCounts
<1>7. p.secondaryCount = mrl.secondaryCount + Primaries(mrl)
  BY <1>4, <1>6
<1>9. mrl' = p => ListInv' /\ Scanned
  BY <1>2, <1>5, <1>6, <1>7, ScanKept, Zenon
     DEF Scanned
<1> QED BY <1>2, <1>9, ScanGone, Zenon

(* A turn of the loop over the other endpoints that adds none, and one     *)
(* that does.                                                              *)
Offered(m) ==
  /\ m \in Holders /\ m.pc = "offer" /\ m.todo = Tail(mrl.todo)
  /\ m.tempNonredundant = mrl.tempNonredundant

LEMMA OfferedFacts ==
  ASSUME ListInv, mrl.pc \in Adding \/ Goes("offer")
  PROVE  /\ mrl \in Holders /\ mrl.pc \in Offering /\ mrl.todo # <<>>
         /\ ~mrl.isRedundancySatisfied
<1>1. mrl \in Holders /\ Turns(mrl) BY ListFacts, Zenon
<1>2. CASE mrl.pc \in Adding BY <1>1, <1>2, Zenon DEF Turns, Offering
<1>.  CASE Goes("offer")
  <2>1. mrl.pc \in Offering BY DEF Offering, Goes
  <2> QED BY <1>1, <2>1, Zenon DEF Goes
<1> QED BY <1>2, Zenon

(* Recover, field by field.                                                *)
Recovered ==
  /\ mrl'.pc = "offer" /\ mrl'.todo = Tail(mrl.todo)
  /\ mrl'.tempRedundant = Append(mrl.tempRedundant, ep)
  /\ mrl'.tempNonredundant = mrl.tempNonredundant
  /\ mrl'.isPrimaryConnected <=> mrl.isPrimaryConnected \/ AsPrimary
  /\ mrl'.isPrimaryAtBack <=> mrl.isPrimaryAtBack \/ AsPrimary
  /\ AsPrimary => mrl'.isRedundancySatisfied
  /\ mrl'.fatal = mrl.fatal

LEMMA RecoverInv ==
  ASSUME ListInv, Recover
  PROVE  ListInv' /\ Recovered
<1> DEFINE a == Added
           m == mrl'
<1>.  /\ mrl.pc = "recover" /\ UNCHANGED sameLists
      /\ AsPrimary => m = [a EXCEPT !.isPrimaryConnected = TRUE,
                                    !.isRedundancySatisfied = TRUE,
                                    !.isPrimaryAtBack = TRUE]
      /\ ~AsPrimary => m = Secondary(a)
  BY DEF Recover, Added, lists, sameLists
<1>.  /\ mrl \in Holders /\ mrl.pc \in Offering /\ mrl.todo # <<>>
      /\ ~mrl.isRedundancySatisfied
  <2>1. mrl.pc \in Adding BY DEF Adding
  <2> QED BY <2>1, OfferedFacts, Zenon
<1>.  /\ a \in Holders /\ a.pc = "offer" /\ a.todo = Tail(mrl.todo)
      /\ SameCounts(a, mrl) /\ a.tempRedundant = Append(mrl.tempRedundant, ep)
      /\ a.tempNonredundant = mrl.tempNonredundant /\ a.fatal = mrl.fatal
  BY AddedHolder, Zenon
<1>m. mrl' = m OBVIOUS
<1> HIDE DEF a, m
<1>.  CASE AsPrimary
  <2>.  /\ m \in Holders /\ m.pc = a.pc /\ m.todo = a.todo
        /\ m.secondaryCount = a.secondaryCount /\ m.isPrimaryConnected
        /\ m.isRedundancySatisfied /\ m.isPrimaryAtBack
        /\ m.tempRedundant = a.tempRedundant
        /\ m.tempNonredundant = a.tempNonredundant /\ m.fatal = a.fatal
    BY Zenon DEF Holders
  <2>2. m.secondaryCount = mrl.secondaryCount
    BY Zenon DEF SameCounts
  <2>3. HolderInv(m, m_redundantEndpoints, m_nonredundantEndpoints)
    BY <2>2, OfferTurn, Zenon
  <2>4. Recovered BY <1>m DEF Recovered
  <2> QED BY <1>m, <2>3, <2>4, Zenon DEF ListInv, sameLists
<1>.  CASE ~AsPrimary
  <2>.  /\ m \in Holders /\ m.pc = a.pc /\ m.todo = a.todo
        /\ m.secondaryCount = a.secondaryCount + 1
        /\ m.isPrimaryConnected = a.isPrimaryConnected
        /\ m.isRedundancySatisfied <=>
             a.isPrimaryConnected /\ a.secondaryCount + 1 = m_redundancyLevel
        /\ m.isPrimaryAtBack = a.isPrimaryAtBack
        /\ m.tempRedundant = a.tempRedundant
        /\ m.tempNonredundant = a.tempNonredundant /\ m.fatal = a.fatal
    <3>1. m = Secondary(a) BY Zenon
    <3> QED BY <3>1, SecondaryHolder, Zenon
  <2>2. /\ m.secondaryCount = mrl.secondaryCount + 1
        /\ m.isPrimaryConnected = mrl.isPrimaryConnected
        /\ m.isRedundancySatisfied <=>
             mrl.isPrimaryConnected /\ mrl.secondaryCount + 1 = m_redundancyLevel
        /\ m.isPrimaryAtBack = mrl.isPrimaryAtBack
    BY Zenon DEF SameCounts
  <2>3. HolderInv(m, m_redundantEndpoints, m_nonredundantEndpoints)
    BY <2>2, OfferTurn, Zenon
  <2>4. Recovered BY <1>m, <2>2 DEF Recovered
  <2> QED BY <1>m, <2>3, <2>4, Zenon DEF ListInv, sameLists
<1> QED BY Zenon

LEMMA RestFacts ==
  ASSUME ListInv, mrl.pc \notin Busy
  PROVE  /\ mrl \in Holders /\ Turns(mrl) /\ Rests(mrl)
         /\ ~mrl.isRedundancySatisfied /\ ~mrl.isPrimaryAtBack
         /\ mrl.pc \in {"flag", "wait"} => mrl.todo # <<>>
<1>.  /\ mrl \in Holders /\ Turns(mrl) /\ Rests(mrl)
      /\ mrl.isRedundancySatisfied => mrl.isPrimaryConnected
  BY ListFacts, Zenon
<1>2. ~mrl.isPrimaryConnected BY Zenon DEF Rests
<1>3. ~mrl.isPrimaryAtBack BY <1>2, Zenon DEF Turns
<1> QED BY <1>2, <1>3, Zenon DEF Turns

LEMMA ListInvNext ==
  TypeOK /\ ListInv /\ [Next]_vars => ListInv'
<1>TakenFront.
    ASSUME NEW E, NEW src \in Seq(E), src # <<>>, NEW dest, NEW k,
           TakenFrom(src, dest, k)
    PROVE  TakenFrom(Front(src), dest, k)
  <2> USE <1>TakenFront
  <2>1. /\ Len(Front(src)) = Len(src) - 1
        /\ \A i \in 1..(Len(src) - 1) : Front(src)[i] = src[i]
    BY FrontLast
  <2>2. \A i \in 1..(Len(src) - 1) : i \in 1..Len(src) OBVIOUS
  <2> QED BY <2>1, <2>2, Zenon DEF TakenFrom
<1>SelectedUnfolds.
    \E c : SelectLoop(c)
  <2> DEFINE S == Seq(Endpoints)
             L == Len(m_servers)
             F == [i \in 1..L |-> [out \in S |-> SelectTurn(m_servers[i], out)]]
  <2>0. m_servers \in Seq(Endpoints) BY RedundancyAssumption, Zenon DEF Endpoints
  <2>1. ASSUME NEW e \in Endpoints, NEW out \in S PROVE SelectTurn(e, out) \in S
    <3>1. Append(out, e) \in S OBVIOUS
    <3> QED BY <3>1, Zenon DEF SelectTurn
  <2>.  L \in Nat /\ 0 \in 0..L /\ <<>> \in S /\ \A i \in 1..L : m_servers[i] \in Endpoints
    BY <2>0
  <2> HIDE DEF S, L
  <2>3. F \in [1..L -> [S -> S]] BY <2>1
  <2>4. \A i \in 1..L : F[i] = [out \in S |-> SelectTurn(m_servers[i], out)]
    BY Zenon
  <2> HIDE DEF F
  <2>5. Loops(L, S, <<>>, F) # {} BY <2>3, LoopExists, Zenon
  <2>6. PICK g \in [0..L -> S] :
          g[0] = <<>> /\ \A i \in 1..L : g[i] = F[i][g[i - 1]]
    BY <2>5, Zenon DEF Loops
  <2> DEFINE D(f) == [n \in 0..L |->
                        IF n = 0 THEN <<>> ELSE SelectTurn(m_servers[n], f[n - 1])]
  <2>7. g = D(g)
    <3>1. ASSUME NEW n \in 0..L
          PROVE  g[n] = IF n = 0 THEN <<>> ELSE SelectTurn(m_servers[n], g[n - 1])
      <4>1. CASE n = 0 BY <2>6, <4>1, Zenon
      <4>.  CASE n # 0
        <5>1. n \in 1..L /\ n - 1 \in 0..L OBVIOUS
        <5>2. g[n - 1] \in S BY <5>1, Zenon
        <5>3. g[n] = SelectTurn(m_servers[n], g[n - 1])
          BY <2>4, <2>6, <5>1, <5>2, Zenon
        <5> QED BY <5>3, Zenon
      <4> QED BY <4>1, Zenon
    <3> QED BY <3>1, Zenon
  <2> DEFINE c == CHOOSE f : f = D(f)
  <2>8. c = D(c) BY <2>7, Zenon
  <2>9. Selected = c[L] BY DEF Selected, SelectTurn, L
  <2> HIDE DEF c
  <2>10. c[0] = <<>> BY <2>8, Zenon
  <2>11. ASSUME NEW i \in 1..L PROVE c[i] = SelectTurn(m_servers[i], c[i - 1])
    <3>1. i \in 0..L /\ i # 0 OBVIOUS
    <3> QED BY <2>8, <3>1, Zenon
  <2> QED BY <2>9, <2>10, <2>11, Zenon DEF L, SelectLoop
<1>SelectedIsExact.
    /\ Selected \in Seq(Endpoints) /\ IsInjective(Selected)
    /\ Range(Selected) = Endpoints \ Range(m_redundantEndpoints)
  <2> DEFINE L == Len(m_servers)
             P(n, out) == /\ out \in Seq(Endpoints) /\ IsInjective(out)
                          /\ Range(out) = {m_servers[i] : i \in 1..n}
                                            \ Range(m_redundantEndpoints)
  <2>0. m_servers \in Seq(Endpoints) /\ IsInjective(m_servers)
    BY RedundancyAssumption, Zenon DEF Endpoints
  <2>1. /\ L \in Nat /\ \A i \in 1..L : m_servers[i] \in Endpoints
        /\ Endpoints = {m_servers[i] : i \in 1..L}
    BY <2>0, SeqFacts DEF Endpoints
  <2>2. \A i, j \in 1..L : m_servers[i] = m_servers[j] => i = j
    BY <2>0, SeqFacts
  <2>3. PICK c : SelectLoop(c) BY <1>SelectedUnfolds, Zenon
  <2>4. /\ Selected = c[L] /\ c[0] = <<>>
        /\ \A i \in 1..L : c[i] = SelectTurn(m_servers[i], c[i - 1])
    BY <2>3, Zenon DEF SelectLoop
  <2> HIDE DEF L
  <2> DEFINE Q == {n \in Nat : n <= L => P(n, c[n])}
  <2>5. 0 \in Q
    <3>1. IsInjective(<<>>) /\ Range(<<>>) = {} /\ <<>> \in Seq(Endpoints)
      BY DEF IsInjective, Range
    <3>2. {m_servers[i] : i \in 1..0} \ Range(m_redundantEndpoints) = {}
      <4>1. 1..0 = {} OBVIOUS
      <4> QED BY <4>1, Zenon
    <3>3. P(0, c[0]) BY <2>4, <3>1, <3>2, Zenon
    <3> HIDE DEF P
    <3> QED BY <3>3
  <2>6. ASSUME NEW n \in Nat, n \in Q PROVE n + 1 \in Q
    <3> SUFFICES ASSUME n + 1 <= L PROVE P(n + 1, c[n + 1])
      <4> HIDE DEF P
      <4> QED OBVIOUS
    <3> DEFINE e == m_servers[n + 1]
               out == c[n]
    <3>1. n <= L /\ n + 1 \in 1..L /\ (n + 1) - 1 = n BY <2>1
    <3>2. P(n, out) BY <2>6, <3>1, Zenon
    <3>3. c[n + 1] = SelectTurn(e, out) BY <2>4, <3>1, Zenon
    <3>4. {m_servers[i] : i \in 1..(n + 1)} = {m_servers[i] : i \in 1..n} \cup {e}
      OBVIOUS
    <3>5. e \in Endpoints /\ e \notin {m_servers[i] : i \in 1..n}
      <4>1. \A j \in 1..n : j \in 1..L /\ j # n + 1 BY <2>1, <3>1
      <4> QED BY <2>1, <2>2, <3>1, <4>1, Zenon
    <3> HIDE DEF e, out
    <3>6. CASE e \in Range(m_redundantEndpoints)
      <4>1. SelectTurn(e, out) = out BY <3>6, Zenon DEF SelectTurn
      <4> QED BY <3>2, <3>3, <3>4, <3>6, <4>1, Zenon
    <3>7. CASE e \notin Range(m_redundantEndpoints)
      <4>1. SelectTurn(e, out) = Append(out, e) BY <3>7, Zenon DEF SelectTurn
      <4>2. e \notin Range(out) BY <3>2, <3>5, Zenon
      <4>3. IsInjective(Append(out, e))
        BY <3>2, <3>5, <4>2, InjectiveAppend, Zenon
      <4>4. Range(Append(out, e)) = Range(out) \cup {e}
        <5>1. out \in Seq(Endpoints) /\ e \in Endpoints BY <3>2, <3>5, Zenon
        <5> QED BY <5>1, RangeAppend
      <4>5. Append(out, e) \in Seq(Endpoints)
        <5>1. out \in Seq(Endpoints) /\ e \in Endpoints BY <3>2, <3>5, Zenon
        <5> QED BY <5>1
      <4>6. Range(Append(out, e)) = {m_servers[i] : i \in 1..(n + 1)}
                                      \ Range(m_redundantEndpoints)
        BY <3>2, <3>4, <3>7, <4>4, Zenon
      <4> QED BY <3>3, <4>1, <4>3, <4>5, <4>6, Zenon
    <3> QED BY <3>6, <3>7, Zenon
  <2>7. P(L, c[L])
    <3>1. Nat \subseteq Q BY <2>5, <2>6, SetInduction, Zenon
    <3> HIDE DEF P
    <3> QED BY <2>1, <3>1
  <2> QED BY <2>1, <2>4, <2>7, Zenon
<1>PromotedBackHolder.
    ASSUME NEW m \in Holders, NEW p,
           p = [m EXCEPT !.isPrimaryConnected = TRUE, !.isPrimaryAtBack = TRUE]
    PROVE  /\ p \in Holders /\ p.pc = m.pc /\ p.todo = m.todo
           /\ p.secondaryCount = m.secondaryCount /\ p.isPrimaryConnected
           /\ p.isRedundancySatisfied = m.isRedundancySatisfied
           /\ p.isPrimaryAtBack
           /\ p.tempRedundant = m.tempRedundant
           /\ p.tempNonredundant = m.tempNonredundant /\ p.fatal = m.fatal
  <2> USE <1>PromotedBackHolder
  <2> QED BY Zenon DEF Holders
<1>RefusedHolder.
    ASSUME NEW m \in Holders, m.tempRedundant # <<>>, NEW p,
           p = [m EXCEPT !.tempRedundant = Front(@)]
    PROVE  /\ p \in Holders /\ p.pc = m.pc /\ p.todo = m.todo
           /\ SameCounts(p, m) /\ p.tempRedundant = Front(m.tempRedundant)
           /\ p.tempNonredundant = m.tempNonredundant /\ p.fatal = m.fatal
  <2> USE <1>RefusedHolder
  <2> DEFINE t == Front(m.tempRedundant)
  <2>1. t \in Seq(Endpoints)
    <3>1. m.tempRedundant \in Seq(Endpoints) BY HolderTypes
    <3> QED BY <3>1, FrontLast
  <2>2. p = [m EXCEPT !.tempRedundant = t] OBVIOUS
  <2> HIDE DEF t
  <2>3. p \in Holders BY <2>1, <2>2, Zenon DEF Holders
  <2>4. /\ p.pc = m.pc /\ p.todo = m.todo /\ SameCounts(p, m)
        /\ p.tempRedundant = t /\ p.tempNonredundant = m.tempNonredundant
        /\ p.fatal = m.fatal
    BY <2>2 DEF Holders, SameCounts
  <2> QED BY <2>3, <2>4 DEF t
<1>SelectInv.
    ASSUME ListInv, Select
    PROVE  HolderInv(mrl', m_redundantEndpoints', m_nonredundantEndpoints')
  <2> USE <1>SelectInv
  <2> DEFINE r == m_redundantEndpoints
             n == m_nonredundantEndpoints
             s == m_nonredundantEndpoints'
             m == mrl'
  <2>.  /\ mrl.pc = "scan" /\ (mrl.todo = <<>> \/ mrl.isRedundancySatisfied)
        /\ s = n \/ s = Selected
        /\ m = [mrl EXCEPT !.pc = "offer", !.todo = s]
        /\ m_redundantEndpoints' = r
    BY DEF Select, Ends
  <2>.  /\ r \in Seq(Endpoints) /\ n \in Seq(Endpoints) /\ mrl \in Holders
        /\ Partition(r, n) /\ Within(Len(r)) /\ Scanning(mrl, r)
        /\ mrl.isRedundancySatisfied => mrl.isPrimaryConnected
    BY DEF ListInv, HolderInv
  <2>.  /\ TakenFrom(mrl.tempNonredundant, r, Len(r) - Len(mrl.todo))
        /\ mrl.tempRedundant = <<>> /\ ~mrl.isPrimaryAtBack
        /\ (Len(r) - Len(mrl.todo)) - Len(mrl.tempNonredundant)
             = mrl.secondaryCount + Primaries(mrl)
        /\ ~mrl.isPrimaryConnected => mrl.secondaryCount = 0
        /\ mrl.todo = <<>> /\ Counts(mrl, r)
    BY Zenon DEF Scanning
  <2>.  s \in Seq(Endpoints) /\ Partition(r, s)
    <3>1. CASE s = n BY <3>1, Zenon
    <3>2. CASE s = Selected
      <4>1. /\ s \in Seq(Endpoints) /\ IsInjective(s)
            /\ Range(s) = Endpoints \ Range(r)
        BY <3>2, <1>SelectedIsExact, Zenon
      <4>2. Range(r) \subseteq Endpoints BY SeqFacts
      <4> QED BY <4>1, <4>2 DEF Partition
    <3> QED BY <3>1, <3>2, Zenon
  <2>.  /\ m \in Holders /\ m.pc = "offer" /\ m.todo = s
        /\ m.secondaryCount = mrl.secondaryCount
        /\ m.isPrimaryConnected = mrl.isPrimaryConnected
        /\ m.isRedundancySatisfied = mrl.isRedundancySatisfied
        /\ m.isPrimaryAtBack = mrl.isPrimaryAtBack
        /\ m.tempRedundant = mrl.tempRedundant
        /\ m.tempNonredundant = mrl.tempNonredundant
    <3> HIDE DEF m, s, r, n
    <3>2. m = [mrl EXCEPT !.pc = "offer", !.todo = s] BY Zenon
    <3> QED BY <3>2, Zenon DEF Holders
  <2>6. /\ Len(r) \in Nat /\ Len(mrl.tempNonredundant) \in Nat
        /\ mrl.secondaryCount \in Nat /\ Primaries(mrl) \in {0, 1}
    BY HolderFacts, Zenon
  <2>.  Len(mrl.todo) = 0 /\ Len(mrl.tempRedundant) = 0 OBVIOUS
  <2> DEFINE l == Len(r)
             t == Len(mrl.tempNonredundant)
             c == mrl.secondaryCount
             p == Primaries(mrl)
  <2>8. l \in Nat /\ t \in Nat /\ c \in Nat /\ p \in Nat /\ (l - 0) - t = c + p
    BY <2>6
  <2>9. TakenFrom(m.tempNonredundant, r, l)
    <3>1. Len(r) - Len(mrl.todo) = Len(r) BY <2>6
    <3> QED BY <3>1, Zenon
  <2>10. Total(m, r) = (l - t) + 0 /\ Primaries(m) = p /\ Total(m, r) = Total(mrl, r)
    BY Zenon DEF Total, Primaries
  <2> HIDE DEF r, n, s, m
  <2>11. ~m.isPrimaryConnected => t = l
    <3>1. ~m.isPrimaryConnected => c = 0 /\ p = 0
      BY Zenon DEF Primaries
    <3> HIDE DEF l, t, c, p
    <3> QED BY <2>8, <3>1
  <2>12. Total(m, r) = m.secondaryCount + Primaries(m)
    <3>1. m.secondaryCount = c BY Zenon
    <3> HIDE DEF l, t, c, p
    <3> QED BY <2>8, <2>10, <3>1
  <2>13. Counts(m, r) BY <2>10, Zenon DEF Counts
  <2>14. RestOf(m.todo, s) /\ TakenFrom(m.tempRedundant, s, Len(s) - Len(m.todo))
    BY RestAll, TakenNone, Zenon
  <2>15. Offers(m, r, s)
    BY <2>9, <2>11, <2>12, <2>13, <2>14, Zenon DEF Offers
  <2>16. Turns(m) BY DEF Turns, Adding
  <2>17. m.pc \in Busy /\ m.pc # "scan" /\ m.pc # "promote" BY DEF Busy
  <2>18. HolderInv(m, r, s)
    BY <2>15, <2>16, <2>17, Zenon DEF HolderInv
  <2> QED BY <2>18 DEF m, r, s
<1>MovedInv.
    ASSUME ListInv, NEW pc \in Adding, mrl.pc \in Offering, mrl.todo # <<>>,
           ~mrl.isRedundancySatisfied, mrl' = [mrl EXCEPT !.pc = pc],
           UNCHANGED <<m_redundantEndpoints, m_nonredundantEndpoints>>
    PROVE  ListInv'
  <2> USE <1>MovedInv
  <2> DEFINE m == mrl'
             r == m_redundantEndpoints
             n == m_nonredundantEndpoints
  <2>.  mrl.pc # "closed" /\ mrl.pc # "scan" /\ mrl.pc # "promote" /\ mrl.pc \in Busy
        /\ pc \in {"join", "start", "recover", "flag", "wait"}
        /\ pc \in Offering /\ pc \in Busy /\ pc # "scan" /\ pc # "promote"
    BY DEF Offering, Adding, Busy
  <2>.  /\ r \in Seq(Endpoints) /\ n \in Seq(Endpoints) /\ mrl \in Holders
        /\ Turns(mrl) /\ Partition(r, n) /\ Within(Len(r)) /\ Offers(mrl, r, n)
        /\ mrl.isPrimaryAtBack => Len(mrl.tempNonredundant) = Len(r)
    BY Zenon DEF ListInv, HolderInv
  <2>3. m = [mrl EXCEPT !.pc = pc] OBVIOUS
  <2> HIDE DEF m
  <2>.  /\ m \in Holders /\ m.pc = pc /\ m.todo = mrl.todo
        /\ m.secondaryCount = mrl.secondaryCount
        /\ m.isPrimaryConnected = mrl.isPrimaryConnected
        /\ m.isRedundancySatisfied = mrl.isRedundancySatisfied
        /\ m.isPrimaryAtBack = mrl.isPrimaryAtBack
        /\ m.tempRedundant = mrl.tempRedundant
        /\ m.tempNonredundant = mrl.tempNonredundant
    BY <2>3, MovedHolder, Zenon
  <2>5. Offers(m, r, n)
    BY Zenon DEF Offers, Total, Primaries, Counts
  <2>6. Turns(m) BY Zenon DEF Turns
  <2>7. HolderInv(m, r, n) BY <2>5, <2>6, Zenon DEF HolderInv
  <2> QED BY <2>7 DEF ListInv, m
<1>OfferEndsInv.
    ASSUME ListInv, OfferEnds
    PROVE  ListInv'
  <2> USE <1>OfferEndsInv
  <2> DEFINE m == mrl'
             r == m_redundantEndpoints
             n == m_nonredundantEndpoints
  <2>1. /\ mrl.pc = "offer" /\ m = [mrl EXCEPT !.pc = "promote", !.todo = <<>>]
        /\ r' = r /\ n' = n
    BY DEF OfferEnds, Ends, lists
  <2>2. /\ r \in Seq(Endpoints) /\ n \in Seq(Endpoints) /\ mrl \in Holders
        /\ Turns(mrl) /\ Partition(r, n) /\ Within(Len(r)) /\ Offers(mrl, r, n)
        /\ mrl.isPrimaryAtBack => Len(mrl.tempNonredundant) = Len(r)
        /\ mrl.isRedundancySatisfied => mrl.isPrimaryConnected
    BY <2>1 DEF ListInv, HolderInv, Offering
  <2> HIDE DEF m
  <2>.  /\ m \in Holders /\ m.pc = "promote"
        /\ m.isPrimaryConnected = mrl.isPrimaryConnected
        /\ m.isRedundancySatisfied = mrl.isRedundancySatisfied
        /\ m.isPrimaryAtBack = mrl.isPrimaryAtBack
        /\ m.tempRedundant = mrl.tempRedundant
        /\ m.tempNonredundant = mrl.tempNonredundant
    <3> DEFINE t == <<>>
    <3>1. t \in Seq(Endpoints) OBVIOUS
    <3>2. m = [mrl EXCEPT !.pc = "promote", !.todo = t] BY <2>1
    <3> HIDE DEF t
    <3> QED BY <2>2, <3>1, <3>2, Zenon DEF Holders
  <2>.  /\ RestOf(mrl.todo, n) /\ TakenFrom(mrl.tempNonredundant, r, Len(r))
        /\ TakenFrom(mrl.tempRedundant, n, Len(n) - Len(mrl.todo))
        /\ Total(mrl, r) = mrl.secondaryCount + Primaries(mrl)
        /\ ~mrl.isPrimaryConnected => Len(mrl.tempNonredundant) = Len(r)
        /\ Counts(mrl, r) /\ Total(m, r) = Total(mrl, r)
    BY <2>2, Zenon DEF Offers, Total
  <2>5. TakenFrom(m.tempRedundant, n, Len(n))
    <3>1. /\ mrl.todo \in Seq(Endpoints) /\ Len(mrl.todo) <= Len(n)
          /\ Len(mrl.todo) \in Nat /\ Len(n) \in Nat
      BY <2>2, HolderTypes DEF RestOf
    <3>2. \A j \in 1..(Len(n) - Len(mrl.todo)) : j \in 1..Len(n) BY <3>1
    <3> QED BY <3>2, Zenon DEF TakenFrom
  <2>6. m.isPrimaryConnected => Total(m, r) > 0
    <3>1. m.isPrimaryConnected => Primaries(mrl) = 1
      BY Zenon DEF Primaries
    <3>2. mrl.secondaryCount \in Nat BY <2>2, HolderTypes
    <3> QED BY <3>1, <3>2
  <2>7. Within(Total(m, r)) BY Zenon DEF Within, Counts
  <2>8. Promoting(m, r, n)
    BY <2>5, <2>6, <2>7, Zenon DEF Promoting
  <2>9. Turns(m) BY <2>2 DEF Turns, Adding
  <2>10. HolderInv(m, r, n)
    BY <2>2, <2>8, <2>9 DEF HolderInv, Offering, Adding, Busy
  <2> QED BY <2>1, <2>10 DEF ListInv, m
<1>PromoteInv.
    ASSUME ListInv, Promote
    PROVE  ListInv'
  <2> USE <1>PromoteInv
  <2> DEFINE m == mrl'
             r == m_redundantEndpoints
             n == m_nonredundantEndpoints
             tr == mrl.tempRedundant
  <2>.  /\ mrl.pc = "promote" /\ ~mrl.isPrimaryConnected /\ tr # <<>>
        /\ \/ m = [mrl EXCEPT !.isPrimaryConnected = TRUE, !.isPrimaryAtBack = TRUE]
           \/ m = [mrl EXCEPT !.tempRedundant = Front(@)]
        /\ r' = r /\ n' = n
    BY DEF Promote, Promotes, lists
  <2>.  /\ r \in Seq(Endpoints) /\ n \in Seq(Endpoints) /\ mrl \in Holders
        /\ Turns(mrl) /\ Partition(r, n) /\ Within(Len(r)) /\ Promoting(mrl, r, n)
        /\ mrl.isRedundancySatisfied => mrl.isPrimaryConnected
    BY DEF ListInv, HolderInv
  <2>.  /\ TakenFrom(mrl.tempNonredundant, r, Len(r)) /\ TakenFrom(tr, n, Len(n))
        /\ Len(mrl.tempNonredundant) = Len(r) /\ Within(Total(mrl, r))
    BY Zenon DEF Promoting
  <2>.  /\ tr \in Seq(Endpoints) /\ Len(r) \in Nat /\ Len(tr) \in Nat
        /\ Len(tr) > 0
    BY HolderTypes
  <2>5. ~mrl.isPrimaryAtBack BY DEF Turns
  <2> HIDE DEF m
  <2>6. CASE m = [mrl EXCEPT !.isPrimaryConnected = TRUE, !.isPrimaryAtBack = TRUE]
    <3>.  /\ m \in Holders /\ m.pc = "promote" /\ m.isPrimaryConnected
          /\ m.isRedundancySatisfied = mrl.isRedundancySatisfied
          /\ m.isPrimaryAtBack /\ m.tempRedundant = tr
          /\ m.tempNonredundant = mrl.tempNonredundant
      BY <2>6, <1>PromotedBackHolder, Zenon
    <3>2. Total(m, r) = Total(mrl, r) BY Zenon DEF Total
    <3>3. Total(m, r) > 0
      <4>1. Total(m, r) = (Len(r) - Len(r)) + Len(tr)
        BY Zenon DEF Total
      <4> HIDE DEF r, tr
      <4> QED BY <4>1
    <3>4. Promoting(m, r, n)
      BY <3>2, <3>3, Zenon DEF Promoting
    <3>5. Turns(m) BY DEF Turns, Adding
    <3>6. HolderInv(m, r, n)
      BY <3>4, <3>5 DEF HolderInv, Offering, Adding, Busy
    <3> QED BY <3>6 DEF ListInv, m
  <2>7. CASE m = [mrl EXCEPT !.tempRedundant = Front(@)]
    <3>.  /\ m \in Holders /\ m.pc = "promote" /\ SameCounts(m, mrl)
          /\ m.tempRedundant = Front(tr)
          /\ m.tempNonredundant = mrl.tempNonredundant
      BY <2>7, <1>RefusedHolder, Zenon
    <3>.  /\ ~m.isPrimaryConnected /\ ~m.isPrimaryAtBack
          /\ ~m.isRedundancySatisfied
      BY <2>5, Zenon DEF SameCounts
    <3>3. TakenFrom(m.tempRedundant, n, Len(n))
      BY <1>TakenFront, Zenon
    <3>4. Len(m.tempRedundant) = Len(tr) - 1
      BY FrontLast, Zenon
    <3>5. Within(Total(m, r))
      <4>1. Total(m, r) = Total(mrl, r) - 1 /\ Total(mrl, r) \in Int
        <5>1. /\ Total(m, r) = (Len(r) - Len(r)) + (Len(tr) - 1)
              /\ Total(mrl, r) = (Len(r) - Len(r)) + Len(tr)
          BY <3>4, Zenon DEF Total
        <5> HIDE DEF r, tr
        <5> QED BY <5>1
      <4> QED BY <4>1, LevelType DEF Within
    <3>6. Promoting(m, r, n)
      BY <3>3, <3>5, Zenon DEF Promoting
    <3>7. Turns(m) BY DEF Turns, Adding
    <3>8. HolderInv(m, r, n)
      BY <3>6, <3>7 DEF HolderInv, Offering, Adding, Busy
    <3> QED BY <3>8 DEF ListInv, m
  <2> QED BY <2>6, <2>7, Zenon
<1>BeginInv.
    ASSUME ListInv, mrl.pc = "idle", mrl' = Begun(FALSE), UNCHANGED sameLists
    PROVE  ListInv'
  <2> USE <1>BeginInv
  <2>1. mrl.pc # "closed" OBVIOUS
  <2>2. HolderInv(Begun(FALSE), m_redundantEndpoints, m_nonredundantEndpoints)
    BY <2>1, ListFacts, BegunInv, Zenon
  <2> QED BY <2>2, Zenon DEF ListInv, sameLists
<1>OfferNone.
    ASSUME ListInv, mrl.pc \in Offering, mrl.todo # <<>>,
           ~mrl.isRedundancySatisfied, UNCHANGED sameLists, Offered(mrl'),
           mrl'.tempRedundant = mrl.tempRedundant, SameCounts(mrl', mrl)
    PROVE  ListInv'
  <2> USE <1>OfferNone
  <2> DEFINE m == mrl'
  <2>1. /\ m \in Holders /\ m.pc = "offer" /\ m.todo = Tail(mrl.todo)
        /\ m.tempNonredundant = mrl.tempNonredundant
    BY Zenon DEF Offered
  <2>2. m.tempRedundant = mrl.tempRedundant /\ SameCounts(m, mrl) OBVIOUS
  <2>3. mrl' = m OBVIOUS
  <2> HIDE DEF m
  <2>4. HolderInv(m, m_redundantEndpoints, m_nonredundantEndpoints)
    BY <2>1, <2>2, OfferTurn, Zenon
  <2> QED BY <2>3, <2>4, Zenon DEF ListInv, sameLists
<1>FailedInv.
    ASSUME ListInv, mrl.pc \in Adding \/ Goes("offer"), UNCHANGED sameLists,
           NEW fatal \in BOOLEAN, mrl' = Failed(fatal)
    PROVE  ListInv'
  <2> USE <1>FailedInv
  <2>1. /\ mrl \in Holders /\ mrl.pc \in Offering /\ mrl.todo # <<>>
        /\ ~mrl.isRedundancySatisfied
    BY OfferedFacts, Zenon
  <2>2. /\ mrl' \in Holders /\ mrl'.pc = "offer" /\ mrl'.todo = Tail(mrl.todo)
        /\ SameCounts(mrl', mrl) /\ mrl'.tempRedundant = mrl.tempRedundant
        /\ mrl'.tempNonredundant = mrl.tempNonredundant
    <3>1. /\ Failed(fatal) \in Holders /\ Failed(fatal).pc = "offer"
          /\ Failed(fatal).todo = Tail(mrl.todo)
          /\ SameCounts(Failed(fatal), mrl)
          /\ Failed(fatal).tempRedundant = mrl.tempRedundant
          /\ Failed(fatal).tempNonredundant = mrl.tempNonredundant
      BY <2>1, FailedHolder, Zenon
    <3> QED BY <3>1, Zenon
  <2> QED BY <2>1, <2>2, <1>OfferNone, Zenon DEF Offered
<1>SkipInv.
    ASSUME ListInv, Skip
    PROVE  ListInv'
  <2> USE <1>SkipInv
  <2>.  Goes("offer") /\ mrl' = Following /\ UNCHANGED sameLists
    BY DEF Skip, lists, sameLists
  <2>1. /\ mrl \in Holders /\ mrl.pc \in Offering /\ mrl.todo # <<>>
        /\ ~mrl.isRedundancySatisfied /\ mrl.pc = "offer"
    BY OfferedFacts, Zenon DEF Goes
  <2>2. /\ mrl' \in Holders /\ mrl'.pc = mrl.pc /\ mrl'.todo = Tail(mrl.todo)
        /\ SameCounts(mrl', mrl) /\ mrl'.tempRedundant = mrl.tempRedundant
        /\ mrl'.tempNonredundant = mrl.tempNonredundant
    <3>1. /\ Following \in Holders /\ Following.pc = mrl.pc
          /\ Following.todo = Tail(mrl.todo) /\ SameCounts(Following, mrl)
          /\ Following.tempRedundant = mrl.tempRedundant
          /\ Following.tempNonredundant = mrl.tempNonredundant
      BY <2>1, FollowingHolder, Zenon
    <3> QED BY <3>1, Zenon
  <2> QED BY <2>1, <2>2, <1>OfferNone, Zenon DEF Offered
<1>OfferInv.
    ASSUME ListInv, Offer
    PROVE  ListInv'
  <2> USE <1>OfferInv
  <2>1. CASE Skip BY <2>1, <1>SkipInv
  <2>.  CASE RegisterFails
    <3>1. Goes("offer") /\ UNCHANGED sameLists
      BY DEF RegisterFails, lists, sameLists
    <3>2. PICK fatal \in BOOLEAN : mrl' = Failed(fatal)
      BY Zenon DEF RegisterFails
    <3> QED BY <3>1, <3>2, <1>FailedInv, Zenon
  <2>.  CASE Register
    <3>1. Goes("offer") /\ UNCHANGED sameLists
      BY DEF Register, lists, sameLists
    <3>2. PICK pc \in Adding : mrl' = [mrl EXCEPT !.pc = pc]
      BY DEF Register, Adding
    <3>3. /\ mrl.pc \in Offering /\ mrl.todo # <<>> /\ ~mrl.isRedundancySatisfied
      BY <3>1, OfferedFacts, Zenon
    <3> QED BY <3>1, <3>2, <3>3, <1>MovedInv, Zenon DEF sameLists
  <2>.  CASE Join \/ Started
    <3>1. mrl.pc \in Adding /\ UNCHANGED sameLists
      BY DEF Join, Started, lists, sameLists, Adding
    <3>2. PICK pc \in Adding : mrl' = [mrl EXCEPT !.pc = pc]
      BY DEF Join, Started, Adding
    <3>3. /\ mrl.pc \in Offering /\ mrl.todo # <<>> /\ ~mrl.isRedundancySatisfied
      BY <3>1, OfferedFacts, Zenon
    <3> QED BY <3>1, <3>2, <3>3, <1>MovedInv, Zenon DEF sameLists
  <2>5. CASE Recover BY <2>5, RecoverInv
  <2>.  CASE RecoverFails \/ RecoverCqsFails
    <3>1. mrl.pc \in Adding /\ UNCHANGED sameLists
      BY DEF RecoverFails, RecoverCqsFails, lists, sameLists, Adding
    <3>2. PICK fatal \in BOOLEAN : mrl' = Failed(fatal)
      BY DEF RecoverFails, RecoverCqsFails
    <3> QED BY <3>1, <3>2, <1>FailedInv, Zenon
  <2>7. CASE OfferEnds BY <2>7, <1>OfferEndsInv
  <2> QED BY <2>1, <2>5, <2>7, Zenon DEF Offer
(* The holder has nothing to do with the lists.                            *)
<1>ResumesInv.
    ASSUME ListInv, UNCHANGED sameLists, mrl.pc # "closed",
           mrl' \in Holders, Turns(mrl'), mrl'.pc \notin Busy, Rests(mrl'),
           ~mrl'.isRedundancySatisfied, ~mrl'.isPrimaryAtBack
    PROVE  ListInv'
  <2> USE <1>ResumesInv
  <2>1. /\ m_redundantEndpoints \in Seq(Endpoints)
        /\ m_nonredundantEndpoints \in Seq(Endpoints)
        /\ Partition(m_redundantEndpoints, m_nonredundantEndpoints)
        /\ Within(Len(m_redundantEndpoints))
    BY ListFacts, Zenon
  <2> DEFINE m == mrl'
  <2>2. mrl' = m OBVIOUS
  <2>3. /\ m \in Holders /\ Turns(m) /\ m.pc \notin Busy /\ Rests(m)
        /\ ~m.isRedundancySatisfied /\ ~m.isPrimaryAtBack
    OBVIOUS
  <2> HIDE DEF m
  <2>4. HolderInv(m, m_redundantEndpoints, m_nonredundantEndpoints)
    BY <2>1, <2>3, RestsInv, Zenon
  <2> QED BY <2>2, <2>4, Zenon DEF ListInv, sameLists
<1>FreshInv.
    ASSUME ListInv, UNCHANGED sameLists, mrl.pc # "closed",
           NEW pc \in {"leave", "stop"}, NEW todo \in Seq(Endpoints),
           mrl' = Fresh(pc, todo)
    PROVE  ListInv'
  <2> USE <1>FreshInv
  <2>1. /\ mrl' \in Holders /\ mrl'.pc = pc
        /\ ~mrl'.isPrimaryConnected /\ ~mrl'.isRedundancySatisfied
        /\ ~mrl'.isPrimaryAtBack /\ mrl'.tempRedundant = <<>>
        /\ mrl'.tempNonredundant = <<>>
    <3>1. pc \in {"leave", "stop", "closed"} OBVIOUS
    <3>2. /\ Fresh(pc, todo) \in Holders /\ Fresh(pc, todo).pc = pc
          /\ ~Fresh(pc, todo).isPrimaryConnected
          /\ ~Fresh(pc, todo).isRedundancySatisfied
          /\ ~Fresh(pc, todo).isPrimaryAtBack
          /\ Fresh(pc, todo).tempRedundant = <<>>
          /\ Fresh(pc, todo).tempNonredundant = <<>>
      BY <3>1, FreshHolder
    <3> QED BY <3>2, Zenon
  <2>2. pc \notin Busy /\ pc \notin Adding \cup {"flag", "wait"} /\ pc \notin Adding
    BY DEF Busy, Adding
  <2>3. Turns(mrl') /\ Rests(mrl') /\ mrl'.pc \notin Busy
    BY <2>1, <2>2, Zenon DEF Turns, Rests
  <2> QED BY <2>1, <2>3, <1>ResumesInv, Zenon
(* Steps within leave, stop, flag, clean and wait.                         *)
<1>WalkInv.
    ASSUME ListInv, UNCHANGED sameLists, mrl.pc \notin Busy \cup {"closed"},
           mrl' \in Holders, mrl'.pc \notin Busy,
           mrl'.pc \in {"flag", "wait"} => mrl'.todo # <<>>,
           SameCounts(mrl', mrl), mrl'.tempRedundant = mrl.tempRedundant,
           mrl'.tempNonredundant = mrl.tempNonredundant
    PROVE  ListInv'
  <2> USE <1>WalkInv
  <2>1. /\ Rests(mrl) /\ ~mrl.isRedundancySatisfied /\ ~mrl.isPrimaryAtBack
    BY RestFacts, Zenon
  <2>2. /\ Rests(mrl') /\ ~mrl'.isRedundancySatisfied /\ ~mrl'.isPrimaryAtBack
    BY <2>1, Zenon DEF Rests, SameCounts
  <2>3. mrl'.pc \notin Adding BY DEF Adding, Busy
  <2>4. Turns(mrl') BY <2>2, <2>3, Zenon DEF Turns
  <2>5. mrl.pc # "closed" BY Zenon
  <2> QED BY <2>2, <2>4, <2>5, <1>ResumesInv, Zenon
<1>LeaveInv.
    ASSUME ListInv, Leave
    PROVE  ListInv'
  <2> USE <1>LeaveInv
  <2>.  mrl.pc = "leave" /\ UNCHANGED sameLists BY DEF Leave, lists, sameLists
  <2>2. mrl.pc \notin Busy \cup {"closed"} /\ mrl.pc # "closed"
        /\ mrl.pc \notin {"flag", "wait"}
    BY DEF Busy
  <2>3. CASE mrl.todo = <<>>
    <3>1. mrl' = Idle BY <2>3, Zenon DEF Leave
    <3>2. /\ mrl' \in Holders /\ mrl'.pc = "idle" /\ ~mrl'.isPrimaryConnected
          /\ ~mrl'.isRedundancySatisfied /\ ~mrl'.isPrimaryAtBack
          /\ mrl'.tempRedundant = <<>> /\ mrl'.tempNonredundant = <<>>
      BY <3>1, IdleHolder, Zenon
    <3>3. mrl'.pc \notin Busy /\ Turns(mrl') /\ Rests(mrl')
      BY <3>2 DEF Busy, Turns, Rests, Adding
    <3> QED BY <2>2, <3>2, <3>3, <1>ResumesInv, Zenon
  <2>.  CASE mrl.todo # <<>>
    <3>1. mrl' = Following /\ mrl \in Holders
      BY ListFacts, Zenon DEF Leave
    <3>2. /\ mrl' \in Holders /\ mrl'.pc = mrl.pc /\ SameCounts(mrl', mrl)
          /\ mrl'.tempRedundant = mrl.tempRedundant
          /\ mrl'.tempNonredundant = mrl.tempNonredundant
      <4>1. /\ Following \in Holders /\ Following.pc = mrl.pc
            /\ SameCounts(Following, mrl)
            /\ Following.tempRedundant = mrl.tempRedundant
            /\ Following.tempNonredundant = mrl.tempNonredundant
        BY <3>1, FollowingHolder, Zenon
      <4> QED BY <3>1, <4>1, Zenon
    <3> QED BY <2>2, <3>2, <1>WalkInv, Zenon
  <2> QED BY <2>3, Zenon
<1>DestroyInv.
    ASSUME ListInv, DestroyStep
    PROVE  ListInv'
  <2> USE <1>DestroyInv
  <2>1. CASE StopChannel \/ LockToClean
    <3>.  /\ mrl.pc \in {"stop", "clean"} /\ mrl.todo # <<>> /\ UNCHANGED sameLists
          /\ \E pc \in {"flag", "wait"} : mrl' = [mrl EXCEPT !.pc = pc]
      BY <2>1 DEF StopChannel, LockToClean, Goes, lists, sameLists
    <3>2. PICK pc \in {"flag", "wait"} : mrl' = [mrl EXCEPT !.pc = pc] OBVIOUS
    <3>3. /\ mrl.pc \notin Busy \cup {"closed"} /\ pc \notin Busy
          /\ pc \in {"join", "start", "recover", "flag", "wait"}
      BY DEF Busy
    <3>4. mrl \in Holders BY ListFacts, Zenon
    <3>5. /\ mrl' \in Holders /\ mrl'.pc = pc /\ mrl'.todo = mrl.todo
          /\ SameCounts(mrl', mrl)
          /\ mrl'.tempRedundant = mrl.tempRedundant
          /\ mrl'.tempNonredundant = mrl.tempNonredundant
      BY <3>2, <3>3, <3>4, MovedHolder, Zenon DEF SameCounts
    <3> QED BY <3>3, <3>5, <1>WalkInv, Zenon
  <2>2. CASE StopReceiver \/ Cleaned
    <3>.  /\ mrl.pc \in {"flag", "wait"} /\ UNCHANGED sameLists
          /\ \E pc \in {"stop", "clean"} : mrl' = [Following EXCEPT !.pc = pc]
      BY <2>2 DEF StopReceiver, Cleaned, lists, sameLists
    <3>2. PICK pc \in {"stop", "clean"} : mrl' = [Following EXCEPT !.pc = pc]
      OBVIOUS
    <3>3. /\ mrl.pc \notin Busy \cup {"closed"} /\ pc \notin Busy
          /\ pc \notin {"flag", "wait"}
      BY DEF Busy
    <3>4. mrl \in Holders /\ mrl.todo # <<>> BY <3>3, RestFacts, Zenon
    <3>5. /\ mrl' \in Holders /\ mrl'.pc = pc /\ SameCounts(mrl', mrl)
          /\ mrl'.tempRedundant = mrl.tempRedundant
          /\ mrl'.tempNonredundant = mrl.tempNonredundant
      BY <3>2, <3>4, StoppedHolder, Zenon
    <3> QED BY <3>3, <3>5, <1>WalkInv, Zenon
  <2>3. CASE StopEnds
    <3> DEFINE r == m_redundantEndpoints
               m == mrl'
    <3>.  /\ mrl.pc = "stop" /\ UNCHANGED sameLists
          /\ m = [mrl EXCEPT !.pc = "clean", !.todo = r]
      BY <2>3 DEF StopEnds, Ends, lists, sameLists
    <3>2. mrl \in Holders /\ r \in Seq(Endpoints) BY ListFacts, Zenon
    <3>m. mrl' = m OBVIOUS
    <3> HIDE DEF r, m
    <3>3. /\ m \in Holders /\ m.pc = "clean" /\ SameCounts(m, mrl)
          /\ m.tempRedundant = mrl.tempRedundant
          /\ m.tempNonredundant = mrl.tempNonredundant
      BY <3>2, Zenon DEF Holders, SameCounts
    <3>4. /\ mrl.pc \notin Busy \cup {"closed"} /\ m.pc \notin Busy
          /\ m.pc \notin {"flag", "wait"}
      BY <3>3 DEF Busy
    <3> QED BY <3>m, <3>3, <3>4, <1>WalkInv, Zenon
  <2>4. CASE close
    <3> DEFINE e == <<>>
               m == Fresh("closed", e)
    <3>1. /\ mrl' = m /\ m_redundantEndpoints' = e /\ m_nonredundantEndpoints' = e
      BY <2>4, ClosedHolder, Zenon DEF close
    <3>2. e \in Seq(Endpoints) OBVIOUS
    <3> HIDE DEF e
    <3>3. /\ m \in Holders /\ m.pc = "closed" /\ ~m.isPrimaryConnected
          /\ ~m.isRedundancySatisfied /\ ~m.isPrimaryAtBack
          /\ m.tempRedundant = <<>> /\ m.tempNonredundant = <<>>
      BY <3>2, FreshHolder, Zenon
    <3> HIDE DEF m
    <3>4. m.pc \notin Busy /\ Turns(m) /\ Rests(m)
      BY <3>3 DEF Busy, Turns, Rests, Adding
    <3>5. HolderInv(m, e, e) BY <3>2, <3>3, <3>4, RestsInv, Zenon
    <3> QED BY <3>1, <3>5, Zenon DEF ListInv
  <2> QED BY <2>1, <2>2, <2>3, <2>4, Zenon DEF DestroyStep
<1> SUFFICES ASSUME TypeOK, ListInv, [Next]_vars PROVE ListInv' OBVIOUS
<1>1. CASE redundancy \/ maintainAfterError
  <2>1. mrl.pc = "idle" /\ mrl' = Begun(FALSE) /\ UNCHANGED sameLists
    BY <1>1, Zenon DEF redundancy, maintainAfterError, lists, sameLists
  <2> QED BY <2>1, <1>BeginInv, Zenon
<1>2. CASE Scan
  <2>1. CASE Select BY <2>1, <1>SelectInv, Zenon DEF ListInv
  <2> QED BY <1>2, <2>1, ScanFirstInv, ScanPromoteInv, ScanSecondaryInv, Zenon
             DEF Scan
<1>3. CASE maintainRedundancyLevel
  BY <1>2, <1>3, <1>OfferInv, <1>PromoteInv, RearrangeInv, <1>LeaveInv, Zenon
     DEF maintainRedundancyLevel
<1>5. ASSUME NEW e \in Endpoints, PingFails(e) PROVE ListInv'
  <2>1. mrl.pc # "closed" /\ UNCHANGED sameLists
    BY <1>5 DEF PingFails, lists, sameLists
  <2>2. mrl' = Fresh("leave", <<e>>)
    BY <1>5, Zenon DEF PingFails, Fresh
  <2> QED BY <2>1, <2>2, PingedList, <1>FreshInv, Zenon
<1>.  CASE destroy
  <2>1. mrl.pc # "closed" /\ UNCHANGED sameLists
    BY DEF destroy, lists, sameLists
  <2>2. mrl' = Fresh("stop", m_redundantEndpoints)
    BY Zenon DEF destroy, Fresh
  <2>3. m_redundantEndpoints \in Seq(Endpoints) BY DEF TypeOK
  <2> QED BY <2>1, <2>2, <2>3, <1>FreshInv, Zenon
<1>6. ASSUME UNCHANGED <<mrl, sameLists>> PROVE ListInv'
  BY <1>6 DEF ListInv, sameLists
<1>7. CASE Monitor BY <1>6, <1>7 DEF Monitor, Untouched, lists, sameLists
<1>8. ASSUME NEW e \in Endpoints, ReceiverStep(e) \/ ServerStep(e)
      PROVE  ListInv'
  <2>1. UNCHANGED <<mrl, sameLists>>
    BY <1>8 DEF ReceiverStep, ServerStep, ReceiveFails, CloseChannel, Quit,
                Crash, Restart, Break, RequestFails, Reconnect,
                Untouched, lists, sameLists
  <2> QED BY <1>6, <2>1
<1>9. CASE UNCHANGED vars BY <1>6, <1>9 DEF vars, lists, sameLists
<1> QED BY <1>1, <1>3, <1>5, <1>7, <1>8, <1>9, <1>DestroyInv, Zenon DEF Next

-----------------------------------------------------------------------------
(* The types of the other variables.                                       *)

StatusTypes == connected \in [Endpoints -> BOOLEAN] /\ released \in BOOLEAN

ListenerTypes ==
  listeners \in [Endpoints -> Nat] /\ receiver \in [Endpoints -> Receivers]

EndpointTypes ==
  /\ StatusTypes /\ ListenerTypes /\ channel \in [Endpoints -> Channels]
  /\ refused \in 0..MaxRefused

OtherTypes ==
  /\ m_allEndpointsDisconnected \in BOOLEAN /\ up \in [Endpoints -> BOOLEAN]
  /\ overtaken \subseteq Endpoints /\ faults \in 0..MaxFaults

LEMMA TypesSplit ==
  TypeOK <=> /\ m_redundantEndpoints \in Seq(Endpoints)
             /\ m_nonredundantEndpoints \in Seq(Endpoints)
             /\ mrl \in Holders /\ EndpointTypes /\ OtherTypes
BY Zenon DEF TypeOK, EndpointTypes, StatusTypes, ListenerTypes, OtherTypes

LEMMA TurnType ==
  ASSUME ListInv, mrl.todo # <<>>
  PROVE  ep \in Endpoints
<1>1. mrl \in Holders BY ListFacts, Zenon
<1> QED BY <1>1, FollowingHolder, Zenon

LEMMA AddingTurn ==
  ASSUME ListInv, mrl.pc \in {"join", "start", "recover", "flag", "wait"}
  PROVE  mrl.todo # <<>> /\ ep \in Endpoints
<1>1. Turns(mrl) BY ListFacts, Zenon
<1>2. mrl.pc \in Adding \cup {"flag", "wait"} BY DEF Adding
<1>3. mrl.todo # <<>> BY <1>1, <1>2, Zenon DEF Turns
<1> QED BY <1>3, TurnType, Zenon

TypesInv == TypeOK /\ ListInv

LEMMA TypesInvHolds ==
  Spec => []TypesInv
<1>ListInvInit.
    ASSUME Init
    PROVE  ListInv
  <2> USE <1>ListInvInit
  <2> DEFINE r == m_redundantEndpoints
             n == m_nonredundantEndpoints
  <2>.  r = <<>> /\ n \in SetToSeqs(Endpoints) /\ mrl = Begun(TRUE) BY DEF Init
  <2>.  /\ r \in Seq(Endpoints) /\ IsInjective(r) /\ Range(r) = {} /\ Len(r) = 0
    <3>1. r \in Seq(Endpoints) /\ DOMAIN r = {} /\ Len(r) = 0 OBVIOUS
    <3> QED BY <3>1, Zenon DEF IsInjective, Range
  <2>3. n \in Seq(Endpoints) /\ IsInjective(n) /\ Range(n) = Endpoints
    BY OrderFacts, Zenon
  <2>4. Partition(r, n) BY <2>3 DEF Partition
  <2>5. Within(Len(r)) BY LevelType DEF Within
  <2>6. HolderInv(Begun(TRUE), r, n) BY <2>3, <2>4, <2>5, BegunInv, Zenon
  <2> QED BY <2>6, Zenon DEF ListInv
<1>DisconnectTypes.
    ASSUME StatusTypes, NEW e \in Endpoints, Disconnect(e)
    PROVE  StatusTypes'
  <2> USE <1>DisconnectTypes
  <2> QED BY DEF StatusTypes, Disconnect
<1>RefusesTypes.
    ASSUME refused \in 0..MaxRefused, NEW e, Refuses(e)
    PROVE  refused' \in 0..MaxRefused
  <2> USE <1>RefusesTypes
  <2>1. MaxRefused \in Nat BY RedundancyAssumption
  <2> QED BY <2>1 DEF Refuses
<1>RequestErrorTypes.
    ASSUME StatusTypes, refused \in 0..MaxRefused, NEW e \in Endpoints,
           NEW fatal, RequestError(e, fatal)
    PROVE  StatusTypes' /\ refused' \in 0..MaxRefused
  <2> USE <1>RequestErrorTypes
  <2>1. /\ Disconnect(e) \/ UNCHANGED status
        /\ Refuses(e) \/ UNCHANGED refused
    BY Zenon DEF RequestError
  <2>2. StatusTypes'
    <3>1. CASE UNCHANGED status BY <3>1 DEF StatusTypes, status
    <3> QED BY <2>1, <3>1, <1>DisconnectTypes, Zenon
  <2>3. refused' \in 0..MaxRefused BY <2>1, <1>RefusesTypes
  <2> QED BY <2>2, <2>3
<1>unregisterDMTypes.
    ASSUME ListenerTypes, NEW e \in Endpoints, unregisterDM(e)
    PROVE  ListenerTypes'
  <2> USE <1>unregisterDMTypes
  <2>.  listeners \in [Endpoints -> Nat] /\ receiver \in [Endpoints -> Receivers]
    BY DEF ListenerTypes
  <2>2. listeners' \in [Endpoints -> Nat] BY DEF unregisterDM
  <2> DEFINE b == receiver[e].isRunning /\ listeners[e] # 1
             x == [receiver[e] EXCEPT !.isRunning = b]
  <2>3. receiver' = [receiver EXCEPT ![e] = x] BY DEF unregisterDM
  <2>4. b \in BOOLEAN /\ receiver[e] \in Receivers BY DEF Receivers
  <2> HIDE DEF b
  <2>5. x \in Receivers BY <2>4 DEF Receivers
  <2> HIDE DEF x
  <2>6. receiver' \in [Endpoints -> Receivers] BY <2>3, <2>5
  <2> QED BY <2>2, <2>6 DEF ListenerTypes
<1>MadeTypes.
    ASSUME channel \in [Endpoints -> Channels], NEW e \in Endpoints
    PROVE  MadePrimary(e) \in [Endpoints -> Channels]
           /\ Broken(e) \in [Endpoints -> Channels]
  <2> USE <1>MadeTypes
  <2> QED BY DEF MadePrimary, Broken, Channels
<1>MakePrimaryTypes.
    ASSUME EndpointTypes, NEW e \in Endpoints, NEW ok, sendMakePrimaryMesg(e, ok),
           UNCHANGED <<listeners, receiver>>
    PROVE  EndpointTypes'
  <2> USE <1>MakePrimaryTypes
  <2>.  /\ StatusTypes /\ ListenerTypes /\ channel \in [Endpoints -> Channels]
        /\ refused \in 0..MaxRefused
    BY DEF EndpointTypes
  <2>1. channel' = channel \/ channel' = MadePrimary(e)
    BY Zenon DEF sendMakePrimaryMesg
  <2>2. RequestError(e, FALSE) \/ UNCHANGED <<status, refused>>
    BY Zenon DEF sendMakePrimaryMesg
  <2>3. channel' \in [Endpoints -> Channels] BY <2>1, <1>MadeTypes, Zenon
  <2>4. StatusTypes' /\ refused' \in 0..MaxRefused
    <3>1. CASE UNCHANGED <<status, refused>>
      BY <3>1 DEF StatusTypes, status
    <3> QED BY <2>2, <3>1, <1>RequestErrorTypes, Zenon
  <2>5. ListenerTypes' BY DEF ListenerTypes
  <2> QED BY <2>3, <2>4, <2>5, Zenon DEF EndpointTypes
(* The whole status of the endpoints: the steps of the holder.             *)
<1>HolderEndpointTypes.
    ASSUME EndpointTypes, ListInv, maintainRedundancyLevel
    PROVE  EndpointTypes'
  <2> USE <1>HolderEndpointTypes
  <2>.  /\ StatusTypes /\ ListenerTypes /\ channel \in [Endpoints -> Channels]
        /\ connected \in [Endpoints -> BOOLEAN] /\ released \in BOOLEAN
        /\ listeners \in [Endpoints -> Nat] /\ receiver \in [Endpoints -> Receivers]
        /\ refused \in 0..MaxRefused
    BY DEF EndpointTypes, StatusTypes, ListenerTypes
  <2>1. ASSUME UNCHANGED endpointVars PROVE EndpointTypes'
    BY <2>1 DEF EndpointTypes, StatusTypes, ListenerTypes, endpointVars, status
  <2>2. CASE ScanFirst \/ ScanSecondary \/ Select \/ Skip \/ Recover \/ OfferEnds
             \/ Rearrange
    BY <2>1, <2>2, Zenon DEF ScanFirst, ScanSecondary, Select, Skip, Recover, OfferEnds,
                      Rearrange
  <2>.  CASE ScanPromote
    <3>1. mrl.todo # <<>> BY Zenon DEF ScanPromote, Goes
    <3> QED BY <3>1, TurnType, <1>MakePrimaryTypes DEF ScanPromote
  <2>.  CASE RegisterFails
    <3>1. mrl.todo # <<>> BY Zenon DEF RegisterFails, Goes
    <3>2. ep \in Endpoints BY <3>1, TurnType, Zenon
    <3>3. connected' \in [Endpoints -> BOOLEAN] /\ UNCHANGED <<channel, released,
                                                              listeners, receiver>>
      BY <3>2 DEF RegisterFails
    <3>4. Refuses(ep) \/ UNCHANGED refused BY Zenon DEF RegisterFails
    <3>5. refused' \in 0..MaxRefused BY <3>4, <1>RefusesTypes
    <3> QED BY <3>3, <3>5 DEF EndpointTypes, StatusTypes, ListenerTypes
  <2>.  CASE Register
    <3>1. mrl.todo # <<>> BY Zenon DEF Register, Goes
    <3>.  ep \in Endpoints BY <3>1, TurnType, Zenon
    <3>3. /\ connected' \in [Endpoints -> BOOLEAN]
          /\ UNCHANGED <<released, receiver, refused>>
      BY DEF Register
    <3>4. channel' \in [Endpoints -> Channels]
      BY DEF Register, Channels
    <3>5. listeners' \in [Endpoints -> Nat] BY DEF Register
    <3> QED BY <3>3, <3>4, <3>5 DEF EndpointTypes, StatusTypes, ListenerTypes
  <2>.  CASE Join
    <3>1. ep \in Endpoints BY AddingTurn DEF Join
    <3>2. receiver' \in [Endpoints -> Receivers]
      BY <3>1 DEF Join, Receivers
    <3> QED BY <3>2 DEF Join, EndpointTypes, StatusTypes, ListenerTypes,
                                     status
  <2>.  CASE Started
    <3>1. ep \in Endpoints BY AddingTurn DEF Started
    <3>2. listeners' \in [Endpoints -> Nat] /\ connected' \in [Endpoints -> BOOLEAN]
      BY <3>1 DEF Started
    <3> QED BY <3>2 DEF Started, EndpointTypes, StatusTypes, ListenerTypes
  <2>.  CASE RecoverFails
    <3>1. ep \in Endpoints BY AddingTurn DEF RecoverFails
    <3>2. StatusTypes' /\ refused' \in 0..MaxRefused
      BY <3>1, <1>RequestErrorTypes, Zenon DEF RecoverFails
    <3>3. ListenerTypes' BY <3>1, <1>unregisterDMTypes, Zenon DEF RecoverFails
    <3> QED BY <3>2, <3>3 DEF RecoverFails, EndpointTypes
  <2>.  CASE RecoverCqsFails
    <3>1. ep \in Endpoints BY AddingTurn DEF RecoverCqsFails
    <3>2. StatusTypes' /\ refused' \in 0..MaxRefused
      BY <3>1, <1>RequestErrorTypes, Zenon DEF RecoverCqsFails
    <3> QED BY <3>2 DEF RecoverCqsFails, EndpointTypes, ListenerTypes
  <2>.   CASE Promote
    <3>1. mrl.tempRedundant # <<>> /\ mrl.tempRedundant \in Seq(Endpoints)
      <4>1. mrl \in Holders BY ListFacts, Zenon
      <4> QED BY <4>1, HolderTypes, Zenon DEF Promote, Promotes
    <3>2. Last(mrl.tempRedundant) \in Endpoints BY <3>1, FrontLast, Zenon
    <3> QED BY <3>2, <1>MakePrimaryTypes DEF Promote
  <2>.   CASE Leave
    <3>1. CASE mrl.todo = <<>>
      BY <2>1, <3>1 DEF Leave, endpointVars
    <3>2. CASE mrl.todo # <<>>
      <4>1. ListenerTypes'
        BY <3>2, TurnType, <1>unregisterDMTypes, Zenon DEF Leave
      <4> QED BY <4>1 DEF Leave, EndpointTypes, StatusTypes, status
    <3> QED BY <3>1, <3>2
  <2> QED BY <2>2, Zenon
             DEF maintainRedundancyLevel, Scan, Offer
<1>FaultTypes.
    ASSUME faults \in 0..MaxFaults, Fault \/ UNCHANGED faults
    PROVE  faults' \in 0..MaxFaults
  <2> USE <1>FaultTypes
  <2>1. MaxFaults \in Nat BY RedundancyAssumption
  <2> QED BY <2>1 DEF Fault
<1>EndpointTypesNext.
    ASSUME EndpointTypes, ListInv, [Next]_vars
    PROVE  EndpointTypes'
  <2> USE <1>EndpointTypesNext
  <2>.  /\ StatusTypes /\ ListenerTypes /\ channel \in [Endpoints -> Channels]
        /\ connected \in [Endpoints -> BOOLEAN] /\ released \in BOOLEAN
        /\ listeners \in [Endpoints -> Nat] /\ receiver \in [Endpoints -> Receivers]
        /\ refused \in 0..MaxRefused
    BY DEF EndpointTypes, StatusTypes, ListenerTypes
  <2>1. ASSUME UNCHANGED endpointVars PROVE EndpointTypes'
    BY <2>1 DEF EndpointTypes, StatusTypes, ListenerTypes, endpointVars, status
  <2>2. CASE redundancy \/ Monitor
    <3>1. /\ released' \in BOOLEAN
          /\ UNCHANGED <<channel, connected, listeners, receiver, refused>>
      BY <2>2, Zenon DEF redundancy, Monitor, Untouched
    <3> QED BY <3>1 DEF EndpointTypes, StatusTypes, ListenerTypes
  <2>3. CASE maintainAfterError \/ destroy \/ StopEnds \/ LockToClean \/ close
    BY <2>1, <2>3, Zenon DEF maintainAfterError, destroy, StopEnds, LockToClean,
                      close
  <2>.  CASE StopChannel
    <3>1. mrl.todo # <<>> BY Zenon DEF StopChannel, Goes
    <3>2. channel' \in [Endpoints -> Channels]
      BY <3>1, TurnType, <1>MadeTypes, Zenon DEF StopChannel
    <3> QED BY <3>2 DEF StopChannel, EndpointTypes, StatusTypes,
                                    ListenerTypes, status
  <2>.  CASE StopReceiver
    <3>1. ep \in Endpoints BY AddingTurn DEF StopReceiver
    <3>2. receiver' \in [Endpoints -> Receivers]
      BY <3>1, Zenon DEF StopReceiver, Receivers
    <3> QED BY <3>2 DEF StopReceiver, EndpointTypes, StatusTypes,
                                    ListenerTypes, status
  <2>.  CASE Cleaned
    <3>1. ep \in Endpoints BY AddingTurn DEF Cleaned
    <3>2. listeners' \in [Endpoints -> Nat] BY <3>1 DEF Cleaned
    <3> QED BY <3>2 DEF Cleaned, EndpointTypes, StatusTypes,
                                    ListenerTypes, status
  <2>7. ASSUME NEW e \in Endpoints, ReceiverStep(e)
        PROVE  EndpointTypes'
    <3>.  CASE ReceiveFails(e)
      <4>1. StatusTypes' BY <1>DisconnectTypes, Zenon DEF ReceiveFails
      <4>2. receiver' \in [Endpoints -> Receivers]
        BY DEF ReceiveFails, Receivers
      <4> QED BY <4>1, <4>2 DEF ReceiveFails, EndpointTypes,
                                           ListenerTypes, Untouched
    <3>.  CASE CloseChannel(e)
      <4> DEFINE b == receiver[e].isRunning /\ listeners[e] = 0
      <4>1. receiver' = [receiver EXCEPT ![e] = [pc |-> "ended", isRunning |-> b]]
        BY DEF CloseChannel
      <4>2. b \in BOOLEAN BY DEF Receivers
      <4> HIDE DEF b
      <4>3. receiver' \in [Endpoints -> Receivers]
        BY <4>1, <4>2 DEF Receivers
      <4>4. listeners' \in [Endpoints -> Nat] BY DEF CloseChannel
      <4> QED BY <4>3, <4>4 DEF CloseChannel, EndpointTypes, StatusTypes,
                                           ListenerTypes, Untouched, status
    <3>.  CASE Quit(e)
      <4>1. receiver' \in [Endpoints -> Receivers] BY DEF Quit, Receivers
      <4> QED BY <4>1 DEF Quit, EndpointTypes, StatusTypes,
                                     ListenerTypes, Untouched, status
    <3> QED BY <2>7, Zenon DEF ReceiverStep
  <2>8. ASSUME NEW e \in Endpoints, ServerStep(e) \/ PingFails(e)
        PROVE  EndpointTypes'
    <3>.  CASE Crash(e) \/ Break(e)
      <4>1. channel' \in [Endpoints -> Channels]
        BY <1>MadeTypes, Zenon DEF Crash, Break
      <4> QED BY <4>1 DEF Crash, Break, EndpointTypes, StatusTypes,
                                     ListenerTypes, status
    <3>2. CASE Restart(e) BY <2>1, <3>2 DEF Restart, endpointVars
    <3>.  CASE RequestFails(e) \/ PingFails(e)
      <4>1. StatusTypes'
        BY <1>DisconnectTypes, Zenon DEF RequestFails, PingFails
      <4> QED BY <4>1 DEF RequestFails, PingFails, EndpointTypes,
                                     ListenerTypes
    <3>.  CASE Reconnect(e)
      <4>1. connected' \in [Endpoints -> BOOLEAN] BY DEF Reconnect
      <4> QED BY <4>1 DEF Reconnect, EndpointTypes, StatusTypes,
                                     ListenerTypes, Untouched
    <3> QED BY <2>8, <3>2, Zenon DEF ServerStep
  <2>9. CASE UNCHANGED vars BY <2>1, <2>9 DEF vars, endpointVars
  <2> QED BY <2>2, <2>3, <2>7, <2>8, <2>9, <1>HolderEndpointTypes,
             Zenon DEF Next, DestroyStep
<1>OtherTypesNext.
    ASSUME TypeOK, ListInv, [Next]_vars
    PROVE  OtherTypes'
  <2> USE <1>OtherTypesNext
  <2>.  OtherTypes BY TypesSplit
  <2>1. ASSUME UNCHANGED others PROVE up' \in [Endpoints -> BOOLEAN]
                     /\ overtaken' \subseteq Endpoints /\ faults' \in 0..MaxFaults
    BY <2>1 DEF others, OtherTypes
  <2>2. ASSUME UNCHANGED <<m_allEndpointsDisconnected, others>> PROVE OtherTypes'
    BY <2>1, <2>2 DEF OtherTypes
  <2>.  CASE Rearrange
    <3>1. mrl \in Holders /\ m_allEndpointsDisconnected \in BOOLEAN BY DEF TypeOK
    <3>2. m_allEndpointsDisconnected' \in BOOLEAN
      BY <3>1 DEF Rearrange, AllDisconnected, Holders
    <3> QED BY <2>1, <3>2 DEF Rearrange, OtherTypes
  <2>4. CASE redundancy \/ maintainAfterError
    BY <2>2, <2>4, Zenon DEF redundancy, maintainAfterError, lists
  <2>5. CASE Scan
    BY <2>2, <2>5 DEF Scan, ScanFirst, ScanPromote, ScanSecondary, Select, lists
  <2>6. CASE Offer
    <3>1. CASE Register \/ Join
      <4>1. ListInv /\ mrl.todo # <<>>
        BY <3>1, AddingTurn, Zenon DEF Register, Join, Goes
      <4>2. ep \in Endpoints BY <4>1, TurnType, Zenon
      <4>3. /\ overtaken' \subseteq overtaken \cup {ep}
            /\ UNCHANGED <<m_allEndpointsDisconnected, up, faults>>
        BY <3>1, Zenon DEF Register, Join, lists
      <4> QED BY <4>2, <4>3, Zenon DEF OtherTypes
    <3>2. CASE ~(Register \/ Join)
      BY <2>2, <2>6, <3>2, Zenon DEF Offer, Skip, RegisterFails, Started, Recover,
                        RecoverFails, RecoverCqsFails, OfferEnds, lists
    <3> QED BY <3>1, <3>2, Zenon
  <2>7. CASE Promote \/ Leave \/ destroy
    BY <2>2, <2>7 DEF Promote, Leave, destroy, lists
  <2>8. CASE DestroyStep
    BY <2>2, <2>8 DEF DestroyStep, StopChannel, StopReceiver, StopEnds, LockToClean,
                      Cleaned, close, lists
  <2>9. CASE Monitor BY <2>2, <2>9 DEF Monitor, Untouched, lists, others
  <2>11. ASSUME NEW e \in Endpoints, ReceiverStep(e) PROVE OtherTypes'
    <3>1. /\ overtaken' \subseteq overtaken \cup {e}
          /\ UNCHANGED <<m_allEndpointsDisconnected, up, faults>>
      BY <2>11, Zenon DEF ReceiverStep, ReceiveFails, CloseChannel, Quit,
                         Untouched, lists
    <3> QED BY <3>1, Zenon DEF OtherTypes
  <2>12. ASSUME NEW e \in Endpoints, ServerStep(e) \/ PingFails(e)
         PROVE  OtherTypes'
    <3>1. /\ Fault \/ UNCHANGED faults
          /\ UNCHANGED m_allEndpointsDisconnected
      BY <2>12, Zenon DEF ServerStep, Crash, Restart, Break, RequestFails, PingFails,
                   Reconnect, Untouched, lists
    <3>2. faults' \in 0..MaxFaults BY <3>1, <1>FaultTypes DEF OtherTypes
    <3>3. up' \in [Endpoints -> BOOLEAN]
      BY <2>12, Zenon DEF ServerStep, Crash, Restart, Break, RequestFails, PingFails,
                         Reconnect, Untouched, OtherTypes
    <3>4. overtaken' \subseteq overtaken \cup {e}
      BY <2>12, Zenon DEF ServerStep, Crash, Restart, Break, RequestFails, PingFails,
                         Reconnect, Untouched
    <3> QED BY <3>1, <3>2, <3>3, <3>4, Zenon DEF OtherTypes
  <2>13. CASE UNCHANGED vars BY <2>2, <2>13 DEF vars, lists, others
  <2> QED BY <2>4, <2>5, <2>6, <2>7, <2>8, <2>9, <2>11, <2>12, <2>13,
             Zenon DEF Next, maintainRedundancyLevel
<1>1. Init => TypesInv
  <2> SUFFICES ASSUME Init PROVE TypesInv OBVIOUS
  <2>1. ListInv BY <1>ListInvInit
  <2>2. MaxFaults \in Nat /\ MaxRefused \in Nat BY RedundancyAssumption
  <2>3. EndpointTypes
    <3>.  /\ channel = [e \in Endpoints |-> "none"]
          /\ connected = [e \in Endpoints |-> FALSE]
          /\ listeners = [e \in Endpoints |-> 0]
          /\ receiver = [e \in Endpoints |-> [pc |-> "none", isRunning |-> FALSE]]
          /\ released = FALSE /\ refused = 0
      BY Zenon DEF Init
    <3>2. channel \in [Endpoints -> Channels] BY DEF Channels
    <3>3. receiver \in [Endpoints -> Receivers] BY DEF Receivers
    <3>4. StatusTypes BY Zenon DEF StatusTypes
    <3>5. ListenerTypes BY <3>3 DEF ListenerTypes
    <3>6. refused \in 0..MaxRefused BY <2>2
    <3> QED BY <3>2, <3>4, <3>5, <3>6, Zenon DEF EndpointTypes
  <2>4. OtherTypes
    <3>1. /\ m_allEndpointsDisconnected = FALSE /\ up \in [Endpoints -> BOOLEAN]
          /\ overtaken = {} /\ faults \in {0, 1} /\ faults <= MaxFaults
      BY Zenon DEF Init
    <3>2. faults \in 0..MaxFaults BY <2>2, <3>1
    <3> QED BY <3>1, <3>2, Zenon DEF OtherTypes
  <2> QED BY <2>1, <2>3, <2>4, ListFacts, TypesSplit, Zenon DEF TypesInv
<1>2. TypesInv /\ [Next]_vars => TypesInv'
  <2> SUFFICES ASSUME TypesInv, [Next]_vars PROVE TypesInv' OBVIOUS
  <2>.  TypeOK /\ ListInv /\ EndpointTypes BY TypesSplit, Zenon DEF TypesInv
  <2>1. ListInv' BY ListInvNext, Zenon
  <2>2. EndpointTypes' BY <1>EndpointTypesNext, Zenon
  <2>3. OtherTypes' BY <1>OtherTypesNext, Zenon
  <2>4. /\ m_redundantEndpoints' \in Seq(Endpoints)
        /\ m_nonredundantEndpoints' \in Seq(Endpoints) /\ mrl' \in Holders
    BY <2>1, Zenon DEF ListInv, HolderInv
  <2>5. TypeOK'
    BY <2>2, <2>3, <2>4, Zenon DEF TypeOK, EndpointTypes, StatusTypes,
                                   ListenerTypes, OtherTypes
  <2> QED BY <2>1, <2>5, Zenon DEF TypesInv
<1> QED BY <1>1, <1>2, PTL DEF Spec

(* Whatever the threads, the servers and the races do, maintainRedundancy- *)
(* Level leaves every endpoint in exactly one of m_redundantEndpoints and  *)
(* m_nonredundantEndpoints, once, and never more redundant ones than a     *)
(* primary and the secondaries asked for, although it takes endpoints out  *)
(* of one list in passing and puts them into the other at the end.         *)
THEOREM EndpointsArePartitioned ==
  Spec => []ListsPartition
<1>1. TypesInv => ListsPartition
  <2> SUFFICES ASSUME TypesInv PROVE ListsPartition OBVIOUS
  <2> DEFINE r == m_redundantEndpoints
             n == m_nonredundantEndpoints
  <2>1. TypeOK /\ ListInv BY Zenon DEF TypesInv
  <2>2. ASSUME Free
        PROVE  /\ IsInjective(r \o n) /\ Range(r \o n) = Endpoints
               /\ m_redundancyLevel >= 0 => Len(r) <= m_redundancyLevel + 1
    <3>1. mrl.pc # "closed" BY <2>2 DEF Free
    <3>.  /\ r \in Seq(Endpoints) /\ n \in Seq(Endpoints)
          /\ Partition(r, n) /\ Within(Len(r))
      BY <2>1, <3>1, ListFacts, Zenon
    <3>3. /\ IsInjective(r) /\ IsInjective(n) /\ Range(r) \cap Range(n) = {}
          /\ Range(r) \cup Range(n) = Endpoints
      BY Zenon DEF Partition
    <3>4. IsInjective(r \o n) BY <3>3, ConcatInjective, Zenon
    <3>5. Range(r \o n) = Endpoints
      <4>1. r \in Seq(Endpoints) /\ n \in Seq(Endpoints) BY Zenon
      <4> HIDE DEF r, n
      <4>2. Range(r \o n) = Range(r) \cup Range(n) BY <4>1, RangeConcat
      <4> QED BY <3>3, <4>2, Zenon
    <3> QED BY <3>4, <3>5, Zenon DEF Within
  <2> QED BY <2>1, <2>2, Zenon DEF ListsPartition
<1> QED BY <1>1, TypesInvHolds, PTL

-----------------------------------------------------------------------------
(* A loss is seen: the endpoints that are kept are connected, or the       *)
(* thread of redundancy() has been released.                               *)

Examined(m, r) ==
  IF m.pc = "scan" THEN {r[i] : i \in 1..(Len(r) - Len(m.todo))} ELSE Range(r)

Kept(m, r) ==
  (Examined(m, r) \ Range(m.tempNonredundant)) \cup Range(m.tempRedundant)
    \cup (IF m.pc \in Adding THEN {Head(m.todo)} ELSE {})

LossInv ==
  mrl.pc \notin Destroying =>
    \A e \in Kept(mrl, m_redundantEndpoints) : connected[e] \/ released

(* The endpoint in turn is new.                                            *)
LEMMA OfferPlace ==
  ASSUME ListInv, mrl.pc \in Offering, mrl.todo # <<>>
  PROVE  /\ ep \notin Range(m_redundantEndpoints)
         /\ ep \notin Range(mrl.tempRedundant) /\ ep \in Endpoints
<1> DEFINE r == m_redundantEndpoints
           n == m_nonredundantEndpoints
           t == mrl.todo
           tr == mrl.tempRedundant
           k == Len(n) - Len(t)
<1>0. mrl.pc # "closed" BY DEF Offering, Adding
<1>.  /\ r \in Seq(Endpoints) /\ n \in Seq(Endpoints) /\ mrl \in Holders
      /\ Partition(r, n) /\ Offers(mrl, r, n)
  BY <1>0, Zenon DEF ListInv, HolderInv
<1>.  t \in Seq(Endpoints) /\ tr \in Seq(Endpoints) /\ t # <<>>
  BY HolderTypes, Zenon
<1>3. RestOf(t, n) /\ TakenFrom(tr, n, k) BY Zenon DEF Offers
<1>.  k + 1 \in 1..Len(n) /\ Head(t) = n[k + 1]
  BY <1>3, RestTail, Zenon
<1>5. ep = Head(t) BY DEF ep
<1>.  /\ IsInjective(n) /\ Range(r) \cap Range(n) = {}
      /\ Range(r) \cup Range(n) = Endpoints
  BY Zenon DEF Partition
<1>.  Len(n) \in Nat /\ Len(t) \in Nat OBVIOUS
<1>8. k \in Int OBVIOUS
<1> HIDE DEF r, n, t, tr, k
<1>9. k \in Nat /\ k <= Len(n) BY <1>8
<1>10. Range(tr) \subseteq {n[j] : j \in 1..k}
  BY <1>3, <1>9, TakenFacts
<1>11. Range(n) = {n[i] : i \in 1..Len(n)} BY SeqFacts
<1>12. \A i, j \in 1..Len(n) : n[i] = n[j] => i = j BY SeqFacts
<1>13. \A j \in 1..k : j \in 1..Len(n) /\ j # k + 1 BY <1>9
<1>14. n[k + 1] \notin {n[j] : j \in 1..k} BY <1>12, <1>13, Zenon
<1>15. n[k + 1] \in Range(n) BY <1>11
<1> QED BY <1>5, <1>10, <1>14, <1>15 DEF r, tr

(* A status that counts as seen stays so.                                  *)
Seen(e) == connected[e] \/ released
SeenNext(e) == connected'[e] \/ released'

SeenStays == \A e \in Endpoints : Seen(e) => SeenNext(e)

LEMMA KeptTypes ==
  ASSUME ListInv
  PROVE  /\ Kept(mrl, m_redundantEndpoints) \subseteq Endpoints
         /\ Examined(mrl, m_redundantEndpoints) \subseteq Range(m_redundantEndpoints)
         /\ Range(m_redundantEndpoints) \subseteq Endpoints
         /\ Range(mrl.tempRedundant) \subseteq Endpoints
<1> DEFINE r == m_redundantEndpoints
           t == mrl.todo
<1>1. r \in Seq(Endpoints) /\ mrl \in Holders BY ListFacts, Zenon
<1>2. t \in Seq(Endpoints) /\ mrl.tempRedundant \in Seq(Endpoints)
  BY <1>1, HolderTypes, Zenon
<1>.  /\ Range(r) \subseteq Endpoints /\ Range(r) = {r[i] : i \in 1..Len(r)}
      /\ Range(mrl.tempRedundant) \subseteq Endpoints
      /\ Len(r) \in Nat /\ Len(t) \in Nat
  BY <1>1, <1>2, SeqFacts
<1>4. \A i \in 1..(Len(r) - Len(t)) : i \in 1..Len(r) OBVIOUS
<1>5. {r[i] : i \in 1..(Len(r) - Len(t))} \subseteq Range(r)
  BY <1>4, Zenon
<1>6. Examined(mrl, r) \subseteq Range(r) BY <1>5, Zenon DEF Examined
<1>7. mrl.pc \in Adding => Head(t) \in Endpoints
  <2> SUFFICES ASSUME mrl.pc \in Adding PROVE Head(t) \in Endpoints OBVIOUS
  <2>1. mrl.pc \in {"join", "start", "recover", "flag", "wait"} BY DEF Adding
  <2> QED BY <2>1, AddingTurn, Zenon DEF ep
<1>8. Kept(mrl, r) \subseteq Endpoints
  BY <1>6, <1>7, Zenon DEF Kept
<1> QED BY <1>6, <1>8, Zenon

(* Between runs of maintainRedundancyLevel a redundant endpoint is         *)
(* connected, or redundancy() has been woken since it was lost: no loss,   *)
(* at whatever moment of a run it came, waits for the timer only.  This    *)
(* holds in the races as well.                                             *)
THEOREM LossesAreSeen ==
  Spec => []LossIsSeen
<1>DisconnectKeeps.
    ASSUME StatusTypes, NEW x \in Endpoints, Disconnect(x)
    PROVE  SeenStays
  <2> USE <1>DisconnectKeeps
  <2>.  /\ connected \in [Endpoints -> BOOLEAN]
        /\ connected' = [connected EXCEPT ![x] = FALSE]
        /\ released' = (released \/ connected[x])
    BY DEF StatusTypes, Disconnect
  <2>2. ASSUME NEW e \in Endpoints, Seen(e) PROVE SeenNext(e)
    <3>1. CASE e = x BY <2>2, <3>1, Zenon DEF Seen, SeenNext
    <3>2. CASE e # x
      <4>1. connected'[e] = connected[e] BY <3>2
      <4> QED BY <2>2, <4>1, Zenon DEF Seen, SeenNext
    <3> QED BY <3>1, <3>2, Zenon
  <2> QED BY <2>2, Zenon DEF SeenStays
<1>UnchangedKeeps.
    ASSUME UNCHANGED status
    PROVE  SeenStays
  <2> USE <1>UnchangedKeeps
  <2> QED BY DEF SeenStays, Seen, SeenNext, status
<1>ErrorKeeps.
    ASSUME StatusTypes, NEW x \in Endpoints, NEW fatal, RequestError(x, fatal)
    PROVE  SeenStays
  <2> USE <1>ErrorKeeps
  <2>1. Disconnect(x) \/ UNCHANGED status BY Zenon DEF RequestError
  <2> QED BY <2>1, <1>DisconnectKeeps, <1>UnchangedKeeps, Zenon
<1>MakePrimaryKeeps.
    ASSUME StatusTypes, NEW x \in Endpoints, NEW ok \in BOOLEAN,
           sendMakePrimaryMesg(x, ok)
    PROVE  SeenStays /\ (ok => connected[x] /\ UNCHANGED status)
  <2> USE <1>MakePrimaryKeeps
  <2>1. RequestError(x, FALSE) \/ UNCHANGED status
    BY Zenon DEF sendMakePrimaryMesg
  <2>2. ok => connected[x] /\ UNCHANGED status BY DEF sendMakePrimaryMesg
  <2> QED BY <2>1, <2>2, <1>ErrorKeeps, <1>UnchangedKeeps, Zenon
<1>ConnectKeeps.
    ASSUME StatusTypes, NEW x \in Endpoints, UNCHANGED released,
           connected' = [connected EXCEPT ![x] = TRUE]
    PROVE  SeenStays /\ connected'[x]
  <2> USE <1>ConnectKeeps
  <2>1. connected'[x] BY DEF StatusTypes
  <2>2. ASSUME NEW e \in Endpoints PROVE e = x \/ connected'[e] = connected[e]
    BY Zenon DEF StatusTypes
  <2>3. ASSUME NEW e \in Endpoints, Seen(e) PROVE SeenNext(e)
    BY <2>1, <2>2, <2>3, Zenon DEF Seen, SeenNext
  <2> QED BY <2>1, <2>3, Zenon DEF SeenStays
(* The step keeps what was seen, and nothing else is added.                *)
<1>LossKept.
    ASSUME LossInv, mrl.pc \notin Destroying, SeenStays,
           Kept(mrl, m_redundantEndpoints) \subseteq Endpoints,
           \A e \in Kept(mrl', m_redundantEndpoints') :
              e \in Kept(mrl, m_redundantEndpoints) \/ SeenNext(e)
    PROVE  LossInv'
  <2> USE <1>LossKept
  <2> DEFINE k == Kept(mrl, m_redundantEndpoints)
             k2 == Kept(mrl', m_redundantEndpoints')
  <2>1. \A e \in k : e \in Endpoints /\ Seen(e) BY Zenon DEF LossInv, Seen
  <2>2. \A e \in k2 : SeenNext(e) BY <2>1, Zenon DEF SeenStays
  <2>3. \A e \in k2 : connected'[e] \/ released' BY <2>2, Zenon DEF SeenNext
  <2> HIDE DEF k2
  <2> QED BY <2>3, Zenon DEF LossInv, k2
<1>LossScan.
    ASSUME ListInv, LossInv, Goes("scan"), UNCHANGED sameLists, SeenStays,
           NEW m, mrl' = m, m.pc = "scan", m.todo = Tail(mrl.todo),
           m.tempRedundant = <<>>,
           \/ m.tempNonredundant = Append(mrl.tempNonredundant, ep)
           \/ m.tempNonredundant = mrl.tempNonredundant /\ SeenNext(ep)
    PROVE  LossInv'
  <2> USE <1>LossScan
  <2> DEFINE r == m_redundantEndpoints
             t == mrl.todo
             k == Len(r) - Len(t)
             tn == mrl.tempNonredundant
  <2>1. /\ mrl.pc = "scan" /\ t # <<>> /\ mrl \in Holders
        /\ mrl.tempRedundant = <<>> /\ RestOf(t, r)
    BY ScanFacts, Zenon DEF Scanning
  <2>2. r \in Seq(Endpoints) BY ListFacts, Zenon
  <2>3. t \in Seq(Endpoints) /\ tn \in Seq(Endpoints) BY <2>1, HolderTypes, Zenon
  <2>4. /\ k + 1 \in 1..Len(r) /\ Len(r) - Len(Tail(t)) = k + 1
        /\ Head(t) = r[k + 1]
    BY <2>1, <2>2, <2>3, RestTail, Zenon
  <2>5. ep = r[k + 1] /\ ep \in Endpoints
    BY <2>1, <2>4, TurnType, Zenon DEF ep
  <2>6. k \in Nat BY <2>2, <2>3, <2>4
  <2>7. {r[i] : i \in 1..(k + 1)} = {r[i] : i \in 1..k} \cup {r[k + 1]}
    <3> HIDE DEF k, r
    <3> QED BY <2>6
  <2>8. Examined(m, r) = Examined(mrl, r) \cup {ep}
    BY <2>1, <2>4, <2>5, <2>7, Zenon DEF Examined
  <2>9. mrl.pc \notin Adding /\ mrl.pc \notin Destroying
    BY <2>1 DEF Adding, Destroying
  <2>10. /\ Kept(mrl, r) = Examined(mrl, r) \ Range(tn)
         /\ Kept(m, r) = (Examined(mrl, r) \cup {ep}) \ Range(m.tempNonredundant)
    <3>1. Range(<<>>) = {} BY DEF Range
    <3> QED BY <2>1, <2>8, <2>9, <3>1 DEF Kept
  <2>11. \A e \in Kept(m, r) : e \in Kept(mrl, r) \/ SeenNext(e)
    <3>1. CASE m.tempNonredundant = Append(tn, ep)
      <4>1. Range(Append(tn, ep)) = Range(tn) \cup {ep}
        <5>1. tn \in Seq(Endpoints) /\ ep \in Endpoints BY <2>3, <2>5, Zenon
        <5> HIDE DEF tn
        <5> QED BY <5>1, RangeAppend
      <4> QED BY <2>10, <3>1, <4>1, Zenon
    <3>2. CASE m.tempNonredundant = tn /\ SeenNext(ep) BY <2>10, <3>2, Zenon
    <3> QED BY <3>1, <3>2, Zenon
  <2>12. m_redundantEndpoints' = r /\ Kept(mrl, r) \subseteq Endpoints
    BY KeptTypes, Zenon DEF sameLists
  <2> QED BY <2>9, <2>11, <2>12, <1>LossKept, Zenon
<1>LossScanNext.
    ASSUME TypesInv, LossInv, Scan
    PROVE  LossInv'
  <2> USE <1>LossScanNext
  <2>.  TypeOK /\ ListInv /\ StatusTypes
    BY TypesSplit, Zenon DEF TypesInv, EndpointTypes
  <2>1. ASSUME Goes("scan"), UNCHANGED sameLists, SeenStays,
               \/ mrl' = Gone
               \/ Scanned /\ SeenNext(ep)
        PROVE  LossInv'
    <3>1. mrl.pc = "scan" /\ mrl.todo # <<>> /\ mrl \in Holders
          /\ mrl.tempRedundant = <<>>
      BY <2>1, ScanFacts, Zenon
    <3>2. CASE mrl' = Gone
      <4>1. /\ Gone.pc = mrl.pc /\ Gone.todo = Tail(mrl.todo)
            /\ Gone.tempRedundant = mrl.tempRedundant
            /\ Gone.tempNonredundant = Append(mrl.tempNonredundant, ep)
        BY <3>1, GoneHolder, Zenon
      <4> QED BY <2>1, <3>1, <3>2, <4>1, <1>LossScan, Zenon
    <3>.  CASE Scanned /\ SeenNext(ep)
      <4> DEFINE m == mrl'
      <4>1. /\ m.pc = "scan" /\ m.todo = Tail(mrl.todo) /\ m.tempRedundant = <<>>
            /\ m.tempNonredundant = mrl.tempNonredundant
        BY Zenon DEF Scanned
      <4>2. mrl' = m OBVIOUS
      <4> HIDE DEF m
      <4> QED BY <2>1, <4>1, <4>2, <1>LossScan, Zenon
    <3> QED BY <2>1, <3>2, Zenon
  <2>.  CASE ScanFirst \/ ScanSecondary
    <3>1. Goes("scan") /\ UNCHANGED sameLists /\ UNCHANGED status
      BY DEF ScanFirst, ScanSecondary, lists, sameLists, endpointVars
    <3>2. mrl' = Gone \/ connected[ep]
      BY Zenon DEF ScanFirst, ScanSecondary
    <3>3. mrl' = Gone \/ Scanned
      BY ScanFirstInv, ScanSecondaryInv, Zenon
    <3>4. connected[ep] => SeenNext(ep) BY <3>1 DEF SeenNext, status
    <3> QED BY <2>1, <3>1, <3>2, <3>3, <3>4, <1>UnchangedKeeps, Zenon
  <2>.  CASE ScanPromote
    <3>1. Goes("scan") /\ UNCHANGED sameLists
      BY DEF ScanPromote, lists, sameLists
    <3>2. PICK ok \in BOOLEAN : sendMakePrimaryMesg(ep, ok) /\ (~ok => mrl' = Gone)
      BY Zenon DEF ScanPromote
    <3>3. ep \in Endpoints BY <3>1, TurnType, Zenon DEF Goes
    <3>4. SeenStays /\ (ok => connected[ep] /\ UNCHANGED status)
      BY <3>2, <3>3, <1>MakePrimaryKeeps, Zenon
    <3>5. ok => SeenNext(ep) BY <3>4 DEF SeenNext, status
    <3>6. mrl' = Gone \/ Scanned BY ScanPromoteInv, Zenon
    <3> QED BY <2>1, <3>1, <3>2, <3>4, <3>5, <3>6, Zenon
  <2>.  CASE Select
    <3> DEFINE r == m_redundantEndpoints
    <3>.  /\ mrl.pc = "scan" /\ m_redundantEndpoints' = r /\ UNCHANGED status
          /\ mrl.todo = <<>> \/ mrl.isRedundancySatisfied
      BY Zenon DEF Select, Ends, endpointVars
    <3>.  Scanning(mrl, r) /\ mrl \in Holders /\ r \in Seq(Endpoints)
      BY Zenon DEF ListInv, HolderInv
    <3>3. mrl.todo = <<>> BY Zenon DEF Scanning
    <3>4. Examined(mrl, r) = Range(r)
      <4>1. Len(r) - Len(mrl.todo) = Len(r) BY <3>3
      <4>2. Range(r) = {r[i] : i \in 1..Len(r)} BY SeqFacts
      <4> QED BY <4>1, <4>2, Zenon DEF Examined
    <3>.  /\ mrl'.pc = "offer" /\ mrl'.tempRedundant = mrl.tempRedundant
          /\ mrl'.tempNonredundant = mrl.tempNonredundant
      BY DEF Select, Holders
    <3>6. Examined(mrl', r) = Range(r) BY Zenon DEF Examined
    <3>7. mrl'.pc \notin Adding /\ mrl.pc \notin Adding /\ mrl.pc \notin Destroying
      BY DEF Adding, Destroying
    <3>8. Kept(mrl', r) = Kept(mrl, r) BY <3>4, <3>6, <3>7, Zenon DEF Kept
    <3>9. Kept(mrl, r) \subseteq Endpoints BY KeptTypes, Zenon
    <3> QED BY <3>7, <3>8, <3>9, <1>LossKept, <1>UnchangedKeeps, Zenon
  <2> QED BY Zenon DEF Scan
(* Outside the scan the redundant endpoints that are not gone are kept.    *)
<1>KeptElsewhere.
    ASSUME NEW m, m.pc # "scan", NEW r
    PROVE  \A e : e \in Kept(m, r) <=>
                    \/ e \in Range(r) /\ e \notin Range(m.tempNonredundant)
                    \/ e \in Range(m.tempRedundant)
                    \/ m.pc \in Adding /\ e = Head(m.todo)
  <2> USE <1>KeptElsewhere
  <2>1. Examined(m, r) = Range(r) BY Zenon DEF Examined
  <2>2. \A e : e \in (IF m.pc \in Adding THEN {Head(m.todo)} ELSE {})
                 <=> m.pc \in Adding /\ e = Head(m.todo)
    OBVIOUS
  <2> QED BY <2>1, <2>2, Zenon DEF Kept
<1>LossOffer.
    ASSUME TypesInv, LossInv, Offer
    PROVE  LossInv'
  <2> USE <1>LossOffer
  <2> DEFINE r == m_redundantEndpoints
             m == mrl'
  <2>.  /\ ListInv /\ StatusTypes /\ mrl \in Holders
        /\ Kept(mrl, r) \subseteq Endpoints
    BY TypesSplit, ListFacts, KeptTypes, Zenon DEF TypesInv, EndpointTypes
  <2>1. ASSUME mrl.pc \in Offering, r' = r, SeenStays, m.pc # "scan",
               m.tempRedundant = mrl.tempRedundant,
               m.tempNonredundant = mrl.tempNonredundant,
               m.pc \in Adding => SeenNext(Head(m.todo))
        PROVE  LossInv'
    <3>1. mrl.pc # "scan" /\ mrl.pc \notin Destroying
      BY <2>1 DEF Offering, Adding, Destroying
    <3>2. \A e \in Kept(m, r) : e \in Kept(mrl, r) \/ SeenNext(e)
      BY <2>1, <3>1, <1>KeptElsewhere, Zenon
    <3> HIDE DEF m
    <3>3. m = mrl' BY DEF m
    <3> QED BY <2>1, <3>1, <3>2, <3>3, <1>LossKept, Zenon
  <2>.  CASE Skip \/ OfferEnds
    <3>.  mrl.pc = "offer" /\ r' = r /\ UNCHANGED status
      BY DEF Skip, OfferEnds, Goes, Ends, lists, endpointVars
    <3>2. /\ m.pc \notin Adding /\ m.pc # "scan"
          /\ m.tempRedundant = mrl.tempRedundant
          /\ m.tempNonredundant = mrl.tempNonredundant
      <4>1. CASE Skip
        <5>1. m = Following /\ mrl.todo # <<>> BY <4>1, Zenon DEF Skip, Goes
        <5>2. /\ Following.pc = mrl.pc /\ Following.tempRedundant = mrl.tempRedundant
              /\ Following.tempNonredundant = mrl.tempNonredundant
          BY <5>1, FollowingHolder, Zenon
        <5> QED BY <5>1, <5>2 DEF Adding
      <4>2. CASE OfferEnds
        BY <4>2 DEF OfferEnds, Holders, Adding
      <4> QED BY <4>1, <4>2
    <3>3. mrl.pc \in Offering BY DEF Offering
    <3> QED BY <2>1, <3>2, <3>3, <1>UnchangedKeeps, Zenon
  <2>3. ASSUME mrl.pc \in Adding \/ Goes("offer"), r' = r,
               NEW fatal \in BOOLEAN, m = Failed(fatal),
               \/ SeenStays
               \/ UNCHANGED released
                  /\ \A e \in Endpoints : e = ep \/ connected'[e] = connected[e]
        PROVE  LossInv'
    <3>.  mrl.pc \in Offering /\ mrl.todo # <<>> BY <2>3, OfferedFacts, Zenon
    <3>.  /\ m.pc = "offer" /\ m.tempRedundant = mrl.tempRedundant
          /\ m.tempNonredundant = mrl.tempNonredundant
      <4>1. /\ Failed(fatal).pc = "offer"
            /\ Failed(fatal).tempRedundant = mrl.tempRedundant
            /\ Failed(fatal).tempNonredundant = mrl.tempNonredundant
        BY FailedHolder, Zenon
      <4> QED BY <2>3, <4>1, Zenon
    <3>3. m.pc # "scan" /\ m.pc \notin Adding BY DEF Adding
    <3>4. CASE SeenStays BY <2>1, <2>3, <3>3, <3>4, Zenon
    <3>5. CASE /\ UNCHANGED released
               /\ \A e \in Endpoints : e = ep \/ connected'[e] = connected[e]
      <4>1. mrl.pc # "scan" /\ mrl.pc \notin Destroying
        BY DEF Offering, Adding, Destroying
      <4>2. /\ ep \notin Range(r) /\ ep \notin Range(mrl.tempRedundant)
        BY OfferPlace, Zenon
      <4>3. ASSUME NEW e \in Kept(m, r) PROVE e # ep /\ e \in Kept(mrl, r)
        BY <3>3, <4>1, <4>2, <1>KeptElsewhere, Zenon
      <4>4. \A e \in Kept(m, r) : connected[e] \/ released
        BY <4>1, <4>3, Zenon DEF LossInv
      <4>5. \A e \in Kept(m, r) : connected'[e] \/ released'
        BY <3>5, <4>3, <4>4, Zenon
      <4>6. Kept(mrl', m_redundantEndpoints') = Kept(m, r) BY <2>3, Zenon
      <4> QED BY <4>5, <4>6, Zenon DEF LossInv
    <3> QED BY <2>3, <3>4, <3>5, Zenon
  <2>.  CASE RegisterFails
    <3>1. /\ Goes("offer") /\ r' = r /\ UNCHANGED released
          /\ connected' = [connected EXCEPT ![ep] = FALSE]
      BY DEF RegisterFails, lists
    <3>2. PICK fatal \in BOOLEAN : m = Failed(fatal) BY Zenon DEF RegisterFails
    <3>3. \A e \in Endpoints : e = ep \/ connected'[e] = connected[e]
      BY <3>1, Zenon DEF StatusTypes
    <3> QED BY <2>3, <3>1, <3>2, <3>3, Zenon
  <2>.  CASE RecoverFails \/ RecoverCqsFails
    <3>1. mrl.pc \in Adding /\ r' = r /\ ep \in Endpoints
      BY AddingTurn DEF RecoverFails, RecoverCqsFails, lists, Adding
    <3>2. PICK fatal \in BOOLEAN : RequestError(ep, fatal) /\ m = Failed(fatal)
      BY Zenon DEF RecoverFails, RecoverCqsFails
    <3>3. SeenStays BY <3>1, <3>2, <1>ErrorKeeps, Zenon
    <3> QED BY <2>3, <3>1, <3>2, <3>3, Zenon
  <2>.  CASE Register \/ Started
    <3>1. mrl.pc \in Adding \/ Goes("offer")
      BY DEF Register, Started, Adding
    <3>2. mrl.pc \in Offering /\ mrl.todo # <<>> /\ ep \in Endpoints
      BY <3>1, OfferedFacts, TurnType, Zenon
    <3>3. /\ r' = r /\ UNCHANGED released
          /\ connected' = [connected EXCEPT ![ep] = TRUE]
      BY DEF Register, Started, lists
    <3>4. SeenStays /\ connected'[ep] BY <3>2, <3>3, <1>ConnectKeeps, Zenon
    <3>5. PICK pc \in Adding : m = [mrl EXCEPT !.pc = pc]
      BY DEF Register, Started, Adding
    <3>6. /\ m.pc # "scan" /\ m.todo = mrl.todo
          /\ m.tempRedundant = mrl.tempRedundant
          /\ m.tempNonredundant = mrl.tempNonredundant
      BY <3>5 DEF Holders, Adding
    <3>7. SeenNext(Head(m.todo)) BY <3>4, <3>6 DEF SeenNext, ep
    <3> QED BY <2>1, <3>2, <3>3, <3>4, <3>6, <3>7, Zenon
  <2>7. CASE Join
    <3>.  mrl.pc = "join" /\ r' = r /\ UNCHANGED status
          /\ m = [mrl EXCEPT !.pc = "start"]
      BY <2>7 DEF Join, lists
    <3>.  /\ m.pc = "start" /\ m.todo = mrl.todo
          /\ m.tempRedundant = mrl.tempRedundant
          /\ m.tempNonredundant = mrl.tempNonredundant
      BY DEF Holders
    <3>.  /\ mrl.pc \in Adding /\ mrl.pc \in Offering /\ mrl.pc # "scan"
          /\ mrl.pc \notin Destroying /\ m.pc # "scan"
      BY DEF Adding, Offering, Destroying
    <3>4. Head(mrl.todo) \in Kept(mrl, r) BY <1>KeptElsewhere
    <3>5. Seen(Head(mrl.todo)) BY <3>4, Zenon DEF LossInv, Seen
    <3>6. SeenNext(Head(m.todo)) BY <3>5 DEF Seen, SeenNext, status
    <3> QED BY <2>1, <3>6, <1>UnchangedKeeps, Zenon
  <2>.  CASE Recover
    <3>.  mrl.pc = "recover" /\ r' = r /\ UNCHANGED status
      BY DEF Recover, lists, endpointVars
    <3>.  /\ m.pc = "offer" /\ m.tempRedundant = Append(mrl.tempRedundant, ep)
          /\ m.tempNonredundant = mrl.tempNonredundant
      BY RecoverInv, Zenon DEF Recovered
    <3>3. /\ mrl.pc \in Adding /\ mrl.pc # "scan" /\ mrl.pc \notin Destroying
          /\ m.pc # "scan" /\ m.pc \notin Adding
      BY DEF Adding, Destroying
    <3>4. Range(m.tempRedundant) = Range(mrl.tempRedundant) \cup {ep}
      <4> DEFINE tr == mrl.tempRedundant
      <4>1. tr \in Seq(Endpoints) BY HolderTypes, Zenon
      <4>2. ep \in Endpoints BY AddingTurn
      <4> HIDE DEF tr
      <4>3. Range(Append(tr, ep)) = Range(tr) \cup {ep} BY <4>1, <4>2, RangeAppend
      <4> QED BY <4>3, Zenon DEF tr
    <3>6. \A e \in Kept(m, r) : e \in Kept(mrl, r)
      BY <3>3, <3>4, <1>KeptElsewhere, Zenon DEF ep
    <3>7. m = mrl' OBVIOUS
    <3> HIDE DEF m
    <3> QED BY <3>3, <3>6, <3>7, <1>LossKept, <1>UnchangedKeeps, Zenon
  <2> QED BY <2>7, Zenon DEF Offer
<1>KeptAtRest.
    ASSUME NEW m, Rests(m), m.pc \notin Busy, NEW r
    PROVE  Kept(m, r) = Range(r)
  <2> USE <1>KeptAtRest
  <2>1. m.pc # "scan" /\ m.pc \notin Adding BY DEF Busy, Adding
  <2>2. Range(m.tempRedundant) = {} /\ Range(m.tempNonredundant) = {}
    BY DEF Rests, Range
  <2>3. Examined(m, r) = Range(r) BY <2>1, Zenon DEF Examined
  <2> QED BY <2>1, <2>2, <2>3 DEF Kept
<1>LossRest.
    ASSUME TypesInv, LossInv, Next, ~Scan, ~Offer
    PROVE  LossInv'
  <2> USE <1>LossRest
  <2> DEFINE r == m_redundantEndpoints
             m == mrl'
  <2>.  /\ TypeOK /\ ListInv /\ StatusTypes /\ mrl \in Holders
        /\ Kept(mrl, r) \subseteq Endpoints
    BY TypesSplit, ListFacts, KeptTypes, Zenon DEF TypesInv, EndpointTypes
  <2>1. ListInv' BY ListInvNext
  <2>2. ASSUME m.pc \in Destroying PROVE LossInv' BY <2>2, Zenon DEF LossInv
  <2>3. ASSUME r' = r, SeenStays, mrl.pc \notin Busy, m.pc \notin Busy,
               mrl.pc \notin Destroying
        PROVE  LossInv'
    <3>1. Rests(mrl) /\ Rests(m) BY <2>1, <2>3, Zenon DEF ListInv, HolderInv
    <3>2. Kept(mrl, r) = Range(r) BY <2>3, <3>1, <1>KeptAtRest
    <3>3. Kept(m, r) = Range(r)
      <4> HIDE DEF m
      <4> QED BY <2>3, <3>1, <1>KeptAtRest
    <3>4. Kept(mrl', m_redundantEndpoints') = Kept(mrl, m_redundantEndpoints)
      BY <2>3, <3>2, <3>3, Zenon
    <3> QED BY <2>3, <3>4, <1>LossKept, Zenon
  <2>4. CASE redundancy \/ maintainAfterError
    <3>1. m = Begun(FALSE) /\ r' = r
      BY <2>4, Zenon DEF redundancy, maintainAfterError, lists
    <3>.  /\ m.pc = "scan" /\ m.todo = r /\ m.tempRedundant = <<>>
          /\ r \in Seq(Endpoints)
      BY <3>1, BegunHolder, Zenon DEF TypeOK
    <3>3. Len(r) - Len(m.todo) = 0 OBVIOUS
    <3>4. Examined(m, r) = {}
      <4>1. 1..0 = {} OBVIOUS
      <4> QED BY <3>3, <4>1, Zenon DEF Examined
    <3>5. Range(m.tempRedundant) = {} /\ m.pc \notin Adding
      BY DEF Range, Adding
    <3>6. Kept(m, r) = {} BY <3>4, <3>5 DEF Kept
    <3>7. Kept(mrl', m_redundantEndpoints') = {} BY <3>1, <3>6, Zenon
    <3> QED BY <3>7, Zenon DEF LossInv
  <2>.  CASE Promote
    <3> DEFINE tr == mrl.tempRedundant
    <3>.  /\ mrl.pc = "promote" /\ r' = r /\ tr # <<>> /\ tr \in Seq(Endpoints)
      BY HolderTypes DEF Promote, Promotes, lists
    <3>2. PICK ok \in BOOLEAN :
            /\ sendMakePrimaryMesg(Last(tr), ok)
            /\ m = IF ok THEN [mrl EXCEPT !.isPrimaryConnected = TRUE,
                                          !.isPrimaryAtBack = TRUE]
                   ELSE [mrl EXCEPT !.tempRedundant = Front(@)]
      BY Zenon DEF Promote
    <3>3. Last(tr) \in Endpoints /\ Range(tr) = Range(Front(tr)) \cup {Last(tr)}
      BY FrontLast
    <3>4. SeenStays BY <3>2, <3>3, <1>MakePrimaryKeeps, Zenon
    <3>.  /\ m.pc = "promote" /\ m.tempNonredundant = mrl.tempNonredundant
          /\ m.tempRedundant = tr \/ m.tempRedundant = Front(tr)
      BY <3>2 DEF Holders
    <3>6. Range(m.tempRedundant) \subseteq Range(tr) BY <3>3, Zenon
    <3>7. /\ mrl.pc # "scan" /\ m.pc # "scan" /\ m.pc \notin Adding
          /\ mrl.pc \notin Destroying
      BY DEF Adding, Destroying
    <3>8. \A e \in Kept(m, r) : e \in Kept(mrl, r)
      BY <3>6, <3>7, <1>KeptElsewhere, Zenon
    <3>9. m = mrl' OBVIOUS
    <3> HIDE DEF m
    <3> QED BY <3>4, <3>7, <3>8, <3>9, <1>LossKept, Zenon
  <2>.  CASE Rearrange
    <3>.  mrl.pc = "promote" /\ UNCHANGED status
          /\ m = Fresh("leave", mrl.tempNonredundant)
      BY Zenon DEF Rearrange, Fresh, endpointVars
    <3>2. Range(r') = (Range(r) \ Range(mrl.tempNonredundant))
                        \cup Range(mrl.tempRedundant)
      BY RearrangeInv, Zenon
    <3>3. m.pc = "leave"
      <4>1. mrl.tempNonredundant \in Seq(Endpoints) BY HolderTypes, Zenon
      <4> QED BY <4>1, FreshHolder
    <3>.  /\ mrl.pc # "scan" /\ mrl.pc \notin Adding /\ mrl.pc \notin Destroying
          /\ m.pc \notin Busy
      BY <3>3 DEF Adding, Destroying, Busy
    <3>5. Rests(m) BY <2>1, Zenon DEF ListInv, HolderInv
    <3>6. Kept(m, r') = Range(r')
      <4> DEFINE q == r'
      <4> HIDE DEF m, q
      <4>1. Kept(m, q) = Range(q) BY <3>5, <1>KeptAtRest
      <4> QED BY <4>1 DEF q
    <3>7. \A e \in Kept(mrl', m_redundantEndpoints') : e \in Kept(mrl, r)
      BY <3>2, <3>6, <1>KeptElsewhere, Zenon
    <3> QED BY <3>7, <1>LossKept, <1>UnchangedKeeps, Zenon
  <2>.  CASE Leave
    <3>.  mrl.pc = "leave" /\ r' = r /\ UNCHANGED status BY DEF Leave, lists
    <3>2. m.pc \in {"leave", "idle"}
      <4>1. CASE mrl.todo = <<>> BY <4>1, IdleHolder DEF Leave
      <4>.  CASE mrl.todo # <<>>
        <5>1. m = Following BY Zenon DEF Leave
        <5>2. Following.pc = mrl.pc BY FollowingHolder, Zenon
        <5> QED BY <5>1, <5>2
      <4> QED BY <4>1
    <3>3. mrl.pc \notin Busy /\ mrl.pc \notin Destroying /\ m.pc \notin Busy
      BY <3>2 DEF Busy, Destroying
    <3> QED BY <2>3, <3>3, <1>UnchangedKeeps, Zenon
  <2>8. ASSUME NEW e \in Endpoints, PingFails(e) PROVE LossInv'
    <3>.  /\ mrl.pc = "idle" /\ r' = r /\ Disconnect(e)
          /\ m = Fresh("leave", <<e>>)
      BY <2>8, Zenon DEF PingFails, lists, Fresh
    <3>2. m.pc = "leave" BY PingedList, FreshHolder
    <3>3. mrl.pc \notin Busy /\ mrl.pc \notin Destroying /\ m.pc \notin Busy
      BY <3>2 DEF Busy, Destroying
    <3> QED BY <2>3, <3>3, <1>DisconnectKeeps, Zenon
  <2>9. CASE destroy
    <3>1. m = Fresh("stop", r) BY <2>9, Zenon DEF destroy, Fresh
    <3>2. m.pc = "stop"
      <4>1. r \in Seq(Endpoints) BY DEF TypeOK
      <4> QED BY <3>1, <4>1, FreshHolder
    <3> QED BY <2>2, <3>2 DEF Destroying
  <2>10. CASE DestroyStep
    <3>.  CASE StopReceiver \/ Cleaned
      <4>1. PICK pc \in {"stop", "clean"} : m = [Following EXCEPT !.pc = pc]
        BY DEF StopReceiver, Cleaned
      <4>2. mrl.todo # <<>> BY AddingTurn DEF StopReceiver, Cleaned
      <4>3. m.pc = pc BY <4>1, <4>2, StoppedHolder, Zenon
      <4> QED BY <2>2, <4>3 DEF Destroying
    <3>2. CASE close
      BY <2>2, <3>2, FreshHolder, ClosedHolder DEF close, Destroying
    <3>3. CASE StopChannel \/ StopEnds \/ LockToClean
      BY <2>2, <3>3, Zenon DEF StopChannel, StopEnds, LockToClean, Destroying, Holders
    <3> QED BY <2>10, <3>2, <3>3, Zenon DEF DestroyStep
  <2>11. ASSUME UNCHANGED <<mrl, sameLists>>, SeenStays PROVE LossInv'
    <3>1. CASE mrl.pc \in Destroying BY <2>2, <2>11, <3>1
    <3>2. CASE mrl.pc \notin Destroying
      <4>1. Kept(mrl', m_redundantEndpoints') = Kept(mrl, r)
        BY <2>11, Zenon DEF sameLists
      <4> QED BY <2>11, <3>2, <4>1, <1>LossKept, Zenon
    <3> QED BY <3>1, <3>2
  <2>.   CASE Monitor
    <3>1. SeenStays BY DEF Monitor, SeenStays, SeenNext
    <3> QED BY <2>11, <3>1 DEF Monitor, Untouched, lists, sameLists
  <2>13. ASSUME NEW e \in Endpoints, ReceiverStep(e) \/ ServerStep(e)
         PROVE  LossInv'
    <3>1. UNCHANGED <<mrl, sameLists>>
      BY <2>13 DEF ReceiverStep, ServerStep, ReceiveFails, CloseChannel, Quit,
                   Crash, Restart, Break, RequestFails, Reconnect,
                   Untouched, lists, sameLists
    <3>2. \/ UNCHANGED status
          \/ Disconnect(e)
          \/ UNCHANGED released /\ connected' = [connected EXCEPT ![e] = TRUE]
      BY <2>13 DEF ReceiverStep, ServerStep, ReceiveFails, CloseChannel, Quit,
                   Crash, Restart, Break, RequestFails, Reconnect
    <3>3. SeenStays
      BY <3>2, <1>UnchangedKeeps, <1>DisconnectKeeps, <1>ConnectKeeps, Zenon
    <3> QED BY <2>11, <3>1, <3>3, Zenon
  <2> QED BY <2>4, <2>8, <2>9, <2>10, <2>13, Zenon
             DEF Next, maintainRedundancyLevel
<1>LossInvHolds.
    Spec => []LossInv
  <2>1. Init => LossInv
    <3> SUFFICES ASSUME Init PROVE LossInv OBVIOUS
    <3> DEFINE r == m_redundantEndpoints
    <3>1. r = <<>> /\ mrl = Begun(TRUE) BY DEF Init
    <3>.  r \in Seq(Endpoints) /\ Len(r) = 0 /\ Range(r) = {} BY <3>1 DEF Range
    <3>3. mrl.pc = "scan" /\ mrl.todo = r /\ mrl.tempRedundant = <<>>
      BY <3>1, BegunHolder, Zenon
    <3>4. Len(r) - Len(mrl.todo) = 0
      <4>1. Len(mrl.todo) = 0 BY <3>3, Zenon
      <4> QED BY <4>1
    <3>5. Examined(mrl, r) = {}
      <4>1. 1..0 = {} OBVIOUS
      <4> QED BY <3>3, <3>4, <4>1, Zenon DEF Examined
    <3>6. Range(mrl.tempRedundant) = {} /\ mrl.pc \notin Adding
      BY <3>3 DEF Range, Adding
    <3>7. Kept(mrl, r) = {} BY <3>5, <3>6 DEF Kept
    <3> QED BY <3>7, Zenon DEF LossInv
  <2>2. TypesInv /\ LossInv /\ [Next]_vars => LossInv'
    <3> SUFFICES ASSUME TypesInv, LossInv, [Next]_vars PROVE LossInv' OBVIOUS
    <3>1. CASE UNCHANGED vars
      <4>1. UNCHANGED <<mrl, m_redundantEndpoints, connected, released>>
        BY <3>1 DEF vars, lists, status
      <4> QED BY <4>1, Zenon DEF LossInv
    <3> QED BY <3>1, <1>LossScanNext, <1>LossOffer, <1>LossRest, Zenon
  <2> QED BY <2>1, <2>2, TypesInvHolds, PTL DEF Spec
<1>1. TypesInv /\ LossInv => LossIsSeen
  <2> SUFFICES ASSUME TypesInv, LossInv, Free PROVE
         \A e \in Range(m_redundantEndpoints) : connected[e] \/ released
    BY Zenon DEF LossIsSeen
  <2>.  mrl.pc \notin Busy /\ mrl.pc \notin Destroying
    BY DEF Free, Busy, Destroying
  <2>2. Rests(mrl) BY ListFacts, Zenon DEF TypesInv
  <2>3. Kept(mrl, m_redundantEndpoints) = Range(m_redundantEndpoints)
    BY <2>2, <1>KeptAtRest
  <2> QED BY <2>3, Zenon DEF LossInv
<1> QED BY <1>1, TypesInvHolds, <1>LossInvHolds, PTL

-----------------------------------------------------------------------------
(* What the regions are told.                                              *)

KnowInv ==
  /\ refused = 0 => ~mrl.fatal
  /\ mrl.pc \notin Busy \cup {"closed"} /\ refused = 0 =>
       (m_allEndpointsDisconnected <=> m_redundantEndpoints = <<>>)

(* Nothing but a refusal is fatal.                                         *)
FatalStays == refused' = 0 => refused = 0 /\ mrl'.fatal = mrl.fatal

(* As long as no server answers with an error, the regions have been told  *)
(* that all endpoints are gone exactly when maintainRedundancyLevel left   *)
(* none redundant, after every run and through every retry.                *)
THEOREM RegionsAreTold ==
  Spec => []RegionsKnow
<1>RefusesCounts.
    ASSUME EndpointTypes, NEW e, NEW fatal,
           RequestError(e, fatal) \/ (~fatal /\ UNCHANGED refused) \/ Refuses(e)
    PROVE  refused' = 0 => refused = 0 /\ ~fatal
  <2> USE <1>RefusesCounts
  <2>1. refused \in Nat
    <3>1. MaxRefused \in Nat BY RedundancyAssumption
    <3> QED BY <3>1 DEF EndpointTypes
  <2>2. Refuses(e) => refused' # 0 BY <2>1 DEF Refuses
  <2> QED BY <2>2, Zenon DEF RequestError
<1>MakePrimaryCounts.
    ASSUME EndpointTypes, NEW e, NEW ok \in BOOLEAN, sendMakePrimaryMesg(e, ok)
    PROVE  refused' = 0 => refused = 0
  <2> USE <1>MakePrimaryCounts
  <2>1. RequestError(e, FALSE) \/ UNCHANGED refused BY Zenon DEF sendMakePrimaryMesg
  <2> QED BY <2>1, <1>RefusesCounts, Zenon
<1>MaintainStays.
    ASSUME ListInv, EndpointTypes, Scan \/ Offer \/ Promote
    PROVE  mrl'.pc \in Busy /\ FatalStays
  <2> USE <1>MaintainStays
  <2>.  mrl \in Holders BY ListFacts, Zenon
  <2>1. ASSUME mrl' = Gone \/ Scanned, Goes("scan")
        PROVE  mrl'.pc = "scan" /\ mrl'.fatal = mrl.fatal
    <3>1. mrl.pc = "scan" /\ mrl.todo # <<>> BY <2>1, Zenon DEF Goes
    <3>2. Gone.pc = "scan" /\ Gone.fatal = mrl.fatal BY <3>1, GoneHolder, Zenon
    <3> QED BY <2>1, <3>2, Zenon DEF Scanned
  <2>.  CASE ScanFirst \/ ScanSecondary
    <3>1. Goes("scan") /\ UNCHANGED refused
      BY DEF ScanFirst, ScanSecondary, endpointVars
    <3>2. mrl'.pc = "scan" /\ mrl'.fatal = mrl.fatal
      BY <2>1, <3>1, ScanFirstInv, ScanSecondaryInv, Zenon
    <3> QED BY <3>1, <3>2 DEF Busy, FatalStays
  <2>.  CASE ScanPromote
    <3>1. Goes("scan") BY Zenon DEF ScanPromote
    <3>2. mrl'.pc = "scan" /\ mrl'.fatal = mrl.fatal
      BY <2>1, <3>1, ScanPromoteInv, Zenon
    <3>3. refused' = 0 => refused = 0
      BY <1>MakePrimaryCounts, Zenon DEF ScanPromote
    <3> QED BY <3>2, <3>3 DEF Busy, FatalStays
  <2>4. CASE Select
    BY <2>4 DEF Select, Holders, endpointVars, Busy, FatalStays
  <2>.  CASE Promote
    <3> DEFINE t == Front(mrl.tempRedundant)
    <3>1. /\ mrl.pc = "promote"
          /\ \/ mrl' = [mrl EXCEPT !.isPrimaryConnected = TRUE, !.isPrimaryAtBack = TRUE]
             \/ mrl' = [mrl EXCEPT !.tempRedundant = t]
      BY DEF Promote, Promotes
    <3> HIDE DEF t
    <3>2. mrl'.pc = "promote" /\ mrl'.fatal = mrl.fatal BY <3>1, Zenon DEF Holders
    <3>3. refused' = 0 => refused = 0 BY <1>MakePrimaryCounts, Zenon DEF Promote
    <3> QED BY <3>2, <3>3 DEF Busy, FatalStays
  <2>6. CASE Skip
    <3>1. mrl' = Following /\ mrl.pc = "offer" /\ mrl.todo # <<>>
          /\ UNCHANGED refused
      BY <2>6 DEF Skip, Goes, endpointVars
    <3>2. Following.pc = mrl.pc /\ Following.fatal = mrl.fatal
      BY <3>1, FollowingHolder, Zenon
    <3> QED BY <3>1, <3>2 DEF Busy, FatalStays
  <2>7. CASE Register \/ Join \/ Started \/ OfferEnds
    BY <2>7, Zenon DEF Register, Join, Started, OfferEnds, Holders, endpointVars,
                      Busy, FatalStays
  <2>8. CASE Recover
    BY <2>8, RecoverInv DEF Recover, Recovered, endpointVars, Busy, FatalStays
  <2>.  CASE RegisterFails \/ RecoverFails \/ RecoverCqsFails
    <3>1. mrl.pc \in Adding \/ Goes("offer")
      BY Zenon DEF RegisterFails, RecoverFails, RecoverCqsFails, Adding
    <3>2. mrl.todo # <<>> BY <3>1, OfferedFacts, Zenon
    <3>.  PICK fatal \in BOOLEAN :
            /\ mrl' = Failed(fatal)
            /\ \/ RequestError(ep, fatal)
               \/ ~fatal /\ UNCHANGED refused
               \/ Refuses(ep)
      BY Zenon DEF RegisterFails, RecoverFails, RecoverCqsFails
    <3>4. refused' = 0 => refused = 0 /\ ~fatal BY <1>RefusesCounts, Zenon
    <3>5. Failed(fatal).pc = "offer" /\ (Failed(fatal).fatal <=> mrl.fatal \/ fatal)
      BY <3>2, FailedHolder, Zenon
    <3>6. Failed(fatal) \in Holders BY <3>2, FailedHolder, Zenon
    <3>7. mrl'.fatal \in BOOLEAN /\ mrl.fatal \in BOOLEAN
      BY <3>6, HolderTypes
    <3>8. refused' = 0 => mrl'.fatal = mrl.fatal BY <3>4, <3>5, <3>7
    <3> QED BY <3>4, <3>5, <3>8 DEF Busy, FatalStays
  <2> QED BY <2>4, <2>6, <2>7, <2>8, Zenon DEF Scan, Offer
<1>KnowRearrange.
    ASSUME TypesInv, KnowInv, Rearrange
    PROVE  KnowInv'
  <2> USE <1>KnowRearrange
  <2> DEFINE r == m_redundantEndpoints
             tr == mrl.tempRedundant
             tn == mrl.tempNonredundant
  <2>.  TypeOK /\ ListInv /\ mrl \in Holders BY ListFacts, Zenon DEF TypesInv
  <2>.  /\ mrl.pc = "promote" /\ UNCHANGED refused
        /\ ~mrl.isPrimaryConnected => tr = <<>>
        /\ mrl' = Fresh("leave", tn)
        /\ m_allEndpointsDisconnected' <=> AllDisconnected
    BY DEF Rearrange, Promotes, endpointVars, Fresh
  <2>2. tr \in Seq(Endpoints) /\ tn \in Seq(Endpoints) /\ r \in Seq(Endpoints)
    BY HolderTypes, Zenon DEF TypeOK
  <2>3. ~mrl'.fatal BY <2>2, FreshHolder
  <2>.  /\ Promoting(mrl, r, m_nonredundantEndpoints)
        /\ mrl.isRedundancySatisfied => mrl.isPrimaryConnected
    BY Zenon DEF ListInv, HolderInv
  <2>5. Len(r') = Total(mrl, r) /\ r' \in Seq(Endpoints)
    <3>1. ListInv' /\ Len(r') = Total(mrl, r) BY RearrangeInv, Zenon
    <3> QED BY <3>1, Zenon DEF ListInv, HolderInv
  <2>6. r' = <<>> <=> Total(mrl, r) = 0
    <3> DEFINE q == r'
    <3> HIDE DEF q
    <3>1. q \in Seq(Endpoints) /\ Len(q) = Total(mrl, r) BY <2>5 DEF q
    <3>2. q = <<>> <=> Len(q) = 0 BY <3>1, SeqFacts
    <3> QED BY <3>1, <3>2, Zenon DEF q
  <2>.  CASE mrl.isPrimaryConnected
    <3>1. Total(mrl, r) > 0 BY Zenon DEF Promoting
    <3>2. Total(mrl, r) # 0 BY <3>1
    <3>3. refused = 0 => ~AllDisconnected
      BY Zenon DEF AllDisconnected, KnowInv
    <3>4. refused' = 0 => (m_allEndpointsDisconnected' <=> r' = <<>>)
      BY <2>6, <3>2, <3>3, Zenon
    <3> QED BY <2>3, <3>4, Zenon DEF KnowInv
  <2>.  CASE ~mrl.isPrimaryConnected
    <3>1. Len(tn) = Len(r) /\ tr = <<>> BY Zenon DEF Promoting
    <3>2. Len(r) \in Nat /\ Len(<<>>) = 0 BY <2>2
    <3>3. Total(mrl, r) = 0
      <4>1. Total(mrl, r) = (Len(r) - Len(tn)) + Len(tr) BY Zenon DEF Total
      <4>2. Len(tr) = 0 BY <3>1, <3>2, Zenon
      <4> QED BY <3>1, <3>2, <4>1, <4>2
    <3>4. AllDisconnected BY Zenon DEF AllDisconnected
    <3>5. m_allEndpointsDisconnected' <=> r' = <<>>
      BY <2>6, <3>3, <3>4, Zenon
    <3> QED BY <2>3, <3>5, Zenon DEF KnowInv
  <2> QED BY Zenon
<1>KnowNext.
    ASSUME TypesInv, KnowInv, [Next]_vars
    PROVE  KnowInv'
  <2> USE <1>KnowNext
  <2>.  /\ TypeOK /\ ListInv /\ EndpointTypes /\ mrl \in Holders
        /\ m_redundantEndpoints \in Seq(Endpoints)
    BY TypesSplit, ListFacts, Zenon DEF TypesInv
  <2>1. ASSUME mrl'.pc \in Busy, FatalStays PROVE KnowInv'
    BY <2>1, Zenon DEF KnowInv, FatalStays
  <2>2. CASE Scan \/ Offer \/ Promote BY <2>1, <2>2, <1>MaintainStays, Zenon
  <2>3. CASE redundancy \/ maintainAfterError
    <3>1. mrl' = Begun(FALSE)
      BY <2>3, Zenon DEF redundancy, maintainAfterError
    <3>2. mrl'.pc = "scan" /\ ~mrl'.fatal BY <3>1, BegunHolder, Zenon
    <3>3. mrl'.pc \in Busy BY <3>2 DEF Busy
    <3> QED BY <3>2, <3>3, Zenon DEF KnowInv
  <2>4. ASSUME mrl.pc \notin Busy \cup {"closed"}, UNCHANGED <<lists, refused>>,
               ~mrl'.fatal \/ mrl'.fatal = mrl.fatal
        PROVE  KnowInv'
    <3>1. /\ m_allEndpointsDisconnected' = m_allEndpointsDisconnected
          /\ m_redundantEndpoints' = m_redundantEndpoints /\ refused' = refused
      BY <2>4 DEF lists
    <3> QED BY <2>4, <3>1, Zenon DEF KnowInv
  <2>.  CASE Leave
    <3>1. mrl.pc \notin Busy \cup {"closed"} /\ UNCHANGED <<lists, refused>>
      BY DEF Leave, Busy
    <3>2. CASE mrl.todo = <<>> BY <2>4, <3>1, <3>2, IdleHolder, Zenon DEF Leave
    <3>3. CASE mrl.todo # <<>>
      BY <2>4, <3>1, <3>3, FollowingHolder, Zenon DEF Leave
    <3> QED BY <3>2, <3>3
  <2>6. ASSUME NEW e \in Endpoints, PingFails(e) PROVE KnowInv'
    <3>1. /\ mrl.pc \notin Busy \cup {"closed"} /\ UNCHANGED <<lists, refused>>
          /\ mrl' = Fresh("leave", <<e>>)
      BY <2>6 DEF PingFails, Fresh, Busy
    <3>3. ~mrl'.fatal BY <3>1, PingedList, FreshHolder
    <3> QED BY <2>4, <3>1, <3>3, Zenon
  <2>7. CASE destroy
    <3>1. /\ mrl.pc \notin Busy \cup {"closed"} /\ UNCHANGED <<lists, refused>>
          /\ mrl' = Fresh("stop", m_redundantEndpoints)
      BY <2>7 DEF destroy, endpointVars, Fresh, Busy
    <3>3. ~mrl'.fatal BY <3>1, FreshHolder
    <3> QED BY <2>4, <3>1, <3>3, Zenon
  <2>.  CASE StopChannel \/ StopEnds \/ LockToClean
    <3>1. mrl.pc \notin Busy \cup {"closed"} /\ UNCHANGED <<lists, refused>>
      BY DEF StopChannel, StopEnds, LockToClean, Goes, Ends, endpointVars, Busy
    <3>2. mrl'.fatal = mrl.fatal
      BY Zenon DEF StopChannel, StopEnds, LockToClean, Holders
    <3> QED BY <2>4, <3>1, <3>2, Zenon
  <2>.  CASE StopReceiver \/ Cleaned
    <3>1. mrl.pc \notin Busy \cup {"closed"} /\ UNCHANGED <<lists, refused>>
      BY DEF StopReceiver, Cleaned, Busy
    <3>2. PICK pc \in {"stop", "clean"} : mrl' = [Following EXCEPT !.pc = pc]
      BY DEF StopReceiver, Cleaned
    <3>3. mrl.todo # <<>> BY AddingTurn DEF StopReceiver, Cleaned
    <3>4. mrl'.fatal = mrl.fatal BY <3>2, <3>3, StoppedHolder, Zenon
    <3> QED BY <2>4, <3>1, <3>4, Zenon
  <2>10. CASE close
    <3> DEFINE e == <<>>
    <3>1. mrl' = Fresh("closed", e) /\ e \in Seq(Endpoints)
      BY <2>10, ClosedHolder DEF close
    <3> HIDE DEF e
    <3>2. mrl'.pc = "closed" /\ ~mrl'.fatal BY <3>1, FreshHolder
    <3> QED BY <3>2, Zenon DEF KnowInv
  <2>11. ASSUME UNCHANGED <<mrl, lists, refused>> PROVE KnowInv'
    BY <2>11 DEF KnowInv, lists
  <2>12. CASE Monitor BY <2>11, <2>12 DEF Monitor, Untouched
  <2>13. ASSUME NEW e \in Endpoints, ReceiverStep(e) \/ ServerStep(e)
         PROVE  KnowInv'
    <3>1. UNCHANGED <<mrl, lists, refused>>
      BY <2>13 DEF ReceiverStep, ServerStep, ReceiveFails, CloseChannel, Quit,
                   Crash, Restart, Break, RequestFails, Reconnect, Untouched
    <3> QED BY <2>11, <3>1
  <2>14. CASE UNCHANGED vars BY <2>11, <2>14 DEF vars
  <2> QED BY <2>2, <2>3, <2>6, <2>7, <2>10, <2>12, <2>13, <2>14,
             <1>KnowRearrange, Zenon DEF Next, maintainRedundancyLevel, DestroyStep
<1>1. Init => KnowInv
  <2> SUFFICES ASSUME Init PROVE KnowInv OBVIOUS
  <2>1. mrl = Begun(TRUE) /\ m_redundantEndpoints = <<>> BY DEF Init
  <2>2. m_redundantEndpoints \in Seq(Endpoints) BY <2>1
  <2>3. mrl.pc = "scan" /\ ~mrl.fatal BY <2>1, <2>2, BegunHolder, Zenon
  <2>4. mrl.pc \in Busy BY <2>3 DEF Busy
  <2> QED BY <2>3, <2>4, Zenon DEF KnowInv
<1>2. TypesInv /\ KnowInv /\ [Next]_vars => KnowInv' BY <1>KnowNext
<1>3. KnowInv => RegionsKnow
  <2> SUFFICES ASSUME KnowInv, Free PROVE RegionsKnow BY DEF RegionsKnow
  <2>1. mrl.pc \notin Busy \cup {"closed"} BY DEF Free, Busy
  <2> QED BY <2>1, Zenon DEF KnowInv, RegionsKnow
<1> QED BY <1>1, <1>2, <1>3, TypesInvHolds, PTL DEF Spec
=============================================================================
