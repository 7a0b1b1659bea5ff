------------------------ MODULE EsFileManager_proofs ------------------------
(****************************************************************************)
(* Proofs about EsFileManager for any files, sizes and lengths of queues,   *)
(* and however often the link is lost: no requested file is ever forgotten  *)
(* or doubled, and a manager is in the middle of one message at most, as    *)
(* run asserts.                                                             *)
(*                                                                          *)
(* The inductive invariant EsInv says of each manager that its queue holds  *)
(* commands about files that it has or knows of, that a large write and a   *)
(* pending message exclude each other, and that the requested and the       *)
(* remote files together are those of the application.  A call of run is a  *)
(* loop of sends; that one of them keeps its parts in order is shown lemma  *)
(* by lemma, ...Works, and that an operation keeps the invariant by the     *)
(* lemmas ...Keeps.                                                         *)
(****************************************************************************)
EXTENDS EsFileManager, SequenceLemmas, TLAPS

(* The names of a list of files, and that each is there once.               *)
Names(files) == {f.name : f \in Range(files)}
Once(files) == \A i, j \in DOMAIN files : files[i].name = files[j].name => i = j

(* A sequence of whatever elements.                                         *)
IsSeq(s) == \E S : s \in Seq(S)

(* The length and the domain of a sequence.                                 *)
LEMMA SeqFacts ==
  ASSUME NEW s, IsSeq(s)
  PROVE  Len(s) \in Nat /\ DOMAIN s = 1..Len(s)
<1>1. PICK S : s \in Seq(S)
  BY DEF IsSeq
<1> QED BY <1>1, LenProperties

(* The names of a list are those at its places.                             *)
LEMMA NamesAt ==
  ASSUME NEW s
  PROVE  Names(s) = {s[i].name : i \in DOMAIN s}
  BY DEF Names, Range

(* Two sequences have a common set of elements.                             *)
LEMMA CommonSet ==
  ASSUME NEW s, IsSeq(s), NEW t, IsSeq(t)
  PROVE  \E S : s \in Seq(S) /\ t \in Seq(S)
<1>1. PICK S : s \in Seq(S)
  BY DEF IsSeq
<1>2. PICK T : t \in Seq(T)
  BY DEF IsSeq
<1> DEFINE U == S \cup T
<1>3. S \subseteq U /\ T \subseteq U
  OBVIOUS
<1> HIDE DEF U
<1>4. s \in Seq(U) /\ t \in Seq(U)
  BY <1>1, <1>2, <1>3, SeqMonotonic
<1> QED BY <1>4

(* A sequence and one more element have a common set of elements.           *)
LEMMA WithElement ==
  ASSUME NEW s, IsSeq(s), NEW e
  PROVE  \E S : s \in Seq(S) /\ e \in S
<1>1. PICK S : s \in Seq(S)
  BY DEF IsSeq
<1> DEFINE U == S \cup {e}
<1>2. S \subseteq U /\ e \in U
  OBVIOUS
<1> HIDE DEF U
<1>3. s \in Seq(U)
  BY <1>1, <1>2, SeqMonotonic
<1> QED BY <1>2, <1>3

(* What Append returns.                                                     *)
LEMMA Appended ==
  ASSUME NEW s, IsSeq(s), NEW e
  PROVE  /\ IsSeq(Append(s, e)) /\ Len(Append(s, e)) = Len(s) + 1
         /\ \A i \in 1..Len(s) : Append(s, e)[i] = s[i]
         /\ Append(s, e)[Len(s) + 1] = e
<1>1. PICK S : s \in Seq(S) /\ e \in S
  BY WithElement
<1>2. /\ Append(s, e) \in Seq(S)
      /\ Len(Append(s, e)) = Len(s) + 1
      /\ \A i \in 1..Len(s) : Append(s, e)[i] = s[i]
      /\ Append(s, e)[Len(s) + 1] = e
  BY <1>1, AppendProperties
<1> QED BY <1>2 DEF IsSeq

(* What Tail and Head return.                                               *)
LEMMA Rest ==
  ASSUME NEW s, IsSeq(s), s # <<>>
  PROVE  /\ IsSeq(Tail(s)) /\ Len(Tail(s)) = Len(s) - 1
         /\ \A i \in 1..(Len(s) - 1) : Tail(s)[i] = s[i + 1]
         /\ Head(s) = s[1] /\ 1 \in DOMAIN s
<1>1. PICK S : s \in Seq(S)
  BY DEF IsSeq
<1>2. /\ Tail(s) \in Seq(S) /\ Len(Tail(s)) = Len(s) - 1
      /\ \A i \in 1..Len(Tail(s)) : Tail(s)[i] = s[i + 1]
  BY <1>1, HeadTailProperties
<1>3. Len(s) \in Nat \ {0} /\ DOMAIN s = 1..Len(s)
  BY <1>1, EmptySeq, LenProperties
<1>4. 1 \in DOMAIN s
  BY <1>3, SMT
<1> QED BY <1>2, <1>4 DEF IsSeq

(* What \o returns.                                                         *)
LEMMA Joined ==
  ASSUME NEW s, IsSeq(s), NEW t, IsSeq(t)
  PROVE  /\ IsSeq(s \o t) /\ Len(s \o t) = Len(s) + Len(t)
         /\ \A i \in 1..(Len(s) + Len(t)) :
              (s \o t)[i] = IF i <= Len(s) THEN s[i] ELSE t[i - Len(s)]
<1>1. PICK S : s \in Seq(S) /\ t \in Seq(S)
  BY CommonSet
<1>2. /\ s \o t \in Seq(S) /\ Len(s \o t) = Len(s) + Len(t)
      /\ \A i \in 1..(Len(s) + Len(t)) :
           (s \o t)[i] = IF i <= Len(s) THEN s[i] ELSE t[i - Len(s)]
  BY <1>1, ConcatProperties
<1> QED BY <1>2 DEF IsSeq

(* The names of two lists together.                                         *)
LEMMA JoinedNames ==
  ASSUME NEW s, IsSeq(s), NEW t, IsSeq(t)
  PROVE  Names(s \o t) = Names(s) \cup Names(t)
<1> DEFINE m == Len(s)
           n == Len(t)
           u == s \o t
<1>1. m \in Nat /\ n \in Nat /\ DOMAIN s = 1..m /\ DOMAIN t = 1..n
  BY SeqFacts
<1>2. /\ DOMAIN u = 1..(m + n)
      /\ \A i \in 1..(m + n) : u[i] = IF i <= m THEN s[i] ELSE t[i - m]
  BY Joined, SeqFacts
<1>3. Names(u) = {u[i].name : i \in 1..(m + n)} /\ Names(s) = {s[i].name : i \in 1..m}
      /\ Names(t) = {t[i].name : i \in 1..n}
  BY <1>1, <1>2, NamesAt
<1> HIDE DEF m, n, u
<1>4. ASSUME NEW i \in 1..m PROVE i \in 1..(m + n) /\ u[i].name = s[i].name
  <2>1. i \in 1..(m + n) /\ i <= m
    BY <1>1, SMT
  <2> QED BY <1>2, <2>1
<1>5. ASSUME NEW i \in 1..n PROVE i + m \in 1..(m + n) /\ u[i + m].name = t[i].name
  <2>1. i + m \in 1..(m + n) /\ ~(i + m <= m) /\ (i + m) - m = i
    BY <1>1, SMT
  <2>2. u[i + m] = t[(i + m) - m]
    BY <1>2, <2>1
  <2> QED BY <2>1, <2>2
<1>6. ASSUME NEW i \in 1..(m + n)
      PROVE  (i \in 1..m /\ u[i].name = s[i].name) \/ (i - m \in 1..n /\ u[i].name = t[i - m].name)
  <2>1. CASE i <= m
    <3>1. i \in 1..m
      BY <1>1, <2>1, SMT
    <3> QED BY <1>2, <2>1, <3>1
  <2>2. CASE ~(i <= m)
    <3>1. i - m \in 1..n
      BY <1>1, <2>2, SMT
    <3>2. u[i] = t[i - m]
      BY <1>2, <2>2
    <3> QED BY <3>1, <3>2
  <2> QED BY <2>1, <2>2
<1>7. Names(u) \subseteq Names(s) \cup Names(t)
  BY <1>3, <1>6
<1>8. Names(s) \subseteq Names(u) /\ Names(t) \subseteq Names(u)
  BY <1>3, <1>4, <1>5
<1> QED BY <1>7, <1>8 DEF u

(* As many names as files.                                                  *)
LEMMA CountNames ==
  ASSUME NEW s, IsSeq(s), Once(s)
  PROVE  IsFiniteSet(Names(s)) /\ Cardinality(Names(s)) = Len(s)
<1> DEFINE n == Len(s)
           N == Names(s)
           D == 1..n
           f == [i \in D |-> s[i].name]
<1>1. n \in Nat /\ DOMAIN s = D /\ N = {s[i].name : i \in D}
  BY SeqFacts, NamesAt
<1>2. f \in [D -> N] /\ (\A i, j \in D : f[i] = f[j] => i = j) /\ \A x \in N : \E i \in D : f[i] = x
  BY <1>1 DEF Once
<1> HIDE DEF f, N, n
<1>3. IsFiniteSet(D) /\ Cardinality(D) = n
  <2>1. IsFiniteSet(1..n) /\ Cardinality(1..n) = n
    BY <1>1, FS_Interval, SMT
  <2> QED BY <2>1
<1> HIDE DEF D
<1>4. ExistsBijection(D, N)
  <2>1. f \in Bijection(D, N)
    BY <1>2 DEF Bijection, Injection, Surjection, IsInjective
  <2> QED BY <2>1 DEF ExistsBijection
<1>5. IsFiniteSet(N) /\ Cardinality(N) = Cardinality(D)
  BY <1>3, <1>4, FS_Bijection
<1> QED BY <1>3, <1>5 DEF N, n

(* A file is put into a list.                                               *)
LEMMA InsertedNames ==
  ASSUME NEW s, IsSeq(s), NEW e, NEW i \in 1..(Len(s) + 1)
  PROVE  LET t == InsertAt(s, i, e)
         IN /\ IsSeq(t) /\ Len(t) = Len(s) + 1
            /\ Names(t) = Names(s) \cup {e.name}
            /\ Once(s) /\ e.name \notin Names(s) => Once(t)
            /\ \A P : (e \in P /\ \A k \in 1..Len(s) : s[k] \in P) => \A k \in 1..Len(t) : t[k] \in P
<1> DEFINE n == Len(s)
           t == InsertAt(s, i, e)
<1>1. PICK S : s \in Seq(S) /\ e \in S
  BY WithElement
<1>2. /\ t \in Seq(S) /\ Len(t) = n + 1
      /\ \A k \in 1..(n + 1) : t[k] = IF k < i THEN s[k] ELSE IF k = i THEN e ELSE s[k - 1]
  BY <1>1, Inserted
<1>3. IsSeq(t) /\ n \in Nat /\ DOMAIN s = 1..n /\ DOMAIN t = 1..(n + 1)
  BY <1>1, <1>2, LenProperties DEF IsSeq
<1>4. Names(s) = {s[k].name : k \in 1..n} /\ Names(t) = {t[k].name : k \in 1..(n + 1)}
  BY <1>3, NamesAt
<1>5. i \in Nat /\ i >= 1 /\ i <= n + 1
  BY <1>3, SMT
<1> HIDE DEF n, t
<1>6. ASSUME NEW k \in 1..(n + 1)
      PROVE  \/ k = i /\ t[k] = e
             \/ k < i /\ k \in 1..n /\ t[k] = s[k]
             \/ k > i /\ k - 1 \in 1..n /\ t[k] = s[k - 1]
  <2>1. CASE k = i
    <3>1. ~(k < i)
      BY <1>5, <2>1, SMT
    <3> QED BY <1>2, <2>1, <3>1
  <2>2. CASE k < i
    <3>1. k \in 1..n
      BY <1>3, <1>5, <2>2, SMT
    <3> QED BY <1>2, <2>2, <3>1
  <2>3. CASE k > i
    <3>1. k - 1 \in 1..n /\ ~(k < i) /\ k # i
      BY <1>3, <1>5, <2>3, SMT
    <3> QED BY <1>2, <2>3, <3>1
  <2> QED BY <1>3, <1>5, <2>1, <2>2, <2>3, SMT
<1>7. ASSUME NEW k \in 1..n
      PROVE  (k \in 1..(n + 1) /\ t[k] = s[k]) \/ (k + 1 \in 1..(n + 1) /\ t[k + 1] = s[k])
  <2>1. CASE k < i
    <3>1. k \in 1..(n + 1)
      BY <1>3, SMT
    <3> QED BY <1>2, <2>1, <3>1
  <2>2. CASE ~(k < i)
    <3>1. k + 1 \in 1..(n + 1) /\ ~(k + 1 < i) /\ k + 1 # i /\ (k + 1) - 1 = k
      BY <1>3, <1>5, <2>2, SMT
    <3>2. t[k + 1] = s[(k + 1) - 1]
      BY <1>2, <3>1
    <3> QED BY <3>1, <3>2
  <2> QED BY <2>1, <2>2
<1>8. t[i] = e /\ i \in 1..(n + 1)
  <2>1. i \in 1..(n + 1) /\ ~(i < i)
    BY <1>3, <1>5, SMT
  <2> QED BY <1>2, <2>1
<1>9. Names(t) \subseteq Names(s) \cup {e.name}
  BY <1>4, <1>6
<1>10. Names(s) \cup {e.name} \subseteq Names(t)
  BY <1>4, <1>7, <1>8
<1>11. ASSUME Once(s), e.name \notin Names(s), NEW j \in 1..(n + 1), NEW k \in 1..(n + 1),
              t[j].name = t[k].name
       PROVE  j = k
  <2>1. \A x, y \in 1..n : s[x].name = s[y].name => x = y
    BY <1>3, <1>11 DEF Once
  <2>2. \A x \in 1..n : s[x].name # e.name
    BY <1>4, <1>11
  <2>3. CASE j = i
    BY <1>6, <1>11, <2>2, <2>3
  <2>4. CASE j < i
    <3>1. j \in 1..n /\ t[j] = s[j]
      BY <1>2, <1>3, <1>5, <2>4, SMT
    <3>2. CASE k = i
      BY <1>8, <1>11, <2>2, <3>1, <3>2
    <3>3. CASE k < i
      <4>1. k \in 1..n /\ t[k] = s[k]
        BY <1>2, <1>3, <1>5, <3>3, SMT
      <4> QED BY <1>11, <2>1, <3>1, <4>1
    <3>4. CASE k > i
      <4>1. k - 1 \in 1..n /\ ~(k < i) /\ k # i /\ j # k - 1
        BY <1>3, <1>5, <2>4, <3>4, SMT
      <4>2. t[k] = s[k - 1]
        BY <1>2, <4>1
      <4> QED BY <1>11, <2>1, <3>1, <4>1, <4>2
    <3> QED BY <1>3, <1>5, <3>2, <3>3, <3>4, SMT
  <2>5. CASE j > i
    <3>1. j - 1 \in 1..n /\ ~(j < i) /\ j # i
      BY <1>3, <1>5, <2>5, SMT
    <3>2. t[j] = s[j - 1]
      BY <1>2, <3>1
    <3>3. CASE k = i
      BY <1>8, <1>11, <2>2, <3>1, <3>2, <3>3
    <3>4. CASE k < i
      <4>1. k \in 1..n /\ k # j - 1
        BY <1>3, <1>5, <2>5, <3>4, SMT
      <4>2. t[k] = s[k]
        BY <1>2, <3>4
      <4> QED BY <1>11, <2>1, <3>1, <3>2, <4>1, <4>2
    <3>5. CASE k > i
      <4>1. k - 1 \in 1..n /\ ~(k < i) /\ k # i
        BY <1>3, <1>5, <3>5, SMT
      <4>2. t[k] = s[k - 1]
        BY <1>2, <4>1
      <4>3. j - 1 = k - 1
        BY <1>11, <2>1, <3>1, <3>2, <4>1, <4>2
      <4> QED BY <1>3, <4>3, SMT
    <3> QED BY <1>3, <1>5, <3>3, <3>4, <3>5, SMT
  <2> QED BY <1>3, <1>5, <2>3, <2>4, <2>5, SMT
<1>12. Once(s) /\ e.name \notin Names(s) => Once(t)
  BY <1>3, <1>11 DEF Once
<1>13. ASSUME NEW P, e \in P, \A k \in 1..n : s[k] \in P, NEW k \in 1..(n + 1)
       PROVE  t[k] \in P
  BY <1>6, <1>13
<1> QED BY <1>2, <1>3, <1>9, <1>10, <1>12, <1>13 DEF n, t

(* A file is taken out of a list.                                           *)
LEMMA RemovedNames ==
  ASSUME NEW s, IsSeq(s), Once(s), NEW i \in 1..Len(s)
  PROVE  LET t == RemoveAt(s, i)
         IN /\ IsSeq(t) /\ Len(t) = Len(s) - 1 /\ Once(t)
            /\ Names(t) = Names(s) \ {s[i].name}
            /\ \A P : (\A k \in 1..Len(s) : s[k] \in P) => \A k \in 1..Len(t) : t[k] \in P
<1> DEFINE n == Len(s)
           t == RemoveAt(s, i)
<1>1. PICK S : s \in Seq(S)
  BY DEF IsSeq
<1>2. /\ t \in Seq(S) /\ Len(t) = n - 1
      /\ \A k \in 1..(n - 1) : t[k] = IF k < i THEN s[k] ELSE s[k + 1]
  BY <1>1, Removed
<1>3. IsSeq(t) /\ n \in Nat /\ DOMAIN s = 1..n /\ DOMAIN t = 1..(n - 1)
  BY <1>1, <1>2, LenProperties DEF IsSeq
<1>4. Names(s) = {s[k].name : k \in 1..n} /\ Names(t) = {t[k].name : k \in 1..(n - 1)}
  BY <1>3, NamesAt
<1>5. i \in Nat /\ i >= 1 /\ i <= n /\ i \in 1..n
  BY <1>3, SMT
<1>6. \A x, y \in 1..n : s[x].name = s[y].name => x = y
  BY <1>3 DEF Once
<1> HIDE DEF n, t
<1>7. ASSUME NEW k \in 1..(n - 1)
      PROVE  \/ k < i /\ k \in 1..n /\ k # i /\ t[k] = s[k]
             \/ ~(k < i) /\ k + 1 \in 1..n /\ k + 1 # i /\ t[k] = s[k + 1]
  <2>1. CASE k < i
    <3>1. k \in 1..n /\ k # i
      BY <1>3, <1>5, <2>1, SMT
    <3> QED BY <1>2, <2>1, <3>1
  <2>2. CASE ~(k < i)
    <3>1. k + 1 \in 1..n /\ k + 1 # i
      BY <1>3, <1>5, <2>2, SMT
    <3> QED BY <1>2, <2>2, <3>1
  <2> QED BY <2>1, <2>2
<1>8. ASSUME NEW k \in 1..n, k # i
      PROVE  (k \in 1..(n - 1) /\ t[k] = s[k]) \/ (k - 1 \in 1..(n - 1) /\ t[k - 1] = s[k])
  <2>1. CASE k < i
    <3>1. k \in 1..(n - 1)
      BY <1>3, <1>5, <2>1, SMT
    <3> QED BY <1>2, <2>1, <3>1
  <2>2. CASE ~(k < i)
    <3>1. k - 1 \in 1..(n - 1) /\ ~(k - 1 < i) /\ (k - 1) + 1 = k
      BY <1>3, <1>5, <1>8, <2>2, SMT
    <3>2. t[k - 1] = s[(k - 1) + 1]
      BY <1>2, <3>1
    <3> QED BY <3>1, <3>2
  <2> QED BY <2>1, <2>2
<1>9. Names(t) \subseteq Names(s) \ {s[i].name}
  BY <1>4, <1>5, <1>6, <1>7
<1>10. Names(s) \ {s[i].name} \subseteq Names(t)
  BY <1>4, <1>8
<1>11. ASSUME NEW j \in 1..(n - 1), NEW k \in 1..(n - 1), t[j].name = t[k].name
       PROVE  j = k
  <2>1. CASE j < i /\ k < i
    BY <1>6, <1>7, <1>11, <2>1
  <2>2. CASE ~(j < i) /\ ~(k < i)
    <3>1. j + 1 = k + 1
      BY <1>6, <1>7, <1>11, <2>2
    <3> QED BY <1>3, <3>1, SMT
  <2>3. CASE j < i /\ ~(k < i)
    <3>1. j = k + 1
      BY <1>6, <1>7, <1>11, <2>3
    <3> QED BY <1>3, <1>5, <2>3, <3>1, SMT
  <2>4. CASE ~(j < i) /\ k < i
    <3>1. j + 1 = k
      BY <1>6, <1>7, <1>11, <2>4
    <3> QED BY <1>3, <1>5, <2>4, <3>1, SMT
  <2> QED BY <2>1, <2>2, <2>3, <2>4
<1>12. Once(t)
  BY <1>3, <1>11 DEF Once
<1>13. ASSUME NEW P, \A k \in 1..n : s[k] \in P, NEW k \in 1..(n - 1)
       PROVE  t[k] \in P
  BY <1>7, <1>13
<1> QED BY <1>2, <1>3, <1>9, <1>10, <1>12, <1>13 DEF n, t

(* The list as it grows by one file after the other.                        *)
IsAttaching(f, d) ==
  f = [i \in 0..Len(LocalFiles[d]) |-> IF i = 0 THEN <<>> ELSE apx_es_fileMap_autoInsert(f[i - 1], LocalFiles[d][i])]

(* The lists that a device goes through while it attaches its files exist;  *)
(* Attached is the last of them.                                            *)
LEMMA AttachedExists ==
  ASSUME NEW d \in Devices
  PROVE \E f : IsAttaching(f, d)
<1> DEFINE n == Len(LocalFiles[d])
           Is(f, k) == /\ f = [i \in 0..k |-> f[i]]
                       /\ \A i \in 0..k : f[i] = IF i = 0 THEN <<>> ELSE apx_es_fileMap_autoInsert(f[i - 1], LocalFiles[d][i])
           Bad == {k \in 0..n : ~\E f : Is(f, k)}
<1>1. n \in Nat
  BY EsFileManagerAssumption, LenProperties
<1> HIDE DEF n
<1>2. Bad = {}
  <2> SUFFICES ASSUME Bad # {} PROVE FALSE
    OBVIOUS
  <2>1. PICK k \in Bad : \A j \in Bad : ~(j < k)
    <3>1. Bad \subseteq Nat
      BY <1>1, SMT
    <3> HIDE DEF Bad
    <3> QED BY <3>1, LeastExists
  <2>2. k \in 0..n /\ ~\E f : Is(f, k)
    OBVIOUS
  <2>3. k # 0
    <3> SUFFICES ASSUME k = 0 PROVE FALSE
      OBVIOUS
    <3> DEFINE f == [i \in 0..0 |-> <<>>]
    <3>1. \A i \in 0..0 : i = 0
      BY SMT
    <3>2. 0 \in 0..0
      BY SMT
    <3>3. f[0] = <<>>
      BY <3>2
    <3>4. \A i \in 0..0 : f[i] = IF i = 0 THEN <<>> ELSE apx_es_fileMap_autoInsert(f[i - 1], LocalFiles[d][i])
      <4> HIDE DEF f
      <4> QED BY <3>1, <3>3
    <3>5. f = [i \in 0..0 |-> f[i]]
      OBVIOUS
    <3>6. Is(f, 0)
      <4> HIDE DEF f
      <4> QED BY <3>4, <3>5
    <3> HIDE DEF f, Is
    <3> QED BY <2>2, <3>6
  <2>4. k - 1 \in 0..n /\ k - 1 < k /\ k - 1 \in 0..(k - 1) /\ 0 \in 0..(k - 1)
    BY <1>1, <2>2, <2>3, SMT
  <2>5. PICK f : Is(f, k - 1)
    <3>1. k - 1 \notin Bad
      <4> HIDE DEF Bad
      <4> QED BY <2>1, <2>4
    <3> QED BY <2>4, <3>1
  <2> DEFINE g == [i \in 0..k |-> IF i = k THEN apx_es_fileMap_autoInsert(f[k - 1], LocalFiles[d][k]) ELSE f[i]]
  <2>6. \A i \in 0..k : i # k => i \in 0..(k - 1)
    BY <1>1, <2>2, SMT
  <2>7. \A i \in 0..k : i # 0 => i - 1 \in 0..k /\ i - 1 # k
    BY <1>1, <2>2, SMT
  <2>8. k \in 0..k
    BY <2>2, SMT
  <2>9. \A i \in 0..k : g[i] = IF i = k THEN apx_es_fileMap_autoInsert(f[k - 1], LocalFiles[d][k]) ELSE f[i]
    OBVIOUS
  <2>10. g = [i \in 0..k |-> g[i]]
    OBVIOUS
  <2> HIDE DEF g
  <2>11. ASSUME NEW i \in 0..k
         PROVE  g[i] = IF i = 0 THEN <<>> ELSE apx_es_fileMap_autoInsert(g[i - 1], LocalFiles[d][i])
    <3>1. CASE i = k
      <4>1. g[k] = apx_es_fileMap_autoInsert(f[k - 1], LocalFiles[d][k])
        BY <2>8, <2>9
      <4>2. g[k - 1] = f[k - 1]
        BY <2>3, <2>7, <2>8, <2>9
      <4> QED BY <2>3, <3>1, <4>1, <4>2
    <3>2. CASE i # k
      <4>1. g[i] = f[i] /\ i \in 0..(k - 1)
        BY <2>6, <2>9, <3>2
      <4>2. f[i] = IF i = 0 THEN <<>> ELSE apx_es_fileMap_autoInsert(f[i - 1], LocalFiles[d][i])
        BY <2>5, <4>1
      <4>3. i # 0 => g[i - 1] = f[i - 1]
        BY <2>7, <2>9
      <4> QED BY <4>1, <4>2, <4>3
    <3> QED BY <3>1, <3>2
  <2>12. Is(g, k)
    BY <2>10, <2>11
  <2> HIDE DEF Is
  <2> QED BY <2>2, <2>12
<1>3. n \in 0..n
  BY <1>1, SMT
<1>4. PICK f : Is(f, n)
  BY <1>2, <1>3
<1>5. f = [i \in 0..n |-> IF i = 0 THEN <<>> ELSE apx_es_fileMap_autoInsert(f[i - 1], LocalFiles[d][i])]
  BY <1>4, Zenon
<1> QED BY <1>5 DEF IsAttaching, n

(* The states of the transmission from one fragment to the next.            *)
IsFragmenting(f, t) ==
  f = [i \in 0..LinkSize |-> IF i = 0 THEN t ELSE (CHOOSE y \in {NextFragment(z) : z \in {f[i - 1]}} : TRUE)]

(* They exist; processPendingWrite returns the last of them.                *)
LEMMA FragmentsExist ==
  ASSUME NEW t
  PROVE \E f : IsFragmenting(f, t)
<1> DEFINE n == LinkSize
           Is(f, k) == /\ f = [i \in 0..k |-> f[i]]
                       /\ \A i \in 0..k : f[i] = IF i = 0 THEN t ELSE (CHOOSE y \in {NextFragment(z) : z \in {f[i - 1]}} : TRUE)
           Bad == {k \in 0..n : ~\E f : Is(f, k)}
<1>1. n \in Nat
  BY EsFileManagerAssumption
<1> HIDE DEF n
<1>2. Bad = {}
  <2> SUFFICES ASSUME Bad # {} PROVE FALSE
    OBVIOUS
  <2>1. PICK k \in Bad : \A j \in Bad : ~(j < k)
    <3>1. Bad \subseteq Nat
      BY <1>1, SMT
    <3> HIDE DEF Bad
    <3> QED BY <3>1, LeastExists
  <2>2. k \in 0..n /\ ~\E f : Is(f, k)
    OBVIOUS
  <2>3. k # 0
    <3> SUFFICES ASSUME k = 0 PROVE FALSE
      OBVIOUS
    <3> DEFINE f == [i \in 0..0 |-> t]
    <3>1. \A i \in 0..0 : i = 0
      BY SMT
    <3>2. 0 \in 0..0
      BY SMT
    <3>3. f[0] = t
      BY <3>2
    <3>4. \A i \in 0..0 : f[i] = IF i = 0 THEN t ELSE (CHOOSE y \in {NextFragment(z) : z \in {f[i - 1]}} : TRUE)
      <4> HIDE DEF f
      <4> QED BY <3>1, <3>3
    <3>5. f = [i \in 0..0 |-> f[i]]
      OBVIOUS
    <3>6. Is(f, 0)
      <4> HIDE DEF f
      <4> QED BY <3>4, <3>5
    <3> HIDE DEF f, Is
    <3> QED BY <2>2, <3>6
  <2>4. k - 1 \in 0..n /\ k - 1 < k /\ k - 1 \in 0..(k - 1) /\ 0 \in 0..(k - 1)
    BY <1>1, <2>2, <2>3, SMT
  <2>5. PICK f : Is(f, k - 1)
    <3>1. k - 1 \notin Bad
      <4> HIDE DEF Bad
      <4> QED BY <2>1, <2>4
    <3> QED BY <2>4, <3>1
  <2> DEFINE g == [i \in 0..k |-> IF i = k THEN (CHOOSE y \in {NextFragment(z) : z \in {f[k - 1]}} : TRUE) ELSE f[i]]
  <2>6. \A i \in 0..k : i # k => i \in 0..(k - 1)
    BY <1>1, <2>2, SMT
  <2>7. \A i \in 0..k : i # 0 => i - 1 \in 0..k /\ i - 1 # k
    BY <1>1, <2>2, SMT
  <2>8. k \in 0..k
    BY <2>2, SMT
  <2>9. \A i \in 0..k : g[i] = IF i = k THEN (CHOOSE y \in {NextFragment(z) : z \in {f[k - 1]}} : TRUE) ELSE f[i]
    OBVIOUS
  <2>10. g = [i \in 0..k |-> g[i]]
    OBVIOUS
  <2> HIDE DEF g
  <2>11. ASSUME NEW i \in 0..k
         PROVE  g[i] = IF i = 0 THEN t ELSE (CHOOSE y \in {NextFragment(z) : z \in {g[i - 1]}} : TRUE)
    <3>1. CASE i = k
      <4>1. g[k] = (CHOOSE y \in {NextFragment(z) : z \in {f[k - 1]}} : TRUE)
        BY <2>8, <2>9
      <4>2. g[k - 1] = f[k - 1]
        BY <2>3, <2>7, <2>8, <2>9
      <4> QED BY <2>3, <3>1, <4>1, <4>2
    <3>2. CASE i # k
      <4>1. g[i] = f[i] /\ i \in 0..(k - 1)
        BY <2>6, <2>9, <3>2
      <4>2. f[i] = IF i = 0 THEN t ELSE (CHOOSE y \in {NextFragment(z) : z \in {f[i - 1]}} : TRUE)
        BY <2>5, <4>1
      <4>3. i # 0 => g[i - 1] = f[i - 1]
        BY <2>7, <2>9
      <4> QED BY <4>1, <4>2, <4>3
    <3> QED BY <3>1, <3>2
  <2>12. Is(g, k)
    BY <2>10, <2>11
  <2> HIDE DEF Is
  <2> QED BY <2>2, <2>12
<1>3. n \in 0..n
  BY <1>1, SMT
<1>4. PICK f : Is(f, n)
  BY <1>2, <1>3
<1>5. f = [i \in 0..n |-> IF i = 0 THEN t ELSE (CHOOSE y \in {NextFragment(z) : z \in {f[i - 1]}} : TRUE)]
  BY <1>4, Zenon
<1> QED BY <1>5 DEF IsFragmenting, n

(* The states of the transmission from one message to the next.             *)
IsLooping(f, t) ==
  f = [i \in 0..QueueSize |-> IF i = 0 THEN t ELSE (CHOOSE y \in {RunOne(z) : z \in {f[i - 1]}} : TRUE)]

(* They exist; runEventLoop returns the last of them.                       *)
LEMMA LoopExists ==
  ASSUME NEW t
  PROVE \E f : IsLooping(f, t)
<1> DEFINE n == QueueSize
           Is(f, k) == /\ f = [i \in 0..k |-> f[i]]
                       /\ \A i \in 0..k : f[i] = IF i = 0 THEN t ELSE (CHOOSE y \in {RunOne(z) : z \in {f[i - 1]}} : TRUE)
           Bad == {k \in 0..n : ~\E f : Is(f, k)}
<1>1. n \in Nat
  BY EsFileManagerAssumption
<1> HIDE DEF n
<1>2. Bad = {}
  <2> SUFFICES ASSUME Bad # {} PROVE FALSE
    OBVIOUS
  <2>1. PICK k \in Bad : \A j \in Bad : ~(j < k)
    <3>1. Bad \subseteq Nat
      BY <1>1, SMT
    <3> HIDE DEF Bad
    <3> QED BY <3>1, LeastExists
  <2>2. k \in 0..n /\ ~\E f : Is(f, k)
    OBVIOUS
  <2>3. k # 0
    <3> SUFFICES ASSUME k = 0 PROVE FALSE
      OBVIOUS
    <3> DEFINE f == [i \in 0..0 |-> t]
    <3>1. \A i \in 0..0 : i = 0
      BY SMT
    <3>2. 0 \in 0..0
      BY SMT
    <3>3. f[0] = t
      BY <3>2
    <3>4. \A i \in 0..0 : f[i] = IF i = 0 THEN t ELSE (CHOOSE y \in {RunOne(z) : z \in {f[i - 1]}} : TRUE)
      <4> HIDE DEF f
      <4> QED BY <3>1, <3>3
    <3>5. f = [i \in 0..0 |-> f[i]]
      OBVIOUS
    <3>6. Is(f, 0)
      <4> HIDE DEF f
      <4> QED BY <3>4, <3>5
    <3> HIDE DEF f, Is
    <3> QED BY <2>2, <3>6
  <2>4. k - 1 \in 0..n /\ k - 1 < k /\ k - 1 \in 0..(k - 1) /\ 0 \in 0..(k - 1)
    BY <1>1, <2>2, <2>3, SMT
  <2>5. PICK f : Is(f, k - 1)
    <3>1. k - 1 \notin Bad
      <4> HIDE DEF Bad
      <4> QED BY <2>1, <2>4
    <3> QED BY <2>4, <3>1
  <2> DEFINE g == [i \in 0..k |-> IF i = k THEN (CHOOSE y \in {RunOne(z) : z \in {f[k - 1]}} : TRUE) ELSE f[i]]
  <2>6. \A i \in 0..k : i # k => i \in 0..(k - 1)
    BY <1>1, <2>2, SMT
  <2>7. \A i \in 0..k : i # 0 => i - 1 \in 0..k /\ i - 1 # k
    BY <1>1, <2>2, SMT
  <2>8. k \in 0..k
    BY <2>2, SMT
  <2>9. \A i \in 0..k : g[i] = IF i = k THEN (CHOOSE y \in {RunOne(z) : z \in {f[k - 1]}} : TRUE) ELSE f[i]
    OBVIOUS
  <2>10. g = [i \in 0..k |-> g[i]]
    OBVIOUS
  <2> HIDE DEF g
  <2>11. ASSUME NEW i \in 0..k
         PROVE  g[i] = IF i = 0 THEN t ELSE (CHOOSE y \in {RunOne(z) : z \in {g[i - 1]}} : TRUE)
    <3>1. CASE i = k
      <4>1. g[k] = (CHOOSE y \in {RunOne(z) : z \in {f[k - 1]}} : TRUE)
        BY <2>8, <2>9
      <4>2. g[k - 1] = f[k - 1]
        BY <2>3, <2>7, <2>8, <2>9
      <4> QED BY <2>3, <3>1, <4>1, <4>2
    <3>2. CASE i # k
      <4>1. g[i] = f[i] /\ i \in 0..(k - 1)
        BY <2>6, <2>9, <3>2
      <4>2. f[i] = IF i = 0 THEN t ELSE (CHOOSE y \in {RunOne(z) : z \in {f[i - 1]}} : TRUE)
        BY <2>5, <4>1
      <4>3. i # 0 => g[i - 1] = f[i - 1]
        BY <2>7, <2>9
      <4> QED BY <4>1, <4>2, <4>3
    <3> QED BY <3>1, <3>2
  <2>12. Is(g, k)
    BY <2>10, <2>11
  <2> HIDE DEF Is
  <2> QED BY <2>2, <2>12
<1>3. n \in 0..n
  BY <1>1, SMT
<1>4. PICK f : Is(f, n)
  BY <1>2, <1>3
<1>5. f = [i \in 0..n |-> IF i = 0 THEN t ELSE (CHOOSE y \in {RunOne(z) : z \in {f[i - 1]}} : TRUE)]
  BY <1>4, Zenon
<1> QED BY <1>5 DEF IsLooping, n

(* autoInsert returns a list, with or without the file.                     *)
LEMMA AutoInsertIsSeq ==
  ASSUME NEW map, IsSeq(map), NEW file
  PROVE  IsSeq(apx_es_fileMap_autoInsert(map, file))
<1> DEFINE area  == Area(file.type)
           found == {i \in DOMAIN map : /\ map[i].address >= area.start
                                        /\ \A j \in 1..i : map[j].address < area.end}
           last  == Max(found)
           above == map[last].address + map[last].length + area.boundary - 1
           address == IF found = {} THEN area.start ELSE above - (above % area.boundary)
           new   == At(file, address)
           index == IF found = {} THEN 1 ELSE last + 1
<1>1. apx_es_fileMap_autoInsert(map, file) =
        IF found # {} /\ address >= area.end THEN map ELSE insertAt(map, new, index)
  BY DEF apx_es_fileMap_autoInsert
<1>2. Len(map) \in Nat /\ DOMAIN map = 1..Len(map) /\ found \subseteq DOMAIN map
  BY SeqFacts
<1> HIDE DEF found, address, new, area
<1>3. index \in 1..(Len(map) + 1)
  <2>1. CASE found = {}
    BY <1>2, <2>1, SMT
  <2>2. CASE found # {}
    <3>1. Max(found) \in found
      BY <1>2, <2>2, Largest
    <3> DEFINE k == Max(found)
    <3>2. k \in 1..Len(map) /\ index = k + 1
      BY <1>2, <2>2, <3>1
    <3> HIDE DEF k, index
    <3> QED BY <1>2, <3>2, SMT
  <2> QED BY <2>1, <2>2
<1> HIDE DEF index
<1>4. IsSeq(InsertAt(map, index, new))
  BY <1>3, InsertedNames
<1> QED BY <1>1, <1>4 DEF insertAt

(* The local files of a device are a list.                                  *)
LEMMA AttachedIsSeq ==
  ASSUME NEW d \in Devices
  PROVE  IsSeq(Attached(d))
<1> DEFINE n == Len(LocalFiles[d])
           after == CHOOSE f : IsAttaching(f, d)
           Bad == {k \in 0..n : ~IsSeq(after[k])}
<1>1. n \in Nat
  BY EsFileManagerAssumption, LenProperties
<1>2. Attached(d) = after[n]
  BY DEF Attached, IsAttaching
<1>3. IsAttaching(after, d)
  BY AttachedExists
<1>4. \A i \in 0..n : after[i] =
         IF i = 0 THEN <<>> ELSE apx_es_fileMap_autoInsert(after[i - 1], LocalFiles[d][i])
  BY <1>3 DEF IsAttaching
<1> HIDE DEF n, after
<1>5. Bad = {}
  <2> SUFFICES ASSUME Bad # {} PROVE FALSE
    OBVIOUS
  <2>1. PICK k \in Bad : \A j \in Bad : ~(j < k)
    <3>1. Bad \subseteq Nat
      BY <1>1, SMT
    <3> HIDE DEF Bad
    <3> QED BY <3>1, LeastExists
  <2>2. k \in 0..n /\ ~IsSeq(after[k])
    OBVIOUS
  <2>3. k # 0
    <3>1. <<>> \in Seq({})
      BY EmptySeq
    <3>2. IsSeq(<<>>)
      BY <3>1 DEF IsSeq
    <3> QED BY <1>4, <2>2, <3>2
  <2>4. k - 1 \in 0..n /\ k - 1 < k
    BY <1>1, <2>2, <2>3, SMT
  <2>5. IsSeq(after[k - 1])
    BY <2>1, <2>4
  <2> QED BY <1>4, <2>2, <2>3, <2>5, AutoInsertIsSeq
<1>6. n \in 0..n
  BY <1>1, SMT
<1> QED BY <1>2, <1>5, <1>6

-----------------------------------------------------------------------------
(* Requests.  The first of the files to be requested have been.             *)
IsRequesting(f, m, files) ==
  f = [i \in 0..Len(files) |-> IF i = 0 THEN m ELSE requestRemoteFile(f[i - 1], files[i])]

(* The requested files after k more of them.                                *)
Requested(m, files, k) == m.requested \o SubSeq(files, 1, k)

(* The next file is not yet among the requested ones, and becomes the last  *)
(* of them.                                                                 *)
LEMMA RequestedOneMore ==
  ASSUME NEW m, IsSeq(m.requested), NEW files, IsSeq(files), Once(files),
         Names(m.requested) \cap Names(files) = {},
         NEW k \in 1..Len(files)
  PROVE  /\ Append(Requested(m, files, k - 1), files[k]) = Requested(m, files, k)
         /\ Len(Requested(m, files, k - 1)) = Len(m.requested) + k - 1
         /\ files[k].name \notin Names(Requested(m, files, k - 1))
         /\ Requested(m, files, 0) = m.requested
<1> DEFINE r == m.requested
           n == Len(files)
           a == SubSeq(files, 1, k - 1)
           e == files[k]
           x == SubSeq(files, 1, 0)
<1>1. PICK S : r \in Seq(S) /\ files \in Seq(S)
  BY CommonSet
<1>2. n \in Nat /\ DOMAIN files = 1..n /\ Len(r) \in Nat /\ \A i \in 1..n : files[i] \in S
  BY <1>1, LenProperties
<1>3. \A i, j \in 1..n : files[i].name = files[j].name => i = j
  BY <1>2 DEF Once
<1>4. {files[i].name : i \in 1..n} \cap Names(r) = {}
  BY <1>2, NamesAt
<1> HIDE DEF n
<1>5. k \in Nat /\ k >= 1 /\ k <= n /\ k - 1 \in Int /\ 1 \in Int /\ k \in 1..n /\ 1 \in 1..k
  BY <1>2, SMT DEF n
<1>6. a \in Seq(S) /\ Len(a) = k - 1 /\ \A i \in 1..(k - 1) : a[i] = files[i]
  <2>1. \A i \in 1..(k - 1) : files[i] \in S
    BY <1>2, <1>5, SMT
  <2>2. /\ a \in Seq(S) /\ Len(a) = IF 1 <= k - 1 THEN (k - 1) - 1 + 1 ELSE 0
        /\ \A i \in 1..((k - 1) - 1 + 1) : a[i] = files[1 + i - 1]
    BY <1>5, <2>1, SubSeqProperties
  <2> HIDE DEF a
  <2>3. \A i \in 1..(k - 1) : 1 + i - 1 = i
    BY <1>5, SMT
  <2> QED BY <1>5, <2>2, <2>3, SMT
<1>7. SubSeq(files, 1, k) = a \o <<e>>
  <2>1. k \in 1..Len(files) /\ 1 \in 1..Len(files)
    BY <1>2, <1>5, SMT DEF n
  <2> QED BY <1>1, <1>5, <2>1, SubSeqRecursiveSecond
<1>8. e \in S /\ <<e>> \in Seq(S)
  BY <1>2, <1>5
<1>9. x = <<>>
  <2>1. 1 \in Int /\ 0 \in Int /\ 0 < 1
    BY SMT
  <2> QED BY <2>1, SubSeqEmpty
<1> HIDE DEF r, a, e, x
<1>10. r \o a \in Seq(S) /\ Len(r \o a) = Len(r) + Len(a)
  BY <1>1, <1>6, ConcatProperties
<1>11. Append(r \o a, e) = (r \o a) \o <<e>>
  BY <1>8, <1>10, AppendIsConcat
<1>12. (r \o a) \o <<e>> = r \o (a \o <<e>>)
  BY <1>1, <1>6, <1>8, ConcatAssociative
<1>13. Append(r \o a, e) = r \o SubSeq(files, 1, k)
  BY <1>7, <1>11, <1>12
<1>14. Len(r \o a) = Len(r) + k - 1
  BY <1>2, <1>5, <1>6, <1>10, SMT
<1>15. Names(r \o a) = Names(r) \cup Names(a)
  BY <1>1, <1>6, JoinedNames DEF IsSeq
<1>16. e.name \notin Names(r)
  BY <1>4, <1>5 DEF e
<1>17. e.name \notin Names(a)
  <2>1. DOMAIN a = 1..(k - 1)
    BY <1>6, LenProperties
  <2>2. Names(a) = {a[i].name : i \in 1..(k - 1)}
    BY <2>1, NamesAt
  <2>3. ASSUME NEW i \in 1..(k - 1) PROVE a[i].name # e.name
    <3>1. i \in 1..n /\ i # k
      BY <1>2, <1>5, SMT
    <3> QED BY <1>3, <1>5, <1>6, <3>1 DEF e
  <2> QED BY <2>2, <2>3
<1>18. r \o x = r
  BY <1>1, <1>9, ConcatEmptySeq
<1> QED BY <1>13, <1>14, <1>15, <1>16, <1>17, <1>18 DEF Requested, r, a, e, x

(* Files with new names are all requested if there is room for them, and    *)
(* nothing else changes.                                                    *)
LEMMA RequestAll ==
  ASSUME NEW m, "requested" \in DOMAIN m, IsSeq(m.requested),
         NEW files, IsSeq(files), Once(files), Names(m.requested) \cap Names(files) = {},
         Len(m.requested) + Len(files) <= MaxRequests
  PROVE  LET after == requestAll(m, files)
         IN /\ after.requested = m.requested \o files
            /\ DOMAIN after = DOMAIN m
            /\ \A x \in DOMAIN m : x # "requested" => after[x] = m[x]
<1> DEFINE n == Len(files)
           g == [k \in 0..n |-> IF k = 0 THEN m ELSE [m EXCEPT !.requested = Requested(m, files, k)]]
           after == CHOOSE f : IsRequesting(f, m, files)
<1>1. n \in Nat /\ Len(m.requested) \in Nat
  BY SeqFacts
<1>2. requestAll(m, files) = after[n]
  BY DEF requestAll, IsRequesting
<1>3. MaxRequests \in Nat
  BY EsFileManagerAssumption
<1> HIDE DEF after
<1>4. ASSUME NEW k \in 1..n
      PROVE  requestRemoteFile(g[k - 1], files[k]) = g[k]
  <2> DEFINE p == g[k - 1]
             e == files[k]
  <2>1. /\ Append(Requested(m, files, k - 1), e) = Requested(m, files, k)
        /\ Len(Requested(m, files, k - 1)) = Len(m.requested) + k - 1
        /\ e.name \notin Names(Requested(m, files, k - 1))
        /\ Requested(m, files, 0) = m.requested
    BY RequestedOneMore
  <2>2. k - 1 \in 0..n /\ k \in 0..n /\ k # 0 /\ ~(Len(m.requested) + k - 1 >= MaxRequests)
    BY <1>1, <1>3, SMT
  <2>3. p.requested = Requested(m, files, k - 1)
    <3>1. CASE k - 1 = 0
      BY <2>1, <2>2, <3>1
    <3>2. CASE k - 1 # 0
      <4>1. p = [m EXCEPT !.requested = Requested(m, files, k - 1)]
        BY <2>2, <3>2
      <4> HIDE DEF p
      <4> QED BY <4>1
    <3> QED BY <3>1, <3>2
  <2>4. [p EXCEPT !.requested = Requested(m, files, k)] = [m EXCEPT !.requested = Requested(m, files, k)]
    <3>1. CASE k - 1 = 0
      BY <2>2, <3>1
    <3>2. CASE k - 1 # 0
      <4>1. p = [m EXCEPT !.requested = Requested(m, files, k - 1)]
        BY <2>2, <3>2
      <4> HIDE DEF p
      <4> QED BY <4>1
    <3> QED BY <3>1, <3>2
  <2>5. g[k] = [m EXCEPT !.requested = Requested(m, files, k)]
    BY <2>2
  <2> HIDE DEF p, e, g, n
  <2>6. ~(Len(p.requested) >= MaxRequests)
    BY <2>1, <2>2, <2>3
  <2>7. e.name \notin {f.name : f \in Range(p.requested)}
    BY <2>1, <2>3 DEF Names
  <2>8. requestRemoteFile(p, e) = [p EXCEPT !.requested = Append(@, e)]
    BY <2>6, <2>7 DEF requestRemoteFile
  <2>9. requestRemoteFile(p, e) = [p EXCEPT !.requested = Requested(m, files, k)]
    BY <2>1, <2>3, <2>8
  <2> QED BY <2>4, <2>5, <2>9 DEF p, e
<1>5. IsRequesting(g, m, files)
  <2>1. g = [k \in 0..n |-> g[k]]
    OBVIOUS
  <2>2. 0 \in 0..n
    BY <1>1, SMT
  <2>3. g[0] = m
    BY <2>2
  <2> HIDE DEF g
  <2>4. \A k \in 0..n : k # 0 => k \in 1..n
    BY <1>1, SMT
  <2>5. \A k \in 0..n : g[k] = IF k = 0 THEN m ELSE requestRemoteFile(g[k - 1], files[k])
    BY <1>4, <2>3, <2>4
  <2>6. g = [k \in 0..n |-> IF k = 0 THEN m ELSE requestRemoteFile(g[k - 1], files[k])]
    BY <2>1, <2>5, Zenon
  <2> QED BY <2>6 DEF IsRequesting
<1>6. IsRequesting(after, m, files)
  BY <1>5 DEF after
<1>7. \A k \in 0..n : after[k] = IF k = 0 THEN m ELSE requestRemoteFile(after[k - 1], files[k])
  BY <1>6 DEF IsRequesting
<1>8. g[0] = m
  <2>1. 0 \in 0..n
    BY <1>1, SMT
  <2> QED BY <2>1
<1>9. g[n] = IF n = 0 THEN m ELSE [m EXCEPT !.requested = Requested(m, files, n)]
  <2>1. n \in 0..n
    BY <1>1, SMT
  <2> QED BY <2>1
<1> HIDE DEF g
<1> DEFINE Bad == {k \in 0..n : after[k] # g[k]}
<1>10. Bad = {}
  <2> HIDE DEF n
  <2> SUFFICES ASSUME Bad # {} PROVE FALSE
    OBVIOUS
  <2>1. PICK k \in Bad : \A j \in Bad : ~(j < k)
    <3>1. Bad \subseteq Nat
      BY <1>1, SMT
    <3> HIDE DEF Bad
    <3> QED BY <3>1, LeastExists
  <2>2. k \in 0..n /\ after[k] # g[k]
    OBVIOUS
  <2>3. k # 0
    BY <1>7, <1>8, <2>2
  <2>4. k - 1 \in 0..n /\ k - 1 < k /\ k \in 1..n
    BY <1>1, <2>2, <2>3, SMT
  <2>5. after[k - 1] = g[k - 1]
    BY <2>1, <2>4
  <2>6. after[k] = g[k]
    BY <1>4, <1>7, <2>2, <2>3, <2>4, <2>5
  <2> QED BY <2>2, <2>6
<1>11. after[n] = g[n]
  <2>1. n \in 0..n
    BY <1>1, SMT
  <2> HIDE DEF n
  <2> QED BY <1>10, <2>1
<1>12. CASE n = 0
  <2>1. PICK S : m.requested \in Seq(S) /\ files \in Seq(S)
    BY CommonSet
  <2>2. files = <<>>
    BY <1>12, <2>1, EmptySeq
  <2>3. m.requested \o files = m.requested
    BY <2>1, <2>2, ConcatEmptySeq
  <2>4. requestAll(m, files) = m
    BY <1>2, <1>9, <1>11, <1>12
  <2> QED BY <2>3, <2>4
<1>13. CASE n # 0
  <2>1. PICK S : files \in Seq(S)
    BY DEF IsSeq
  <2>2. SubSeq(files, 1, n) = files
    BY <2>1, SubSeqFull
  <2>3. requestAll(m, files) = [m EXCEPT !.requested = m.requested \o files]
    BY <1>2, <1>9, <1>11, <1>13, <2>2 DEF Requested
  <2> QED BY <2>3
<1> QED BY <1>12, <1>13

-----------------------------------------------------------------------------
(* A call of run.  What the code keeps in the queue and works on are        *)
(* commands of the five types; a file that is to be opened is a remote      *)
(* file, one that is to be sent a local file.                               *)
ManagerFields ==
  {"connected", "error", "queue", "notify", "pending", "write", "reception", "local", "remote",
   "requested", "open"}

(* A command of one of the types, about a file that is known.               *)
Command(m, p) ==
  /\ p.type \in {"info", "open", "direct", "send", "notify"}
  /\ p.type = "open" => p.file \in Names(m.remote)
  /\ p.type = "send" => p.file \in Names(m.local)

(* The notification that waits, if there is one.                            *)
Noted(msg) == msg = NoMessage \/ (msg.type = "notify" /\ "type" \in DOMAIN msg)

(* The parts of a manager that run and the writes of the application use.   *)
Orderly(m) ==
  /\ DOMAIN m = ManagerFields
  /\ IsSeq(m.queue) /\ \A i \in DOMAIN m.queue : Command(m, m.queue[i])
  /\ m.pending = NoMessage \/ Command(m, m.pending)
  /\ Noted(m.notify)
  /\ m.write = NoWrite \/ m.pending = NoMessage
  /\ m.open \subseteq Names(m.local) \cup Names(m.remote)

(* What run and the writes of the application leave alone.                  *)
SameFiles(m, k) ==
  /\ m.local = k.local /\ m.remote = k.remote /\ m.requested = k.requested
  /\ m.connected = k.connected

(* What is on its way.                                                      *)
Messages(s) == IsSeq(s) /\ \A i \in DOMAIN s : s[i].type \in {"info", "open", "data"}

(* The state of a call of run on a manager that began as k.                 *)
Working(t, k) ==
  /\ DOMAIN t = {"m", "avail", "room", "out", "misread"}
  /\ Orderly(t.m) /\ SameFiles(t.m, k) /\ Messages(t.out)

(* One more message on its way.                                             *)
LEMMA MessagesGrow ==
  ASSUME NEW s, Messages(s), NEW e, e.type \in {"info", "open", "data"}
  PROVE  Messages(Append(s, e))
<1>1. IsSeq(s) /\ Len(s) \in Nat /\ DOMAIN s = 1..Len(s)
      /\ \A i \in 1..Len(s) : s[i].type \in {"info", "open", "data"}
  BY SeqFacts DEF Messages
<1> DEFINE u == Append(s, e)
           n == Len(s)
<1>2. IsSeq(u) /\ Len(u) = n + 1 /\ (\A i \in 1..n : u[i] = s[i]) /\ u[n + 1] = e
  BY <1>1, Appended
<1>3. DOMAIN u = 1..(n + 1)
  BY <1>2, SeqFacts
<1> HIDE DEF u, n
<1>4. \A i \in 1..(n + 1) : i \in 1..n \/ i = n + 1
  BY <1>1, SMT DEF n
<1> QED BY <1>1, <1>2, <1>3, <1>4 DEF Messages, u, n

(* A command that enters the queue, or does not because the queue is full.  *)
LEMMA InsertedCommand ==
  ASSUME NEW m, Orderly(m), NEW msg, Command(m, msg)
  PROVE  /\ Orderly(Insert(m, msg)) /\ SameFiles(Insert(m, msg), m)
         /\ Insert(m, msg).notify = m.notify
<1> DEFINE q == Append(m.queue, msg)
           n == Len(m.queue)
           a == [m EXCEPT !.queue = q]
           b == [m EXCEPT !.error = TRUE]
<1>1. IsSeq(m.queue) /\ n \in Nat /\ DOMAIN m.queue = 1..n /\ \A i \in 1..n : Command(m, m.queue[i])
  BY SeqFacts DEF Orderly
<1>2. IsSeq(q) /\ Len(q) = n + 1 /\ (\A i \in 1..n : q[i] = m.queue[i]) /\ q[n + 1] = msg
  BY <1>1, Appended
<1>3. DOMAIN q = 1..(n + 1)
  BY <1>2, SeqFacts
<1> HIDE DEF q, n
<1>4. \A i \in 1..(n + 1) : i \in 1..n \/ i = n + 1
  BY <1>1, SMT
<1>5. \A i \in DOMAIN q : Command(m, q[i])
  BY <1>1, <1>2, <1>3, <1>4
<1>6. DOMAIN m = ManagerFields
  BY DEF Orderly
<1>7. /\ DOMAIN a = ManagerFields /\ a.queue = q /\ a.pending = m.pending /\ a.notify = m.notify
      /\ a.write = m.write /\ a.open = m.open /\ a.local = m.local /\ a.remote = m.remote
      /\ a.requested = m.requested /\ a.connected = m.connected
  BY <1>6 DEF ManagerFields
<1>8. /\ DOMAIN b = ManagerFields /\ b.queue = m.queue /\ b.pending = m.pending
      /\ b.notify = m.notify /\ b.write = m.write /\ b.open = m.open /\ b.local = m.local
      /\ b.remote = m.remote /\ b.requested = m.requested /\ b.connected = m.connected
  BY <1>6 DEF ManagerFields
<1>9. Insert(m, msg) = a \/ Insert(m, msg) = b
  BY DEF Insert, q
<1> HIDE DEF a, b
<1>10. Orderly(a) /\ SameFiles(a, m)
  BY <1>2, <1>5, <1>7 DEF Orderly, SameFiles, Command
<1>11. Orderly(b) /\ SameFiles(b, m)
  BY <1>8 DEF Orderly, SameFiles, Command
<1> QED BY <1>7, <1>8, <1>9, <1>10, <1>11

(* What a transmission and the assignments around it change.                *)
LEMMA TransmittedWorks ==
  ASSUME NEW k, NEW t, Working(t, k), NEW msg, msg.type \in {"info", "open", "data"}
  PROVE  Working(Transmitted(t, msg), k) /\ Transmitted(t, msg).m = t.m
<1> DEFINE u == Transmitted(t, msg)
<1>1. DOMAIN t = {"m", "avail", "room", "out", "misread"}
  BY DEF Working
<1>2. DOMAIN u = DOMAIN t /\ u.m = t.m /\ u.out = Append(t.out, msg)
  BY <1>1 DEF Transmitted
<1> HIDE DEF u
<1>3. Messages(u.out)
  BY <1>2, MessagesGrow DEF Working
<1>4. Working(u, k)
  BY <1>1, <1>2, <1>3 DEF Working
<1> QED BY <1>2, <1>4 DEF u

(* The pending message is done.                                             *)
LEMMA PendingDone ==
  ASSUME NEW k, NEW t, Working(t, k)
  PROVE  /\ Working([t EXCEPT !.m.pending = NoMessage], k)
         /\ [t EXCEPT !.m.pending = NoMessage].m.pending = NoMessage
<1> DEFINE u == [t EXCEPT !.m.pending = NoMessage]
<1>1. DOMAIN t = {"m", "avail", "room", "out", "misread"} /\ DOMAIN t.m = ManagerFields
  BY DEF Working, Orderly
<1>2. DOMAIN u = DOMAIN t /\ u.out = t.out /\ u.m = [t.m EXCEPT !.pending = NoMessage]
  BY <1>1
<1> DEFINE m == t.m
           a == [m EXCEPT !.pending = NoMessage]
<1>3. /\ DOMAIN a = ManagerFields /\ a.queue = m.queue /\ a.pending = NoMessage
      /\ a.notify = m.notify /\ a.write = m.write /\ a.open = m.open /\ a.local = m.local
      /\ a.remote = m.remote /\ a.requested = m.requested /\ a.connected = m.connected
  BY <1>1 DEF ManagerFields
<1>4. u.m = a /\ Orderly(m) /\ SameFiles(m, k)
  BY <1>2 DEF Working
<1> HIDE DEF u, m, a
<1>5. Orderly(a) /\ SameFiles(a, k)
  BY <1>3, <1>4 DEF Orderly, SameFiles, Command
<1>6. Working(u, k)
  BY <1>1, <1>2, <1>4, <1>5 DEF Working
<1> QED BY <1>3, <1>4, <1>6 DEF u

(* Without a pending message, a write may begin, go on or end.              *)
LEMMA WriteChanged ==
  ASSUME NEW k, NEW t, Working(t, k), t.m.pending = NoMessage, NEW w
  PROVE  /\ Working([t EXCEPT !.m.write = w], k)
         /\ [t EXCEPT !.m.write = w].m.pending = NoMessage
<1> DEFINE u == [t EXCEPT !.m.write = w]
<1>1. DOMAIN t = {"m", "avail", "room", "out", "misread"} /\ DOMAIN t.m = ManagerFields
  BY DEF Working, Orderly
<1>2. DOMAIN u = DOMAIN t /\ u.out = t.out /\ u.m = [t.m EXCEPT !.write = w]
  BY <1>1
<1> DEFINE m == t.m
           a == [m EXCEPT !.write = w]
<1>3. /\ DOMAIN a = ManagerFields /\ a.queue = m.queue /\ a.pending = m.pending
      /\ a.notify = m.notify /\ a.open = m.open /\ a.local = m.local
      /\ a.remote = m.remote /\ a.requested = m.requested /\ a.connected = m.connected
  BY <1>1 DEF ManagerFields
<1>4. u.m = a /\ Orderly(m) /\ SameFiles(m, k) /\ m.pending = NoMessage
  BY <1>2 DEF Working
<1> HIDE DEF u, m, a
<1>5. Orderly(a) /\ SameFiles(a, k) /\ a.pending = NoMessage
  BY <1>3, <1>4 DEF Orderly, SameFiles, Command
<1>6. Working(u, k)
  BY <1>1, <1>2, <1>4, <1>5 DEF Working
<1> QED BY <1>4, <1>5, <1>6 DEF u

(* A file that the device has or knows of becomes open.                     *)
LEMMA OpenedWorks ==
  ASSUME NEW k, NEW t, Working(t, k), NEW name,
         name \in Names(t.m.local) \cup Names(t.m.remote)
  PROVE  /\ Working([t EXCEPT !.m.open = @ \cup {name}], k)
         /\ [t EXCEPT !.m.open = @ \cup {name}].m.pending = t.m.pending
         /\ [t EXCEPT !.m.open = @ \cup {name}].m.write = t.m.write
<1> DEFINE u == [t EXCEPT !.m.open = @ \cup {name}]
<1>1. DOMAIN t = {"m", "avail", "room", "out", "misread"} /\ DOMAIN t.m = ManagerFields
  BY DEF Working, Orderly
<1>2. DOMAIN u = DOMAIN t /\ u.out = t.out /\ u.m = [t.m EXCEPT !.open = @ \cup {name}]
  BY <1>1
<1> DEFINE m == t.m
           a == [m EXCEPT !.open = @ \cup {name}]
<1>3. /\ DOMAIN a = ManagerFields /\ a.queue = m.queue /\ a.pending = m.pending
      /\ a.notify = m.notify /\ a.write = m.write /\ a.open = m.open \cup {name}
      /\ a.local = m.local
      /\ a.remote = m.remote /\ a.requested = m.requested /\ a.connected = m.connected
  BY <1>1 DEF ManagerFields
<1>4. u.m = a /\ Orderly(m) /\ SameFiles(m, k) /\ name \in Names(m.local) \cup Names(m.remote)
  BY <1>2 DEF Working
<1> HIDE DEF u, m, a
<1>5. Orderly(a) /\ SameFiles(a, k)
  BY <1>3, <1>4 DEF Orderly, SameFiles, Command
<1>6. Working(u, k)
  BY <1>1, <1>2, <1>4, <1>5 DEF Working
<1> QED BY <1>3, <1>4, <1>6 DEF u, m

(* Fragments of a large write.                                              *)
LEMMA FragmentWorks ==
  ASSUME NEW k, NEW t, Working(t, k), t.m.pending = NoMessage
  PROVE  Working(Fragment(t), k) /\ Fragment(t).m.pending = NoMessage
<1> DEFINE w    == t.m.write
           n    == Min({w.remain, SendAvail(t) - HeaderSize(w.address)})
           msg  == [type |-> "data", address |-> w.address, more |-> w.remain > n,
                    data |-> SubSeq(content[w.file], w.offset + 1, w.offset + n)]
           rest == [w EXCEPT !.remain = @ - n, !.offset = @ + n, !.address = @ + n]
           next == IF rest.remain = 0 THEN NoWrite ELSE rest
           u    == Transmitted(t, msg)
<1>1. Fragment(t) = IF Fits(t, msg) THEN [u EXCEPT !.m.write = next] ELSE t
  BY DEF Fragment
<1>2. msg.type = "data"
  OBVIOUS
<1> HIDE DEF msg, next
<1>3. Working(u, k) /\ u.m = t.m
  BY <1>2, TransmittedWorks
<1> HIDE DEF u
<1>4. Working([u EXCEPT !.m.write = next], k) /\ [u EXCEPT !.m.write = next].m.pending = NoMessage
  BY <1>3, WriteChanged
<1> QED BY <1>1, <1>4

(* The next fragment, if there is room for it.                              *)
LEMMA NextFragmentWorks ==
  ASSUME NEW k, NEW t, Working(t, k), t.m.pending = NoMessage
  PROVE  Working(NextFragment(t), k) /\ NextFragment(t).m.pending = NoMessage
  BY FragmentWorks DEF NextFragment

(* All fragments for which there is room.                                   *)
LEMMA PendingWriteWorks ==
  ASSUME NEW k, NEW t, Working(t, k), t.m.pending = NoMessage
  PROVE  Working(processPendingWrite(t), k) /\ processPendingWrite(t).m.pending = NoMessage
<1> DEFINE n == LinkSize
           after == CHOOSE f : IsFragmenting(f, t)
           P(x) == Working(x, k) /\ x.m.pending = NoMessage
           Bad == {i \in 0..n : ~P(after[i])}
<1>1. n \in Nat
  BY EsFileManagerAssumption
<1>2. processPendingWrite(t) = after[n]
  BY DEF processPendingWrite, Iterated, IsFragmenting
<1>3. IsFragmenting(after, t)
  BY FragmentsExist
<1>4. \A i \in 0..n : after[i] =
         IF i = 0 THEN t ELSE CHOOSE y \in {NextFragment(z) : z \in {after[i - 1]}} : TRUE
  BY <1>3 DEF IsFragmenting
<1> HIDE DEF n, after
<1>5. \A i \in 0..n : i # 0 => after[i] = NextFragment(after[i - 1])
  BY <1>4
<1>6. P(t)
  OBVIOUS
<1>7. ASSUME NEW x, P(x) PROVE P(NextFragment(x))
  BY <1>7, NextFragmentWorks
<1> HIDE DEF P
<1>8. Bad = {}
  <2> SUFFICES ASSUME Bad # {} PROVE FALSE
    OBVIOUS
  <2>1. PICK i \in Bad : \A j \in Bad : ~(j < i)
    <3>1. Bad \subseteq Nat
      BY <1>1, SMT
    <3> HIDE DEF Bad
    <3> QED BY <3>1, LeastExists
  <2>2. i \in 0..n /\ ~P(after[i])
    OBVIOUS
  <2>3. i # 0
    BY <1>4, <1>6, <2>2
  <2>4. i - 1 \in 0..n /\ i - 1 < i
    BY <1>1, <2>2, <2>3, SMT
  <2>5. P(after[i - 1])
    BY <2>1, <2>4
  <2> QED BY <1>5, <1>7, <2>2, <2>3, <2>5
<1>9. n \in 0..n
  BY <1>1, SMT
<1>10. P(after[n])
  BY <1>8, <1>9
<1> QED BY <1>2, <1>10 DEF P

(* A message that leaves, is begun, or waits.                               *)
LEMMA WholeWorks ==
  ASSUME NEW k, NEW t, Working(t, k), NEW msg, msg.type \in {"info", "open", "data"}
  PROVE  Working(SendWhole(t, msg), k)
<1> DEFINE u == Transmitted(t, msg)
<1>1. Working(u, k)
  BY TransmittedWorks
<1> HIDE DEF u
<1>2. Working([u EXCEPT !.m.pending = NoMessage], k)
  BY <1>1, PendingDone
<1> QED BY <1>2 DEF SendWhole, u

(* A large write begins in the place of the pending message.                *)
LEMMA StartWorks ==
  ASSUME NEW k, NEW t, Working(t, k), NEW f, NEW offset, NEW length
  PROVE  /\ Working(StartFragments(t, f, offset, length), k)
         /\ StartFragments(t, f, offset, length).m.pending = NoMessage
<1> DEFINE w == [file |-> f.name, offset |-> 0, address |-> f.address + offset, remain |-> length]
           a == [t EXCEPT !.m.pending = NoMessage]
           b == [a EXCEPT !.m.write = w]
           s == IF offset = 0 THEN t.misread ELSE t.misread \cup {f.name}
           u == StartFragments(t, f, offset, length)
<1>1. Working(a, k) /\ a.m.pending = NoMessage
  BY PendingDone
<1>2. DOMAIN t = {"m", "avail", "room", "out", "misread"}
  BY DEF Working
<1>3. u = [t EXCEPT !.m.pending = NoMessage, !.m.write = w, !.misread = s]
  BY DEF StartFragments
<1>4. DOMAIN u = DOMAIN t /\ u.m = [[t.m EXCEPT !.pending = NoMessage] EXCEPT !.write = w]
      /\ u.out = t.out
  <2> HIDE DEF w, s, u
  <2> QED BY <1>2, <1>3
<1>5. b.m = [[t.m EXCEPT !.pending = NoMessage] EXCEPT !.write = w]
  <2> HIDE DEF w
  <2> QED BY <1>2
<1> HIDE DEF a
<1>6. Working(b, k) /\ b.m.pending = NoMessage
  <2> HIDE DEF w
  <2> QED BY <1>1, WriteChanged
<1> HIDE DEF b, u, w
<1> QED BY <1>2, <1>4, <1>5, <1>6 DEF Working, u

(* A part of a file leaves as a whole, in fragments, or waits.              *)
LEMMA PartWorks ==
  ASSUME NEW k, NEW t, Working(t, k), NEW f, NEW offset, NEW length
  PROVE  Working(SendPart(t, f, offset, length), k)
<1> DEFINE msg == [type |-> "data", address |-> f.address + offset, more |-> FALSE,
                   data |-> SubSeq(content[f.name], offset + 1, offset + length)]
           u == Transmitted(t, msg)
           v == StartFragments(t, f, offset, length)
           w == Fragment(v)
<1>1. msg.type = "data"
  OBVIOUS
<1>2. SendPart(t, f, offset, length) =
        IF Size(msg) <= SendAvail(t)
          THEN IF Fits(t, msg) THEN [u EXCEPT !.m.pending = NoMessage] ELSE t
        ELSE IF Size(msg) >= Threshold /\ Threshold <= SendAvail(t)
          THEN processPendingWrite(w) ELSE t
  BY DEF SendPart
<1> HIDE DEF msg
<1>3. Working(u, k)
  BY <1>1, TransmittedWorks
<1> HIDE DEF u
<1>4. Working([u EXCEPT !.m.pending = NoMessage], k)
  BY <1>3, PendingDone
<1>5. Working(v, k) /\ v.m.pending = NoMessage
  BY StartWorks
<1> HIDE DEF v
<1>6. Working(w, k) /\ w.m.pending = NoMessage
  BY <1>5, FragmentWorks
<1> HIDE DEF w
<1>7. Working(processPendingWrite(w), k)
  BY <1>6, PendingWriteWorks
<1> QED BY <1>2, <1>4, <1>7

(* Whatever the pending message is, processPendingMessage keeps the state   *)
(* of a call of run in order.                                               *)
LEMMA PendingMessageWorks ==
  ASSUME NEW k, NEW t, Working(t, k), t.m.pending # NoMessage
  PROVE  Working(processPendingMessage(t), k)
<1> DEFINE p      == t.m.pending
           opened == [t EXCEPT !.m.open = @ \cup {p.file}]
           info   == [type |-> "info", name |-> p.file, address |-> TheFile(t.m, p.file).address,
                      length |-> TheFile(t.m, p.file).length]
           open   == [type |-> "open", address |-> p.address]
           data   == [type |-> "data", address |-> p.address, more |-> FALSE, data |-> p.data]
           f      == TheFile(t.m, p.file)
<1>1. Command(t.m, p)
  BY DEF Working, Orderly
<1>2. CASE ~(SendAvail(t) <= 0) /\ p.type = "info"
  <2>1. processPendingMessage(t) = SendWhole(t, info)
    BY <1>2 DEF processPendingMessage
  <2>2. info.type = "info"
    OBVIOUS
  <2> HIDE DEF info
  <2> QED BY <2>1, <2>2, WholeWorks
<1>3. CASE ~(SendAvail(t) <= 0) /\ p.type = "direct"
  <2>1. processPendingMessage(t) = SendWhole(t, data)
    BY <1>3 DEF processPendingMessage
  <2>2. data.type = "data"
    OBVIOUS
  <2> HIDE DEF data
  <2> QED BY <2>1, <2>2, WholeWorks
<1>4. CASE ~(SendAvail(t) <= 0) /\ p.type = "open"
  <2>1. processPendingMessage(t) = IF Size(open) <= SendAvail(t) THEN SendWhole(opened, open) ELSE t
    BY <1>4 DEF processPendingMessage
  <2>2. open.type = "open"
    OBVIOUS
  <2>3. Working(opened, k)
    BY <1>1, <1>4, OpenedWorks DEF Command
  <2> HIDE DEF open, opened
  <2>4. Working(SendWhole(opened, open), k)
    BY <2>2, <2>3, WholeWorks
  <2> QED BY <2>1, <2>4
<1>5. CASE ~(SendAvail(t) <= 0) /\ p.type = "send"
  <2>1. processPendingMessage(t) = SendPart(opened, f, 0, f.length)
    BY <1>5 DEF processPendingMessage
  <2>2. Working(opened, k)
    BY <1>1, <1>5, OpenedWorks DEF Command
  <2> HIDE DEF opened
  <2> QED BY <2>1, <2>2, PartWorks
<1>6. CASE ~(SendAvail(t) <= 0) /\ p.type = "notify"
  <2>1. processPendingMessage(t) = SendPart(t, f, p.offset, p.length)
    BY <1>6 DEF processPendingMessage
  <2> QED BY <2>1, PartWorks
<1>7. CASE SendAvail(t) <= 0
  BY <1>7 DEF processPendingMessage
<1> QED BY <1>1, <1>2, <1>3, <1>4, <1>5, <1>6, <1>7 DEF Command

(* What was interrupted goes on.                                            *)
LEMMA ResumeWorks ==
  ASSUME NEW k, NEW t, Working(t, k)
  PROVE  Working(Resume(t), k)
<1>1. t.m.write # NoWrite => t.m.pending = NoMessage
  BY DEF Working, Orderly
<1> QED BY <1>1, PendingWriteWorks, PendingMessageWorks DEF Resume

(* The notification that waits enters the queue.                            *)
LEMMA NotifyForgotten ==
  ASSUME NEW m, Orderly(m), NEW msg, Noted(msg)
  PROVE  Orderly([m EXCEPT !.notify = msg]) /\ SameFiles([m EXCEPT !.notify = msg], m)
<1> DEFINE a == [m EXCEPT !.notify = msg]
<1>1. DOMAIN m = ManagerFields
  BY DEF Orderly
<1>2. /\ DOMAIN a = ManagerFields /\ a.queue = m.queue /\ a.pending = m.pending
      /\ a.notify = msg /\ a.write = m.write /\ a.open = m.open /\ a.local = m.local
      /\ a.remote = m.remote /\ a.requested = m.requested /\ a.connected = m.connected
  BY <1>1 DEF ManagerFields
<1> HIDE DEF a
<1>3. Orderly(a) /\ SameFiles(a, m)
  BY <1>2 DEF Orderly, SameFiles, Command
<1> QED BY <1>3 DEF a

(* The notification that waits enters the queue, or stays where it is.      *)
LEMMA QueuedNotifyWorks ==
  ASSUME NEW m, Orderly(m)
  PROVE  Orderly(processQueuedWriteNotify(m)) /\ SameFiles(processQueuedWriteNotify(m), m)
<1>1. CASE m.notify = NoMessage
  BY <1>1 DEF processQueuedWriteNotify, SameFiles
<1>2. CASE m.notify # NoMessage
  <2>1. Command(m, m.notify)
    BY <1>2 DEF Orderly, Noted, Command
  <2> DEFINE a == Insert(m, m.notify)
  <2>2. Orderly(a) /\ SameFiles(a, m)
    BY <2>1, InsertedCommand
  <2> HIDE DEF a
  <2>3. Orderly([a EXCEPT !.notify = NoMessage]) /\ SameFiles([a EXCEPT !.notify = NoMessage], a)
    BY <2>2, NotifyForgotten DEF Noted
  <2> QED BY <1>2, <2>2, <2>3 DEF processQueuedWriteNotify, SameFiles, a
<1> QED BY <1>1, <1>2

(* One message of the queue.                                                *)
LEMMA RunOneWorks ==
  ASSUME NEW k, NEW t, Working(t, k)
  PROVE  Working(RunOne(t), k)
<1>1. CASE t.m.write # NoWrite \/ t.m.pending # NoMessage \/ t.m.queue = <<>>
  BY <1>1 DEF RunOne
<1>2. CASE ~(t.m.write # NoWrite \/ t.m.pending # NoMessage \/ t.m.queue = <<>>)
  <2> DEFINE m == t.m
             q == m.queue
             a == [[m EXCEPT !.pending = Head(q)] EXCEPT !.queue = Tail(q)]
             u == [t EXCEPT !.m.pending = Head(t.m.queue), !.m.queue = Tail(@)]
             n == Len(q)
  <2>1. DOMAIN t = {"m", "avail", "room", "out", "misread"} /\ DOMAIN m = ManagerFields
        /\ IsSeq(q) /\ q # <<>> /\ m.write = NoWrite /\ Orderly(m) /\ SameFiles(m, k)
        /\ Messages(t.out) /\ m.pending = NoMessage
    BY <1>2 DEF Working, Orderly
  <2>2. n \in Nat /\ DOMAIN q = 1..n /\ IsSeq(Tail(q)) /\ Len(Tail(q)) = n - 1
        /\ Head(q) = q[1] /\ 1 \in DOMAIN q
        /\ \A i \in 1..(n - 1) : Tail(q)[i] = q[i + 1]
    BY <2>1, SeqFacts, Rest
  <2>3. DOMAIN Tail(q) = 1..(n - 1)
    BY <2>2, SeqFacts
  <2>4. \A i \in DOMAIN q : Command(m, q[i])
    BY <2>1 DEF Orderly
  <2>5. \A i \in 1..(n - 1) : i + 1 \in 1..n
    BY <2>2, SMT
  <2>6. Command(m, Head(q)) /\ \A i \in DOMAIN Tail(q) : Command(m, Tail(q)[i])
    BY <2>2, <2>3, <2>4, <2>5
  <2>7. DOMAIN u = DOMAIN t /\ u.out = t.out /\ u.m = a
    BY <2>1 DEF ManagerFields
  <2>8. /\ DOMAIN a = ManagerFields /\ a.queue = Tail(q) /\ a.pending = Head(q)
        /\ a.notify = m.notify /\ a.write = m.write /\ a.open = m.open /\ a.local = m.local
        /\ a.remote = m.remote /\ a.requested = m.requested /\ a.connected = m.connected
    BY <2>1 DEF ManagerFields
  <2>9. RunOne(t) = processPendingMessage(u)
    BY <1>2 DEF RunOne
  <2> HIDE DEF a, u
  <2>10. Orderly(a) /\ SameFiles(a, k)
    <3> HIDE DEF m, q
    <3> QED BY <2>1, <2>2, <2>6, <2>8 DEF Orderly, SameFiles, Command
  <2>11. Working(u, k)
    BY <2>1, <2>7, <2>10 DEF Working
  <2>12. Head(q) # NoMessage
    BY <2>6 DEF Command, NoMessage
  <2>13. u.m.pending # NoMessage
    BY <2>7, <2>8, <2>12
  <2> QED BY <2>9, <2>11, <2>13, PendingMessageWorks
<1> QED BY <1>1, <1>2

(* The loop over the queue.                                                 *)
LEMMA LoopWorks ==
  ASSUME NEW k, NEW t, Working(t, k)
  PROVE  Working(runEventLoop(t), k)
<1> DEFINE n == QueueSize
           after == CHOOSE f : IsLooping(f, t)
           Bad == {i \in 0..n : ~Working(after[i], k)}
<1>1. n \in Nat
  BY EsFileManagerAssumption
<1>2. runEventLoop(t) = after[n]
  BY DEF runEventLoop, Iterated, IsLooping
<1>3. IsLooping(after, t)
  BY LoopExists
<1>4. \A i \in 0..n : after[i] =
         IF i = 0 THEN t ELSE CHOOSE y \in {RunOne(z) : z \in {after[i - 1]}} : TRUE
  BY <1>3 DEF IsLooping
<1> HIDE DEF n, after
<1>5. \A i \in 0..n : i # 0 => after[i] = RunOne(after[i - 1])
  BY <1>4
<1>6. Bad = {}
  <2> SUFFICES ASSUME Bad # {} PROVE FALSE
    OBVIOUS
  <2>1. PICK i \in Bad : \A j \in Bad : ~(j < i)
    <3>1. Bad \subseteq Nat
      BY <1>1, SMT
    <3> HIDE DEF Bad
    <3> QED BY <3>1, LeastExists
  <2>2. i \in 0..n /\ ~Working(after[i], k)
    OBVIOUS
  <2>3. i # 0
    BY <1>4, <2>2
  <2>4. i - 1 \in 0..n /\ i - 1 < i
    BY <1>1, <2>2, <2>3, SMT
  <2>5. Working(after[i - 1], k)
    BY <2>1, <2>4
  <2> QED BY <1>5, <2>2, <2>3, <2>5, RunOneWorks
<1>7. n \in 0..n
  BY <1>1, SMT
<1> QED BY <1>2, <1>6, <1>7

-----------------------------------------------------------------------------
(* Each file that was requested is in one of the two lists, and once.       *)
Kept(d, m) ==
  /\ Once(m.requested) /\ Once(m.remote)
  /\ Names(m.requested) \cap Names(m.remote) = {}
  /\ Names(m.requested) \cup Names(m.remote) = Names(RequestedFiles[d])

(* What is always true of a manager: its parts are in order, no file was    *)
(* lost or doubled between its lists, and without a connection there are no *)
(* remote files and nothing is open.                                        *)
ManagerInv(d, m, linked) ==
  /\ Orderly(m)
  /\ IsSeq(m.local) /\ IsSeq(m.remote) /\ IsSeq(m.requested)
  /\ ~m.connected => m.remote = <<>> /\ m.open = {}
  /\ linked \/ m.connected => m.local # <<>>
  /\ (m.local = <<>> /\ m.requested = <<>>) \/ Kept(d, m)

(* The empty list.                                                          *)
LEMMA EmptyList ==
  /\ IsSeq(<<>>) /\ Once(<<>>) /\ Names(<<>>) = {} /\ DOMAIN <<>> = {}
  /\ Len(<<>>) = 0
<1>1. <<>> \in Seq({}) /\ Len(<<>>) = 0
  BY EmptySeq
<1>2. IsSeq(<<>>)
  BY <1>1 DEF IsSeq
<1>3. DOMAIN <<>> = 1..0
  BY <1>1, <1>2, SeqFacts
<1>4. 1..0 = {}
  BY SMT
<1>5. DOMAIN <<>> = {}
  BY <1>3, <1>4
<1>6. Names(<<>>) = {}
  BY <1>5, NamesAt
<1> QED BY <1>1, <1>2, <1>5, <1>6 DEF Once

(* The files of an application.                                             *)
LEMMA RequestedList ==
  ASSUME NEW d \in Devices
  PROVE  /\ IsSeq(RequestedFiles[d]) /\ Once(RequestedFiles[d])
         /\ Len(RequestedFiles[d]) \in Nat /\ Len(RequestedFiles[d]) <= MaxRequests
<1>1. RequestedFiles[d] \in Seq(FileInfo) /\ Len(RequestedFiles[d]) <= MaxRequests
      /\ \A i, j \in DOMAIN RequestedFiles[d] :
           RequestedFiles[d][i].name = RequestedFiles[d][j].name => i = j
  BY EsFileManagerAssumption
<1>2. IsSeq(RequestedFiles[d])
  BY <1>1 DEF IsSeq
<1> QED BY <1>1, <1>2, SeqFacts DEF Once

(* As many files are kept as were requested, and there is room for them.    *)
LEMMA KeptCount ==
  ASSUME NEW d \in Devices, NEW m, IsSeq(m.remote), IsSeq(m.requested), Kept(d, m)
  PROVE  Len(m.requested) + Len(m.remote) = Len(RequestedFiles[d])
<1> DEFINE A == Names(m.requested)
           B == Names(m.remote)
           C == Names(RequestedFiles[d])
<1>1. /\ IsFiniteSet(A) /\ Cardinality(A) = Len(m.requested)
      /\ IsFiniteSet(B) /\ Cardinality(B) = Len(m.remote)
      /\ IsFiniteSet(C) /\ Cardinality(C) = Len(RequestedFiles[d])
  BY CountNames, RequestedList DEF Kept
<1>2. A \cap B = {} /\ A \cup B = C
  BY DEF Kept
<1>3. /\ Len(m.requested) \in Nat /\ Len(m.remote) \in Nat
  BY SeqFacts
<1> HIDE DEF A, B, C
<1>4. Cardinality(A \cup B) = Cardinality(A) + Cardinality(B) - Cardinality(A \cap B)
  BY <1>1, FS_Union
<1>5. Cardinality(A \cap B) = 0
  BY <1>2, FS_EmptySet
<1>6. Cardinality(C) = Cardinality(A) + Cardinality(B) - 0
  BY <1>2, <1>4, <1>5
<1> QED BY <1>1, <1>3, <1>6, SMT

(* What run and the writes of the application change keeps the lists.       *)
LEMMA ListsKept ==
  ASSUME NEW d \in Devices, NEW linked, NEW m, ManagerInv(d, m, linked), NEW n, Orderly(n), SameFiles(n, m),
         m.connected \/ n.open = m.open
  PROVE  ManagerInv(d, n, linked)
  BY DEF ManagerInv, SameFiles, Kept

-----------------------------------------------------------------------------
(* The operations. Attaching the files of the application and requesting    *)
(* others.                                                                  *)
LEMMA AttachKeeps ==
  ASSUME NEW d \in Devices, NEW linked, NEW m, ManagerInv(d, m, linked), m.local = <<>>, m.requested = <<>>
  PROVE  ManagerInv(d, requestAll([m EXCEPT !.local = Attached(d)], RequestedFiles[d]), linked)
<1> DEFINE R == RequestedFiles[d]
           A == Attached(d)
           n == [m EXCEPT !.local = A]
           r == requestAll(n, R)
<1>1. DOMAIN m = ManagerFields /\ Orderly(m) /\ IsSeq(A)
  BY AttachedIsSeq DEF ManagerInv, Orderly
<1> HIDE DEF R, A
<1>2. /\ DOMAIN n = ManagerFields /\ n.queue = m.queue /\ n.pending = m.pending
      /\ n.notify = m.notify /\ n.write = m.write /\ n.open = m.open /\ n.local = A
      /\ n.remote = m.remote /\ n.requested = m.requested /\ n.connected = m.connected
  BY <1>1 DEF ManagerFields
<1> HIDE DEF n
<1>3. IsSeq(R) /\ Once(R) /\ Len(R) \in Nat /\ Len(R) <= MaxRequests
  BY RequestedList DEF R
<1>4. n.requested = <<>> /\ "requested" \in DOMAIN n
  BY <1>2 DEF ManagerFields
<1>5. IsSeq(n.requested) /\ Names(n.requested) \cap Names(R) = {}
      /\ Len(n.requested) + Len(R) <= MaxRequests
  BY <1>3, <1>4, EmptyList
<1>6. /\ r.requested = n.requested \o R /\ DOMAIN r = DOMAIN n
      /\ \A x \in DOMAIN n : x # "requested" => r[x] = n[x]
  BY <1>3, <1>4, <1>5, RequestAll
<1>7. r.requested = R
  <2>1. PICK S : R \in Seq(S)
    BY <1>3 DEF IsSeq
  <2> QED BY <1>4, <1>6, <2>1, ConcatEmptySeq
<1> HIDE DEF r
<1>8. /\ DOMAIN r = ManagerFields /\ r.queue = m.queue /\ r.pending = m.pending
      /\ r.notify = m.notify /\ r.write = m.write /\ r.open = m.open /\ r.local = A
      /\ r.remote = m.remote /\ r.connected = m.connected
  BY <1>2, <1>6 DEF ManagerFields
<1>9. ~m.connected /\ m.remote = <<>> /\ m.open = {}
  BY DEF ManagerInv
<1>10. \A p : Command(m, p) => Command(r, p)
  BY <1>8, EmptyList DEF Command
<1>11. Orderly(r)
  BY <1>1, <1>8, <1>9, <1>10 DEF Orderly
<1>12. Kept(d, r)
  BY <1>3, <1>7, <1>8, <1>9, EmptyList DEF Kept, R
<1> QED BY <1>1, <1>3, <1>7, <1>8, <1>9, <1>11, <1>12, EmptyList DEF ManagerInv, r, n, A, R

(* A connection: several commands enter the queue, and all of them are      *)
(* about local files.                                                       *)
LEMMA ConnectKeeps ==
  ASSUME NEW d \in Devices, NEW linked, NEW m, ManagerInv(d, m, linked), ~m.connected, m.local # <<>>
  PROVE  ManagerInv(d, publishAll([m EXCEPT !.connected = TRUE]), linked)
<1> DEFINE n     == [m EXCEPT !.connected = TRUE]
           l     == Len(m.local)
           infos == [i \in 1..l |-> [type |-> "info", file |-> m.local[i].name]]
           all   == m.queue \o infos
           few   == SubSeq(all, 1, QueueSize)
           a     == [n EXCEPT !.queue = all]
           b     == [n EXCEPT !.queue = few, !.error = TRUE]
<1>1. DOMAIN m = ManagerFields /\ Orderly(m) /\ IsSeq(m.local) /\ l \in Nat
      /\ IsSeq(m.queue) /\ \A i \in DOMAIN m.queue : Command(m, m.queue[i])
  BY SeqFacts DEF ManagerInv, Orderly
<1>2. n.local = m.local /\ n.queue = m.queue
  BY <1>1 DEF ManagerFields
<1>3. publishAll(n) = IF Len(all) <= QueueSize THEN a ELSE b
  BY <1>2 DEF publishAll
<1> HIDE DEF l
<1>4. IsSeq(infos) /\ Len(infos) = l /\ \A i \in 1..l : infos[i].type = "info"
  <2> DEFINE T == {infos[i] : i \in 1..l}
  <2>1. infos \in [1..l -> T] /\ \A i \in 1..l : infos[i].type = "info"
    OBVIOUS
  <2>2. DOMAIN infos = 1..l
    OBVIOUS
  <2> HIDE DEF infos, T
  <2>3. infos \in Seq(T)
    BY <1>1, <2>1, SMT
  <2>4. Len(infos) = l
    BY <1>1, <2>2, <2>3, SMT
  <2> QED BY <2>1, <2>3, <2>4 DEF IsSeq
<1> HIDE DEF infos
<1> DEFINE q == Len(m.queue)
<1>5. q \in Nat /\ DOMAIN m.queue = 1..q
  BY <1>1, SeqFacts
<1>6. /\ IsSeq(all) /\ Len(all) = q + l
      /\ \A i \in 1..(q + l) : all[i] = IF i <= q THEN m.queue[i] ELSE infos[i - q]
  BY <1>1, <1>4, Joined
<1> HIDE DEF q, all
<1>7. \A i \in 1..(q + l) : (i <= q => i \in 1..q) /\ (~(i <= q) => i - q \in 1..l)
  BY <1>1, <1>5, SMT
<1>8. \A p : p.type = "info" => Command(m, p)
  BY DEF Command
<1>9. ASSUME NEW i \in 1..(q + l) PROVE Command(m, all[i])
  <2>1. CASE i <= q
    BY <1>1, <1>5, <1>6, <1>7, <2>1
  <2>2. CASE ~(i <= q)
    BY <1>4, <1>6, <1>7, <1>8, <2>2
  <2> QED BY <2>1, <2>2
<1>10. DOMAIN all = 1..(q + l)
  BY <1>6, SeqFacts
<1>11. CASE Len(all) <= QueueSize
  <2>1. /\ DOMAIN a = ManagerFields /\ a.queue = all /\ a.pending = m.pending
        /\ a.notify = m.notify /\ a.write = m.write /\ a.open = m.open /\ a.local = m.local
        /\ a.remote = m.remote /\ a.requested = m.requested /\ a.connected = TRUE
    BY <1>1 DEF ManagerFields
  <2>2. publishAll(n) = a
    BY <1>3, <1>11
  <2> HIDE DEF a
  <2>3. \A p : Command(m, p) => Command(a, p)
    BY <2>1 DEF Command
  <2>4. Orderly(a)
    BY <1>1, <1>6, <1>9, <1>10, <2>1, <2>3 DEF Orderly
  <2>5. ManagerInv(d, a, linked)
    BY <2>1, <2>4 DEF ManagerInv, Kept
  <2> QED BY <2>2, <2>5
<1>12. CASE ~(Len(all) <= QueueSize)
  <2>1. /\ DOMAIN b = ManagerFields /\ b.queue = few /\ b.pending = m.pending
        /\ b.notify = m.notify /\ b.write = m.write /\ b.open = m.open /\ b.local = m.local
        /\ b.remote = m.remote /\ b.requested = m.requested /\ b.connected = TRUE
    BY <1>1 DEF ManagerFields
  <2>2. publishAll(n) = b
    BY <1>3, <1>12
  <2>3. QueueSize \in Nat
    BY EsFileManagerAssumption
  <2>4. PICK S : all \in Seq(S)
    BY <1>6 DEF IsSeq
  <2>5. \A i \in 1..QueueSize : i \in 1..(q + l) /\ 1 + i - 1 = i
    BY <1>1, <1>5, <1>6, <1>12, <2>3, SMT
  <2>6. \A i \in 1..QueueSize : all[i] \in S
    BY <1>6, <2>4, <2>5, ElementOfSeq
  <2>7. /\ few \in Seq(S) /\ Len(few) = (IF 1 <= QueueSize THEN QueueSize - 1 + 1 ELSE 0)
        /\ \A i \in 1..(QueueSize - 1 + 1) : few[i] = all[1 + i - 1]
    <3>1. 1 \in Int /\ QueueSize \in Int
      BY <2>3, SMT
    <3> QED BY <2>6, <3>1, SubSeqProperties
  <2> HIDE DEF few, b
  <2>8. Len(few) = QueueSize /\ QueueSize - 1 + 1 = QueueSize
    BY <2>3, <2>7, SMT
  <2>9. DOMAIN few = 1..QueueSize /\ IsSeq(few)
    BY <2>7, <2>8, LenProperties DEF IsSeq
  <2>10. \A i \in 1..QueueSize : Command(m, few[i])
    BY <1>9, <2>5, <2>7, <2>8
  <2>11. \A p : Command(m, p) => Command(b, p)
    BY <2>1 DEF Command
  <2>12. Orderly(b)
    BY <1>1, <2>1, <2>9, <2>10, <2>11 DEF Orderly
  <2>13. ManagerInv(d, b, linked)
    BY <2>1, <2>12 DEF ManagerInv, Kept
  <2> QED BY <2>2, <2>13
<1> QED BY <1>11, <1>12 DEF n

(* A lost connection: what was remote is requested again.                   *)
LEMMA DisconnectKeeps ==
  ASSUME NEW d \in Devices, NEW linked, NEW m, ManagerInv(d, m, linked), m.connected
  PROVE  ManagerInv(d, CloseAndRequest(resetConnectionState(m)), linked)
<1> DEFINE r == resetConnectionState(m)
           n == [r EXCEPT !.remote = <<>>, !.open = {}]
           o == requestAll(n, m.remote)
           A == m.requested
           B == m.remote
<1>1. DOMAIN m = ManagerFields /\ IsSeq(m.local) /\ IsSeq(A) /\ IsSeq(B) /\ Kept(d, m)
      /\ m.local # <<>>
  BY DEF ManagerInv, Orderly
<1>2. /\ DOMAIN r = ManagerFields /\ r.queue = <<>> /\ r.pending = NoMessage
      /\ r.notify = NoMessage /\ r.write = NoWrite /\ r.local = m.local
      /\ r.remote = B /\ r.requested = A /\ r.connected = FALSE
  BY <1>1 DEF ManagerFields, resetConnectionState
<1>3. CloseAndRequest(r) = o
  BY <1>2 DEF CloseAndRequest
<1> HIDE DEF r
<1>4. /\ DOMAIN n = ManagerFields /\ n.queue = <<>> /\ n.pending = NoMessage
      /\ n.notify = NoMessage /\ n.write = NoWrite /\ n.open = {} /\ n.local = m.local
      /\ n.remote = <<>> /\ n.requested = A /\ n.connected = FALSE
  BY <1>2 DEF ManagerFields
<1> HIDE DEF n
<1>5. Len(A) + Len(B) <= MaxRequests
  BY <1>1, KeptCount, RequestedList
<1>6. Names(A) \cap Names(B) = {} /\ Once(A) /\ Once(B)
      /\ Names(A) \cup Names(B) = Names(RequestedFiles[d])
  BY <1>1 DEF Kept
<1>7. /\ o.requested = A \o B /\ DOMAIN o = DOMAIN n
      /\ \A x \in DOMAIN n : x # "requested" => o[x] = n[x]
  <2>1. "requested" \in DOMAIN n /\ n.requested = A
    BY <1>4 DEF ManagerFields
  <2>2. IsSeq(n.requested) /\ Names(n.requested) \cap Names(B) = {}
        /\ Len(n.requested) + Len(B) <= MaxRequests
    BY <1>1, <1>5, <1>6, <2>1 
  <2>3. IsSeq(B) /\ Once(B)
    BY <1>1, <1>6 
  <2> HIDE DEF A, B
  <2>4. /\ o.requested = n.requested \o B /\ DOMAIN o = DOMAIN n
        /\ \A x \in DOMAIN n : x # "requested" => o[x] = n[x]
    BY <2>1, <2>2, <2>3, RequestAll DEF B
  <2> QED BY <2>1, <2>4
<1> HIDE DEF o
<1>8. /\ DOMAIN o = ManagerFields /\ o.queue = <<>> /\ o.pending = NoMessage
      /\ o.notify = NoMessage /\ o.write = NoWrite /\ o.open = {} /\ o.local = m.local
      /\ o.remote = <<>> /\ o.connected = FALSE
  BY <1>4, <1>7 DEF ManagerFields
<1>9. IsSeq(A \o B) /\ Once(A \o B) /\ Names(A \o B) = Names(RequestedFiles[d])
  <2> DEFINE a == Len(A)
             b == Len(B)
             s == A \o B
  <2>1. IsSeq(A) /\ IsSeq(B) /\ a \in Nat /\ b \in Nat /\ DOMAIN A = 1..a /\ DOMAIN B = 1..b
    BY <1>1, SeqFacts
  <2>2. /\ IsSeq(s) /\ Len(s) = a + b
        /\ \A i \in 1..(a + b) : s[i] = IF i <= a THEN A[i] ELSE B[i - a]
    BY <2>1, Joined
  <2>3. DOMAIN s = 1..(a + b)
    BY <2>2, SeqFacts
  <2>4. Names(A) = {A[i].name : i \in 1..a} /\ Names(B) = {B[i].name : i \in 1..b}
    BY <2>1, NamesAt
  <2>5. Names(s) = Names(RequestedFiles[d])
    BY <1>6, <2>1, JoinedNames
  <2>7. /\ \A i, j \in 1..a : A[i].name = A[j].name => i = j
        /\ \A i, j \in 1..b : B[i].name = B[j].name => i = j
    BY <1>6, <2>1 DEF Once
  <2>8. \A i \in 1..a, j \in 1..b : A[i].name # B[j].name
    BY <1>6, <2>4
  <2> HIDE DEF a, b, s, A, B
  <2>9. ASSUME NEW i \in 1..(a + b)
        PROVE  (i <= a /\ i \in 1..a /\ s[i] = A[i]) \/ (~(i <= a) /\ i - a \in 1..b /\ s[i] = B[i - a])
    <3>1. CASE i <= a
      <4>1. i \in 1..a
        BY <2>1, <3>1, SMT
      <4> QED BY <2>2, <3>1, <4>1
    <3>2. CASE ~(i <= a)
      <4>1. i - a \in 1..b
        BY <2>1, <3>2, SMT
      <4> QED BY <2>2, <3>2, <4>1
    <3> QED BY <3>1, <3>2
  <2>11. ASSUME NEW i \in 1..(a + b), NEW j \in 1..(a + b), s[i].name = s[j].name
         PROVE  i = j
    <3>1. CASE i <= a /\ j <= a
      BY <2>7, <2>9, <2>11, <3>1
    <3>2. CASE ~(i <= a) /\ ~(j <= a)
      <4>1. i - a = j - a
        BY <2>7, <2>9, <2>11, <3>2
      <4> QED BY <2>1, <4>1, SMT
    <3>3. CASE i <= a /\ ~(j <= a)
      BY <2>8, <2>9, <2>11, <3>3
    <3>4. CASE ~(i <= a) /\ j <= a
      BY <2>8, <2>9, <2>11, <3>4
    <3> QED BY <3>1, <3>2, <3>3, <3>4
  <2>12. IsSeq(s) /\ Once(s)
    BY <2>2, <2>3, <2>11 DEF Once
  <2> QED BY <2>5, <2>12 DEF s
<1>10. Orderly(o)
  BY <1>8, EmptyList DEF Orderly, Noted
<1>11. Kept(d, o)
  BY <1>7, <1>8, <1>9, EmptyList DEF Kept
<1> QED BY <1>1, <1>3, <1>7, <1>8, <1>9, <1>10, <1>11, EmptyList DEF ManagerInv, r

(* insert puts a file at one place of the list, as long as there is room.   *)
LEMMA InsertPosition ==
  ASSUME NEW map, IsSeq(map), NEW file, Len(map) < MaxNumFiles
  PROVE  \E i \in 1..(Len(map) + 1) : apx_es_fileMap_insert(map, file) = InsertAt(map, i, file)
<1> DEFINE before == {i \in DOMAIN map : \A j \in 1..i : map[j].address <= file.address}
           n == Len(map)
<1>1. DOMAIN map = 1..n /\ n \in Nat /\ before \in SUBSET (1..n)
  BY SeqFacts
<1> HIDE DEF n
<1>2. IsFiniteSet(1..n) /\ Cardinality(1..n) = n
  BY <1>1, FS_Interval, SMT
<1> HIDE DEF before
<1>3. IsFiniteSet(before) /\ Cardinality(before) <= n
  <2> DEFINE whole == 1..n
  <2>1. IsFiniteSet(whole) /\ Cardinality(whole) = n /\ before \in SUBSET whole
    BY <1>1, <1>2
  <2> HIDE DEF whole
  <2>2. IsFiniteSet(before) /\ Cardinality(before) <= Cardinality(whole)
    BY <2>1, FS_Subset, Zenon
  <2> QED BY <2>1, <2>2
<1>4. Cardinality(before) \in Nat
  BY <1>3, FS_CardinalityType
<1>5. Cardinality(before) + 1 \in 1..(n + 1)
  BY <1>1, <1>3, <1>4, SMT
<1>6. MaxNumFiles \in Nat
  BY EsFileMapAssumption
<1>7. ~(Len(map) >= MaxNumFiles)
  BY <1>1, <1>6, SMT DEF n
<1>8. apx_es_fileMap_insert(map, file) = InsertAt(map, Cardinality(before) + 1, file)
  BY <1>7 DEF apx_es_fileMap_insert, insertAt, before
<1> QED BY <1>5, <1>8 DEF n

(* A file information: the requested file of that name becomes a remote     *)
(* file, and an open command for it enters the queue.                       *)
LEMMA InfoKeeps ==
  ASSUME NEW d \in Devices, NEW linked, NEW m, ManagerInv(d, m, linked), m.connected, NEW info
  PROVE  ManagerInv(d, processRemoteFileInfo(m, info), linked)
<1> DEFINE A == m.requested
           B == m.remote
           wanted == {i \in DOMAIN A : A[i].name = info.name /\ A[i].length = info.length}
           first  == CHOOSE i \in wanted : \A j \in wanted : i <= j
           file   == At(A[first], info.address)
           A2     == RemoveAt(A, first)
           B2     == apx_es_fileMap_insert(B, file)
           n      == [m EXCEPT !.requested = A2, !.remote = B2]
           msg    == [type |-> "open", file |-> info.name, address |-> info.address]
<1>1. DOMAIN m = ManagerFields /\ Orderly(m) /\ IsSeq(m.local) /\ IsSeq(A) /\ IsSeq(B)
      /\ Kept(d, m) /\ m.local # <<>>
  BY DEF ManagerInv, Orderly
<1>2. Len(A) \in Nat /\ DOMAIN A = 1..Len(A) /\ Len(B) \in Nat /\ DOMAIN B = 1..Len(B)
     
  BY <1>1, SeqFacts
<1>3. CASE wanted = {}
  BY <1>3 DEF processRemoteFileInfo
<1>4. CASE wanted # {}
  <2>1. processRemoteFileInfo(m, info) =
          Insert([m EXCEPT !.requested = RemoveAt(@, first),
                           !.remote = apx_es_fileMap_insert(@, file)], msg)
    BY <1>4 DEF processRemoteFileInfo
  <2>2. n = [m EXCEPT !.requested = RemoveAt(@, first), !.remote = apx_es_fileMap_insert(@, file)]
    OBVIOUS
  <2>3. first \in wanted
    <3>1. wanted \subseteq Nat
      BY <1>2, SMT
    <3> HIDE DEF wanted
    <3>2. PICK i \in wanted : \A j \in wanted : ~(j < i)
      BY <1>4, <3>1, LeastExists
    <3>3. \A j \in wanted : i <= j
      BY <3>1, <3>2, SMT
    <3> QED BY <3>2, <3>3
  <2>4. first \in 1..Len(A) /\ A[first].name = info.name
    <3> HIDE DEF first
    <3> QED BY <1>1, <1>2, <2>3 
  <2>5. file.name = info.name
    <3> HIDE DEF first
    <3> QED BY <2>4 DEF At
  <2> HIDE DEF wanted, first, file
  <2>6. Len(B) < MaxNumFiles
    <3>1. Len(A) + Len(B) = Len(RequestedFiles[d]) /\ Len(RequestedFiles[d]) <= MaxRequests
          /\ Len(RequestedFiles[d]) \in Nat
      BY <1>1, KeptCount, RequestedList
    <3>2. MaxRequests \in Nat /\ MaxRequests <= MaxNumFiles /\ MaxNumFiles \in Nat
      BY EsFileManagerAssumption, EsFileMapAssumption
    <3>3. Len(A) > 0
      BY <1>2, <2>4, SMT
    <3>4. Len(A) \in Nat /\ Len(B) \in Nat
      BY <1>2
    <3> DEFINE a == Len(A)
               b == Len(B)
               c == Len(RequestedFiles[d])
    <3>5. a \in Nat /\ b \in Nat /\ c \in Nat /\ a > 0 /\ a + b = c /\ c <= MaxRequests
      BY <3>1, <3>3, <3>4
    <3> HIDE DEF a, b, c
    <3>6. b < MaxNumFiles
      BY <3>2, <3>5, SMT
    <3> QED BY <3>6 DEF b
  <2>7. PICK k \in 1..(Len(B) + 1) : B2 = InsertAt(B, k, file)
    BY <1>1, <2>6, InsertPosition
  <2>8. Once(A) /\ Once(B) /\ Names(A) \cap Names(B) = {}
        /\ Names(A) \cup Names(B) = Names(RequestedFiles[d])
    BY <1>1 DEF Kept
  <2>9. info.name \in Names(A)
    BY <1>2, <2>4, NamesAt
  <2>12. IsSeq(A2) /\ Once(A2) /\ Names(A2) = Names(A) \ {info.name}
    <3>1. IsSeq(A2) /\ Once(A2) /\ Names(A2) = Names(A) \ {A[first].name}
      <4> HIDE DEF A
      <4> QED BY <1>1, <2>4, <2>8, RemovedNames
    <3> QED BY <2>4, <3>1
  <2>13. IsSeq(B2) /\ Once(B2) /\ Names(B2) = Names(B) \cup {info.name}
    <3>1. file.name \notin Names(B)
      BY <2>5, <2>8, <2>9
    <3> HIDE DEF B2
    <3> QED BY <1>1, <2>5, <2>7, <2>8, <3>1, InsertedNames
  <2> HIDE DEF A2, B2
  <2>15. /\ DOMAIN n = ManagerFields /\ n.queue = m.queue /\ n.pending = m.pending
         /\ n.notify = m.notify /\ n.write = m.write /\ n.open = m.open /\ n.local = m.local
         /\ n.remote = B2 /\ n.requested = A2 /\ n.connected = m.connected
    BY <1>1 DEF ManagerFields
  <2> HIDE DEF n
  <2>16. \A p : Command(m, p) => Command(n, p)
    BY <2>13, <2>15 DEF Command
  <2>17. Orderly(n)
    BY <1>1, <2>13, <2>15, <2>16 DEF Orderly
  <2>18. Kept(d, n)
    BY <2>8, <2>9, <2>12, <2>13, <2>15 DEF Kept
  <2>19. ManagerInv(d, n, linked)
    BY <1>1, <2>12, <2>13, <2>15, <2>17, <2>18 DEF ManagerInv
  <2>20. Command(n, msg)
    BY <2>13, <2>15 DEF Command
  <2> HIDE DEF msg
  <2>21. Orderly(Insert(n, msg)) /\ SameFiles(Insert(n, msg), n)
    BY <2>17, <2>20, InsertedCommand
  <2>22. ManagerInv(d, Insert(n, msg), linked)
    BY <2>15, <2>19, <2>21, ListsKept
  <2> QED BY <2>1, <2>2, <2>22
<1> QED BY <1>3, <1>4

(* An open request: a send command for a local file enters the queue.       *)
LEMMA OpenKeeps ==
  ASSUME NEW d \in Devices, NEW linked, NEW m, ManagerInv(d, m, linked), m.connected, NEW address
  PROVE  ManagerInv(d, processOpenFile(m, address), linked)
<1> DEFINE found == apx_es_fileMap_findByAddress(m.local, address)
           f == CHOOSE f \in found : TRUE
           msg == [type |-> "send", file |-> f.name]
<1>1. CASE found = {}
  BY <1>1 DEF processOpenFile
<1>2. CASE found # {}
  <2>1. processOpenFile(m, address) = Insert(m, msg)
    BY <1>2 DEF processOpenFile
  <2>2. f \in found
    BY <1>2
  <2>3. f \in Range(m.local)
    BY <2>2 DEF apx_es_fileMap_findByAddress
  <2> HIDE DEF f, found
  <2>4. f.name \in Names(m.local)
    BY <2>3 DEF Names
  <2>5. Command(m, msg)
    BY <2>4 DEF Command
  <2> HIDE DEF msg
  <2>6. Orderly(m)
    BY DEF ManagerInv
  <2>7. Orderly(Insert(m, msg)) /\ SameFiles(Insert(m, msg), m)
    BY <2>5, <2>6, InsertedCommand
  <2> QED BY <2>1, <2>7, ListsKept
<1> QED BY <1>1, <1>2

(* Either command.                                                          *)
LEMMA CommandKeeps ==
  ASSUME NEW d \in Devices, NEW linked, NEW m, ManagerInv(d, m, linked), m.connected,
         NEW msg, msg.type \in {"info", "open"}
  PROVE  ManagerInv(d, parseCmdMsg(m, msg), linked)
<1>1. CASE msg.type = "info"
  BY <1>1, InfoKeeps DEF parseCmdMsg
<1>2. CASE msg.type = "open"
  BY <1>2, OpenKeeps DEF parseCmdMsg
<1> QED BY <1>1, <1>2

(* A data message changes nothing but the reception.                        *)
LEMMA ReceptionKeeps ==
  ASSUME NEW d \in Devices, NEW linked, NEW m, ManagerInv(d, m, linked), NEW r
  PROVE  ManagerInv(d, [m EXCEPT !.reception = r], linked)
<1> DEFINE a == [m EXCEPT !.reception = r]
<1>1. DOMAIN m = ManagerFields /\ Orderly(m)
  BY DEF ManagerInv, Orderly
<1>2. /\ DOMAIN a = ManagerFields /\ a.queue = m.queue /\ a.pending = m.pending
      /\ a.notify = m.notify /\ a.write = m.write /\ a.open = m.open /\ a.local = m.local
      /\ a.remote = m.remote /\ a.requested = m.requested /\ a.connected = m.connected
  BY <1>1 DEF ManagerFields
<1> HIDE DEF a
<1>3. Orderly(a) /\ SameFiles(a, m)
  BY <1>1, <1>2 DEF Orderly, SameFiles, Command
<1>4. ManagerInv(d, a, linked)
  BY <1>2, <1>3, ListsKept
<1> QED BY <1>4 DEF a

(* A direct write of the application enters the queue.                      *)
LEMMA DirectKeeps ==
  ASSUME NEW d \in Devices, NEW linked, NEW m, ManagerInv(d, m, linked), m.connected, NEW data, NEW address
  PROVE  ManagerInv(d, triggerDirectWrite(m, data, address), linked)
<1> DEFINE msg == [type |-> "direct", address |-> address, data |-> data]
<1>1. triggerDirectWrite(m, data, address) = Insert(m, msg)
  BY DEF triggerDirectWrite
<1>2. Command(m, msg) /\ Orderly(m)
  BY DEF Command, ManagerInv
<1> HIDE DEF msg
<1>3. Orderly(Insert(m, msg)) /\ SameFiles(Insert(m, msg), m)
  BY <1>2, InsertedCommand
<1> QED BY <1>1, <1>3, ListsKept

(* A write of the application waits, is merged with one that waits, or      *)
(* takes its place.                                                         *)
LEMMA UpdateKeeps ==
  ASSUME NEW d \in Devices, NEW linked, NEW m, ManagerInv(d, m, linked), m.connected,
         NEW file, NEW offset, NEW length
  PROVE  ManagerInv(d, triggerFileUpdate(m, file, offset, length), linked)
<1> DEFINE q   == m.notify
           msg == Notice(file, offset, length)
           a   == [m EXCEPT !.notify = msg]
           b   == [m EXCEPT !.notify = [q EXCEPT !.length = @ + length]]
           i   == Insert(m, q)
           c   == [i EXCEPT !.notify = msg]
<1>1. Noted(msg)
  BY DEF Notice, Noted
<1>2. DOMAIN m = ManagerFields /\ Orderly(m)
  BY DEF ManagerInv, Orderly
<1> HIDE DEF msg
<1>3. ManagerInv(d, a, linked)
  BY <1>1, <1>2, NotifyForgotten, ListsKept
<1>4. CASE q = NoMessage
  BY <1>3, <1>4 DEF triggerFileUpdate, msg
<1>5. CASE q # NoMessage
  <2>1. q.type = "notify" /\ "type" \in DOMAIN q
    BY <1>2, <1>5 DEF Orderly, Noted
  <2>2. ManagerInv(d, b, linked)
    <3> DEFINE e == [q EXCEPT !.length = @ + length]
    <3>1. Noted(e)
      BY <2>1 DEF Noted
    <3> HIDE DEF e
    <3> QED BY <1>2, <3>1, NotifyForgotten, ListsKept DEF e
  <2>3. Command(m, q)
    BY <2>1 DEF Command
  <2>4. Orderly(i) /\ SameFiles(i, m)
    BY <1>2, <2>3, InsertedCommand
  <2> HIDE DEF i
  <2>5. ManagerInv(d, i, linked)
    BY <2>4, ListsKept
  <2>6. i.connected
    BY <2>4 DEF SameFiles
  <2>7. ManagerInv(d, c, linked)
    BY <1>1, <2>4, <2>5, <2>6, NotifyForgotten, ListsKept
  <2>8. triggerFileUpdate(m, file, offset, length) \in {b, c, i}
    BY <1>5 DEF triggerFileUpdate, msg, i
  <2> HIDE DEF b, c
  <2> QED BY <2>2, <2>5, <2>7, <2>8
<1> QED BY <1>4, <1>5

-----------------------------------------------------------------------------
(* The inductive invariant: of each device what ManagerInv says, and only   *)
(* messages of the three types are on their way.                            *)
EsInv ==
  /\ DOMAIN manager = Devices /\ DOMAIN channel = Devices
  /\ \A d \in Devices : ManagerInv(d, manager[d], link) /\ Messages(channel[d])

(* The invariant holds in the beginning.                                    *)
LEMMA EsInit == Init => EsInv
<1> SUFFICES ASSUME Init PROVE EsInv
  OBVIOUS
<1>1. manager = [d \in Devices |-> NewManager] /\ link = FALSE /\ channel = [d \in Devices |-> <<>>]
  BY DEF Init
<1>2. /\ DOMAIN NewManager = ManagerFields /\ NewManager.queue = <<>>
      /\ NewManager.pending = NoMessage /\ NewManager.notify = NoMessage
      /\ NewManager.write = NoWrite /\ NewManager.open = {} /\ NewManager.local = <<>>
      /\ NewManager.remote = <<>> /\ NewManager.requested = <<>> /\ NewManager.connected = FALSE
  BY DEF NewManager, ManagerFields
<1>3. Orderly(NewManager)
  BY <1>2, EmptyList DEF Orderly, Noted
<1>4. \A d \in Devices : ManagerInv(d, NewManager, FALSE)
  BY <1>2, <1>3, EmptyList DEF ManagerInv
<1>5. Messages(<<>>)
  BY EmptyList DEF Messages
<1> QED BY <1>1, <1>4, <1>5 DEF EsInv

(* The first message arrives.                                               *)
LEMMA MessagesLeave ==
  ASSUME NEW s, Messages(s), s # <<>>
  PROVE  Messages(Tail(s)) /\ Head(s).type \in {"info", "open", "data"}
<1> DEFINE t == Tail(s)
           n == Len(s)
<1>1. /\ IsSeq(s) /\ n \in Nat /\ DOMAIN s = 1..n
      /\ \A i \in 1..n : s[i].type \in {"info", "open", "data"}
  BY SeqFacts DEF Messages
<1>2. /\ IsSeq(t) /\ Len(t) = n - 1 /\ (\A i \in 1..(n - 1) : t[i] = s[i + 1])
      /\ Head(s) = s[1] /\ 1 \in DOMAIN s
  BY <1>1, Rest
<1>3. DOMAIN t = 1..(n - 1)
  BY <1>2, SeqFacts
<1> HIDE DEF t, n
<1>4. \A i \in 1..(n - 1) : i + 1 \in 1..n
  BY <1>1, SMT
<1> QED BY <1>1, <1>2, <1>3, <1>4 DEF Messages, t

(* What a call of run has sent joins what is on its way.                    *)
LEMMA MessagesJoin ==
  ASSUME NEW s, Messages(s), NEW t, Messages(t)
  PROVE  Messages(s \o t)
<1> DEFINE u == s \o t
           m == Len(s)
           n == Len(t)
<1>1. /\ IsSeq(s) /\ m \in Nat /\ DOMAIN s = 1..m /\ IsSeq(t) /\ n \in Nat /\ DOMAIN t = 1..n
      /\ \A i \in 1..m : s[i].type \in {"info", "open", "data"}
      /\ \A i \in 1..n : t[i].type \in {"info", "open", "data"}
  BY SeqFacts DEF Messages
<1>2. /\ IsSeq(u) /\ Len(u) = m + n
      /\ \A i \in 1..(m + n) : u[i] = IF i <= m THEN s[i] ELSE t[i - m]
  BY <1>1, Joined
<1>3. DOMAIN u = 1..(m + n)
  BY <1>2, SeqFacts
<1> HIDE DEF u, m, n
<1>4. \A i \in 1..(m + n) : (i <= m => i \in 1..m) /\ (~(i <= m) => i - m \in 1..n)
  BY <1>1, SMT
<1>5. \A i \in 1..(m + n) : u[i].type \in {"info", "open", "data"}
  BY <1>1, <1>2, <1>4
<1> QED BY <1>2, <1>3, <1>5 DEF Messages, u

(* A whole call of run.                                                     *)
LEMMA RunKeeps ==
  ASSUME NEW d \in Devices, NEW linked, NEW m, ManagerInv(d, m, linked), m.connected,
         NEW room, NEW resumed, NEW after,
         resumed = Resume([m |-> m, avail |-> room, room |-> room, out |-> <<>>, misread |-> {}]),
         after = runEventLoop([resumed EXCEPT !.m = processQueuedWriteNotify(@)])
  PROVE  ManagerInv(d, after.m, linked) /\ Messages(after.out)
<1> DEFINE t == [m |-> m, avail |-> room, room |-> room, out |-> <<>>, misread |-> {}]
           n == processQueuedWriteNotify(resumed.m)
           u == [resumed EXCEPT !.m = n]
<1>1. Orderly(m) /\ Messages(<<>>) /\ SameFiles(m, m)
  BY EmptyList DEF ManagerInv, Messages, SameFiles
<1>2. DOMAIN t = {"m", "avail", "room", "out", "misread"} /\ t.m = m /\ t.out = <<>>
  OBVIOUS
<1>3. resumed = Resume(t) /\ after = runEventLoop(u)
  OBVIOUS
<1> HIDE DEF t
<1>4. Working(t, m)
  BY <1>1, <1>2 DEF Working
<1>5. Working(resumed, m)
  BY <1>3, <1>4, ResumeWorks
<1>6. Orderly(n) /\ SameFiles(n, resumed.m)
  BY <1>5, QueuedNotifyWorks DEF Working
<1> HIDE DEF n
<1>7. DOMAIN u = {"m", "avail", "room", "out", "misread"} /\ u.m = n /\ u.out = resumed.out
  BY <1>5 DEF Working
<1> HIDE DEF u
<1>8. Working(u, m)
  BY <1>5, <1>6, <1>7 DEF Working, SameFiles
<1>9. Working(after, m)
  BY <1>3, <1>8, LoopWorks
<1>10. Orderly(after.m) /\ SameFiles(after.m, m) /\ Messages(after.out)
  BY <1>9 DEF Working
<1> QED BY <1>10, ListsKept

(* Every step keeps the invariant.                                          *)
LEMMA EsStep == EsInv /\ [Next]_vars => EsInv'
<1> SUFFICES ASSUME EsInv, [Next]_vars PROVE EsInv'
  OBVIOUS
<1> USE DEF EsInv
<1>1. ASSUME NEW d \in Devices, Attach(d) PROVE EsInv'
  <2> DEFINE n == requestAll([manager[d] EXCEPT !.local = Attached(d)], RequestedFiles[d])
  <2>1. manager[d].local = <<>> /\ manager[d].requested = <<>> /\ manager' = [manager EXCEPT ![d] = n]
        /\ link' = link /\ channel' = channel
    BY <1>1 DEF Attach, Change
  <2>2. ManagerInv(d, n, link)
    BY <2>1, AttachKeeps
  <2> HIDE DEF n
  <2> QED BY <2>1, <2>2
<1>2. ASSUME LinkUp PROVE EsInv'
  <2>1. link' /\ manager' = manager /\ channel' = channel
        /\ \A d \in Devices : manager[d].local # <<>>
    BY <1>2 DEF LinkUp
  <2>2. \A d \in Devices : ManagerInv(d, manager[d], link')
    BY <2>1 DEF ManagerInv
  <2> QED BY <2>1, <2>2
<1>3. ASSUME LinkLost PROVE EsInv'
  <2>1. ~link' /\ manager' = manager /\ channel' = [d \in Devices |-> <<>>]
    BY <1>3 DEF LinkLost
  <2>2. \A d \in Devices : ManagerInv(d, manager[d], link')
    BY <2>1 DEF ManagerInv
  <2>3. Messages(<<>>)
    BY EmptyList DEF Messages
  <2> QED BY <2>1, <2>2, <2>3
<1>4. ASSUME NEW d \in Devices, OnConnected(d) PROVE EsInv'
  <2> DEFINE n == publishAll([manager[d] EXCEPT !.connected = TRUE])
  <2>1. link /\ ~manager[d].connected /\ manager' = [manager EXCEPT ![d] = n]
        /\ link' = link /\ channel' = channel
    BY <1>4 DEF OnConnected, Change
  <2>2. manager[d].local # <<>>
    BY <2>1 DEF ManagerInv
  <2>3. ManagerInv(d, n, link)
    BY <2>1, <2>2, ConnectKeeps
  <2> HIDE DEF n
  <2> QED BY <2>1, <2>3
<1>5. ASSUME NEW d \in Devices, OnDisconnected(d) PROVE EsInv'
  <2> DEFINE n == CloseAndRequest(resetConnectionState(manager[d]))
  <2>1. manager[d].connected /\ manager' = [manager EXCEPT ![d] = n]
        /\ link' = link /\ channel' = channel
    BY <1>5 DEF OnDisconnected, Change
  <2>2. ManagerInv(d, n, link)
    BY <2>1, DisconnectKeeps
  <2> HIDE DEF n
  <2> QED BY <2>1, <2>2
<1>6. ASSUME NEW d \in Devices, Run(d) PROVE EsInv'
  <2>1. PICK room, resumed, after :
          /\ resumed = Resume([m |-> manager[d], avail |-> room, room |-> room, out |-> <<>>,
                               misread |-> {}])
          /\ after = runEventLoop([resumed EXCEPT !.m = processQueuedWriteNotify(@)])
          /\ manager' = [manager EXCEPT ![d] = after.m]
          /\ channel' = IF link THEN [channel EXCEPT ![Peer(d)] = @ \o after.out] ELSE channel
    BY <1>6 DEF Run, Change
  <2>2. manager[d].connected /\ link' = link
    BY <1>6 DEF Run
  <2>3. ManagerInv(d, after.m, link) /\ Messages(after.out)
    BY <2>1, <2>2, RunKeeps
  <2>4. \A e \in Devices : Messages(channel[e] \o after.out)
    BY <2>3, MessagesJoin
  <2>5. \A e \in Devices : channel'[e] = channel[e] \/ channel'[e] = channel[e] \o after.out
    BY <2>1
  <2>6. \A e \in Devices : Messages(channel'[e])
    BY <2>4, <2>5
  <2>7. DOMAIN channel' = Devices
    BY <2>1
  <2>8. DOMAIN manager' = Devices /\ \A e \in Devices : ManagerInv(e, manager'[e], link)
    BY <2>1, <2>3
  <2> QED BY <2>2, <2>6, <2>7, <2>8
<1>7. ASSUME NEW d \in Devices, OnMsgReceived(d) PROVE EsInv'
  <2> DEFINE m   == manager[d]
             msg == Head(channel[d])
             n   == parseCmdMsg(m, msg)
  <2>1. m.connected /\ channel[d] # <<>> /\ channel' = [channel EXCEPT ![d] = Tail(@)] /\ link' = link
    BY <1>7 DEF OnMsgReceived
  <2>2. Messages(Tail(channel[d])) /\ msg.type \in {"info", "open", "data"}
    BY <2>1, MessagesLeave
  <2>3. DOMAIN channel' = Devices /\ \A e \in Devices : Messages(channel'[e])
    BY <2>1, <2>2
  <2>4. CASE msg.type # "data" /\ manager' = [manager EXCEPT ![d] = n]
    <3>1. ManagerInv(d, n, link)
      BY <2>1, <2>2, <2>4, CommandKeeps
    <3> HIDE DEF n
    <3> QED BY <2>1, <2>3, <2>4, <3>1
  <2>5. CASE \E r : manager' = [manager EXCEPT ![d] = [m EXCEPT !.reception = r]]
    <3>1. PICK r : manager' = [manager EXCEPT ![d] = [m EXCEPT !.reception = r]]
      BY <2>5
    <3> DEFINE o == [m EXCEPT !.reception = r]
    <3>2. ManagerInv(d, o, link)
      BY ReceptionKeeps
    <3>3. manager' = [manager EXCEPT ![d] = o]
      BY <3>1
    <3> HIDE DEF o
    <3> QED BY <2>1, <2>3, <3>2, <3>3
  <2> QED BY <1>7, <2>4, <2>5 DEF OnMsgReceived, Change
<1>8. ASSUME NEW d \in Devices, WriteFile(d) PROVE EsInv'
  <2> DEFINE m == manager[d]
  <2>1. link' = link /\ channel' = channel
    BY <1>8 DEF WriteFile
  <2>2. PICK n : manager' = [manager EXCEPT ![d] = n] /\ ManagerInv(d, n, link)
    <3>1. PICK u \in Updates :
            LET f    == TheFile(manager[d], u.name)
                data == [i \in 1..u.length |-> updates + 1]
            IN Change(d, IF f.name \notin manager[d].open THEN manager[d]
                         ELSE IF f.name \in DirectFiles
                           THEN triggerDirectWrite(manager[d], data, f.address + u.offset)
                         ELSE triggerFileUpdate(manager[d], f.name, u.offset, u.length))
      BY <1>8 DEF WriteFile
    <3> DEFINE f == TheFile(m, u.name)
               data == [i \in 1..u.length |-> updates + 1]
               direct == triggerDirectWrite(m, data, f.address + u.offset)
               update == triggerFileUpdate(m, f.name, u.offset, u.length)
    <3>2. manager' = [manager EXCEPT ![d] = IF f.name \notin m.open THEN m
                                            ELSE IF f.name \in DirectFiles THEN direct ELSE update]
      BY <3>1 DEF Change
    <3>3. CASE f.name \notin m.open
      BY <3>2, <3>3
    <3>4. CASE f.name \in m.open
      <4>1. m.connected
        BY <3>4 DEF ManagerInv
      <4>2. ManagerInv(d, direct, link)
        BY <4>1, DirectKeeps
      <4>3. ManagerInv(d, update, link)
        BY <4>1, UpdateKeeps
      <4> HIDE DEF direct, update
      <4> QED BY <3>2, <3>4, <4>2, <4>3
    <3> QED BY <3>3, <3>4
  <2> QED BY <2>1, <2>2
<1>9. CASE UNCHANGED vars
  BY <1>9 DEF vars
<1> QED BY <1>1, <1>2, <1>3, <1>4, <1>5, <1>6, <1>7, <1>8, <1>9 DEF Next

(* What the invariant says about the lists.                                 *)
LEMMA EsInvForgetsNothing == EsInv => NoFileForgotten
<1> SUFFICES ASSUME EsInv, NEW d \in Devices, manager[d].local # <<>>
             PROVE  LET files == manager[d].requested \o manager[d].remote
                    IN /\ {f.name : f \in Range(files)} = {f.name : f \in Range(RequestedFiles[d])}
                       /\ Len(files) = Len(RequestedFiles[d])
                       /\ manager[d].open \subseteq
                            {f.name : f \in Range(manager[d].local \o manager[d].remote)}
  BY DEF NoFileForgotten
<1> DEFINE m == manager[d]
<1>1. Kept(d, m) /\ IsSeq(m.local) /\ IsSeq(m.remote) /\ IsSeq(m.requested) /\ Orderly(m)
  BY DEF EsInv, ManagerInv
<1> HIDE DEF m
<1>2. Names(m.requested \o m.remote) = Names(RequestedFiles[d])
  BY <1>1, JoinedNames DEF Kept
<1>3. Len(m.requested \o m.remote) = Len(RequestedFiles[d])
  <2>1. Len(m.requested \o m.remote) = Len(m.requested) + Len(m.remote)
    BY <1>1, Joined
  <2> QED BY <1>1, <2>1, KeptCount
<1>4. m.open \subseteq Names(m.local \o m.remote)
  BY <1>1, JoinedNames DEF Orderly
<1> QED BY <1>2, <1>3, <1>4 DEF m, Names

(* However many files, messages, losses of the link and writes of the       *)
(* applications there are, each file that was requested is requested or a   *)
(* remote file, once, and no file is open that a device does not have or    *)
(* know of (apx_es_fileManager_onDisconnected,                              *)
(* apx_es_fileManager_processRemoteFileInfo).                               *)
THEOREM NoFileIsForgotten == Spec => []NoFileForgotten
<1>1. Spec => []EsInv
  BY EsInit, EsStep, PTL DEF Spec
<1> QED BY <1>1, EsInvForgetsNothing, PTL

(* The assertion in run holds for any queue, sizes and files                *)
(* (apx_es_fileManager_run, file_manager.c:345).                            *)
THEOREM RunAssertionHolds == Spec => []OneMessageAtATime
<1>1. Spec => []EsInv
  BY EsInit, EsStep, PTL DEF Spec
<1>2. EsInv => OneMessageAtATime
  BY DEF EsInv, ManagerInv, Orderly, OneMessageAtATime
<1> QED BY <1>1, <1>2, PTL
=============================================================================
