------------------------------ MODULE QueueLemmas ------------------------------
(***************************************************************************)
(* Queues of tasks: who is in one, and that nobody is in it twice, after   *)
(* what the schedulers do to their run queues and waiting queues.          *)
(***************************************************************************)
EXTENDS Integers, Sequences, Functions, SequenceTheorems, FiniteSetTheorems, TLAPS

LEMMA OfEmpty == Range(<<>>) = {} /\ IsInjective(<<>>)
BY DEF Range, IsInjective

LEMMA OfAppend ==
  ASSUME NEW S, NEW q \in Seq(S), NEW t \in S
  PROVE  /\ Append(q, t) \in Seq(S)
         /\ Append(q, t) # <<>>
         /\ Len(Append(q, t)) = Len(q) + 1
         /\ Range(Append(q, t)) = Range(q) \cup {t}
         /\ IsInjective(q) /\ t \notin Range(q) => IsInjective(Append(q, t))
         /\ q # <<>> => Head(Append(q, t)) = Head(q)
<1> DEFINE a == Append(q, t)
<1>1. /\ a \in Seq(S) /\ Len(a) = Len(q) + 1 /\ a[Len(q) + 1] = t /\ a # <<>>
      /\ \A i \in 1..Len(q) : a[i] = q[i]
      /\ Len(q) \in Nat /\ DOMAIN q = 1..Len(q) /\ DOMAIN a = 1..(Len(q) + 1)
  BY AppendProperties, LenProperties
<1>2. Range(a) = Range(q) \cup {t}
  <2>1. ASSUME NEW i \in DOMAIN a PROVE a[i] \in Range(q) \cup {t}
    BY <1>1 DEF Range
  <2>2. ASSUME NEW i \in DOMAIN q PROVE q[i] \in Range(a)
    BY <1>1 DEF Range
  <2>3. t \in Range(a)
    BY <1>1 DEF Range
  <2> QED BY <2>1, <2>2, <2>3 DEF Range
<1>3. IsInjective(q) /\ t \notin Range(q) => IsInjective(a)
  BY <1>1 DEF IsInjective, Range
<1>4. q # <<>> => Head(a) = Head(q)
  BY HeadTailAppend
<1> QED BY <1>1, <1>2, <1>3, <1>4

LEMMA OfTail ==
  ASSUME NEW S, NEW q \in Seq(S), q # <<>>
  PROVE  /\ Head(q) \in S /\ Head(q) \in Range(q)
         /\ Tail(q) \in Seq(S)
         /\ Len(Tail(q)) = Len(q) - 1
         /\ Range(q) = {Head(q)} \cup Range(Tail(q))
         /\ IsInjective(q) => IsInjective(Tail(q)) /\ Head(q) \notin Range(Tail(q))
<1>1. /\ Head(q) \in S /\ Tail(q) \in Seq(S) /\ Len(Tail(q)) = Len(q) - 1
      /\ \A i \in 1..Len(Tail(q)) : Tail(q)[i] = q[i + 1]
      /\ Head(q) = q[1] /\ Len(q) \in Nat \ {0} /\ DOMAIN q = 1..Len(q)
      /\ DOMAIN Tail(q) = 1..(Len(q) - 1)
  BY HeadTailProperties, EmptySeq, LenProperties
<1>2. ASSUME NEW i \in DOMAIN q PROVE q[i] = Head(q) \/ q[i] \in Range(Tail(q))
  <2>1. CASE i = 1
    BY <2>1, <1>1
  <2>2. CASE i # 1
    <3>1. i - 1 \in DOMAIN Tail(q) /\ Tail(q)[i - 1] = q[i]
      BY <2>2, <1>1
    <3> QED BY <3>1 DEF Range
  <2> QED BY <2>1, <2>2
<1>3. ASSUME NEW i \in DOMAIN Tail(q) PROVE Tail(q)[i] \in Range(q)
  BY <1>1 DEF Range
<1>4. Head(q) \in Range(q)
  BY <1>1 DEF Range
<1>5. Range(q) = {Head(q)} \cup Range(Tail(q))
  BY <1>2, <1>3, <1>4 DEF Range
<1>6. IsInjective(q) => IsInjective(Tail(q)) /\ Head(q) \notin Range(Tail(q))
  BY <1>1 DEF IsInjective, Range
<1> QED BY <1>1, <1>4, <1>5, <1>6

LEMMA OfConcat ==
  ASSUME NEW S, NEW q \in Seq(S), NEW r \in Seq(S)
  PROVE  /\ q \o r \in Seq(S)
         /\ Len(q \o r) = Len(q) + Len(r)
         /\ Range(q \o r) = Range(q) \cup Range(r)
         /\ IsInjective(q) /\ IsInjective(r) /\ Range(q) \cap Range(r) = {}
              => IsInjective(q \o r)
         /\ q # <<>> => q \o r # <<>> /\ Head(q \o r) = Head(q)
<1>1. /\ q \o r \in Seq(S) /\ Len(q \o r) = Len(q) + Len(r)
      /\ \A i \in 1..Len(q) + Len(r) :
           (q \o r)[i] = IF i <= Len(q) THEN q[i] ELSE r[i - Len(q)]
      /\ Len(q) \in Nat /\ Len(r) \in Nat
      /\ DOMAIN q = 1..Len(q) /\ DOMAIN r = 1..Len(r)
      /\ DOMAIN (q \o r) = 1..(Len(q) + Len(r))
  BY ConcatProperties, LenProperties
<1>2. ASSUME NEW i \in DOMAIN (q \o r) PROVE (q \o r)[i] \in Range(q) \cup Range(r)
  <2>1. CASE i <= Len(q)
    BY <1>1, <2>1 DEF Range
  <2>2. CASE ~(i <= Len(q))
    <3>1. i - Len(q) \in DOMAIN r /\ (q \o r)[i] = r[i - Len(q)]
      BY <1>1, <2>2
    <3> QED BY <3>1 DEF Range
  <2> QED BY <2>1, <2>2
<1>3. ASSUME NEW i \in DOMAIN q PROVE q[i] \in Range(q \o r)
  BY <1>1 DEF Range
<1>4. ASSUME NEW i \in DOMAIN r PROVE r[i] \in Range(q \o r)
  <2>1. Len(q) + i \in DOMAIN (q \o r) /\ (q \o r)[Len(q) + i] = r[i]
    BY <1>1
  <2> QED BY <2>1 DEF Range
<1>5. Range(q \o r) = Range(q) \cup Range(r)
  BY <1>2, <1>3, <1>4 DEF Range
<1>6. ASSUME IsInjective(q), IsInjective(r), Range(q) \cap Range(r) = {}
      PROVE  IsInjective(q \o r)
  <2> SUFFICES ASSUME NEW i \in DOMAIN (q \o r), NEW j \in DOMAIN (q \o r),
                      (q \o r)[i] = (q \o r)[j]
               PROVE  i = j
    BY DEF IsInjective
  <2>1. CASE i <= Len(q) /\ j <= Len(q)
    BY <1>1, <1>6, <2>1 DEF IsInjective
  <2>2. CASE ~(i <= Len(q)) /\ ~(j <= Len(q))
    <3>1. /\ i - Len(q) \in DOMAIN r /\ j - Len(q) \in DOMAIN r
          /\ r[i - Len(q)] = r[j - Len(q)]
      BY <1>1, <2>2
    <3>2. i - Len(q) = j - Len(q)
      BY <1>6, <3>1 DEF IsInjective
    <3> QED BY <1>1, <3>2
  <2>3. CASE (i <= Len(q)) # (j <= Len(q))
    <3>1. ASSUME NEW k \in DOMAIN (q \o r), NEW l \in DOMAIN (q \o r),
                 k <= Len(q), ~(l <= Len(q))
          PROVE  (q \o r)[k] # (q \o r)[l]
      <4>1. (q \o r)[k] \in Range(q)
        BY <1>1, <3>1 DEF Range
      <4>2. l - Len(q) \in DOMAIN r /\ (q \o r)[l] = r[l - Len(q)]
        BY <1>1, <3>1
      <4>3. (q \o r)[l] \in Range(r)
        BY <4>2 DEF Range
      <4> QED BY <1>6, <4>1, <4>3
    <3> QED BY <2>3, <3>1
  <2> QED BY <2>1, <2>2, <2>3
<1>7. q # <<>> => q \o r # <<>> /\ Head(q \o r) = Head(q)
  <2> SUFFICES ASSUME q # <<>> PROVE q \o r # <<>> /\ Head(q \o r) = Head(q)
    OBVIOUS
  <2>1. Len(q) >= 1 /\ Len(q \o r) >= 1 /\ (q \o r)[1] = q[1]
    BY <1>1, EmptySeq
  <2>2. q \o r # <<>>
    BY <1>1, <2>1
  <2> QED BY <1>1, <2>1, <2>2, HeadTailProperties
<1> QED BY <1>1, <1>5, <1>6, <1>7

\* A queue is empty exactly when nobody is in it, and only finitely many are.
LEMMA OfMembers ==
  ASSUME NEW S, NEW q \in Seq(S)
  PROVE  /\ Range(q) \subseteq S
         /\ q = <<>> <=> Range(q) = {}
         /\ IsFiniteSet(Range(q))
<1>1. Len(q) \in Nat /\ DOMAIN q = 1..Len(q) /\ q \in [1..Len(q) -> S]
  BY LenProperties
<1>2. Range(q) \subseteq S
  BY <1>1 DEF Range
<1>3. q = <<>> => Range(q) = {}
  BY OfEmpty
<1>4. q # <<>> => Range(q) # {}
  BY OfTail
<1>5. q \in Surjection(1..Len(q), Range(q))
  BY <1>1 DEF Surjection, Range
<1>6. IsFiniteSet(Range(q))
  BY <1>1, <1>5, FS_NatSurjection DEF ExistsSurjection
<1> QED BY <1>2, <1>3, <1>4, <1>6

\* A queue in which nobody is twice is as long as its members are many.
LEMMA OfLength ==
  ASSUME NEW S, NEW q \in Seq(S), IsInjective(q)
  PROVE  Cardinality(Range(q)) = Len(q)
<1>1. Len(q) \in Nat /\ DOMAIN q = 1..Len(q) /\ q \in [1..Len(q) -> S]
  BY LenProperties
<1>2. q \in Surjection(1..Len(q), Range(q))
  BY <1>1 DEF Surjection, Range
<1>3. q \in Injection(1..Len(q), Range(q))
  BY <1>1, <1>2 DEF Injection, Surjection, IsInjective
<1>4. IsFiniteSet(1..Len(q)) /\ Cardinality(1..Len(q)) = Len(q)
  BY <1>1, FS_Interval
<1> QED BY <1>2, <1>3, <1>4, FS_Surjection

\* The first k of a queue, and the others.
LEMMA OfSplit ==
  ASSUME NEW S, NEW q \in Seq(S), NEW k \in 0..Len(q), IsInjective(q)
  PROVE  /\ SubSeq(q, 1, k) \in Seq(S) /\ SubSeq(q, k + 1, Len(q)) \in Seq(S)
         /\ Len(SubSeq(q, 1, k)) = k /\ Len(SubSeq(q, k + 1, Len(q))) = Len(q) - k
         /\ Range(q) = Range(SubSeq(q, 1, k)) \cup Range(SubSeq(q, k + 1, Len(q)))
         /\ Range(SubSeq(q, 1, k)) \cap Range(SubSeq(q, k + 1, Len(q))) = {}
         /\ IsInjective(SubSeq(q, 1, k)) /\ IsInjective(SubSeq(q, k + 1, Len(q)))
<1> DEFINE a == SubSeq(q, 1, k)
           b == SubSeq(q, k + 1, Len(q))
<1>1. Len(q) \in Nat /\ DOMAIN q = 1..Len(q) /\ q \in [1..Len(q) -> S]
  BY LenProperties
<1>2. /\ a \in Seq(S) /\ Len(a) = k /\ DOMAIN a = 1..k
      /\ \A i \in 1..k : a[i] = q[i]
  BY <1>1
<1>3. /\ b \in Seq(S) /\ Len(b) = Len(q) - k /\ DOMAIN b = 1..(Len(q) - k)
      /\ \A i \in 1..(Len(q) - k) : b[i] = q[k + i]
  <2> DEFINE m == k + 1
             n == Len(q)
  <2>1. m \in Int /\ n \in Int /\ \A i \in m..n : q[i] \in S
    BY <1>1
  <2>b. b = SubSeq(q, m, n)
    OBVIOUS
  <2>n. n \in Nat /\ k \in 0..n /\ m = k + 1 /\ Len(q) = n
    BY <1>1
  <2> HIDE DEF b, m, n
  <2>2. /\ SubSeq(q, m, n) \in Seq(S)
        /\ Len(SubSeq(q, m, n)) = IF m <= n THEN n - m + 1 ELSE 0
        /\ \A i \in 1..(n - m + 1) : SubSeq(q, m, n)[i] = q[m + i - 1]
    BY <2>1, SubSeqProperties
  <2>3. b \in Seq(S) /\ Len(b) = Len(q) - k
    <3>1. (IF m <= n THEN n - m + 1 ELSE 0) = n - k
      BY <2>n
    <3> QED BY <2>b, <2>n, <2>2, <3>1
  <2>4. DOMAIN b = 1..(Len(q) - k)
    BY <2>3, LenProperties
  <2>5. ASSUME NEW i \in 1..(Len(q) - k) PROVE b[i] = q[k + i]
    <3>1. i \in 1..(n - m + 1) /\ m + i - 1 = k + i
      BY <2>n
    <3> QED BY <2>b, <2>2, <3>1
  <2> QED BY <2>3, <2>4, <2>5
<1> HIDE DEF a, b
<1>4. \A i \in 1..Len(q) : q[i] \in Range(a) \cup Range(b)
  <2> SUFFICES ASSUME NEW i \in 1..Len(q) PROVE q[i] \in Range(a) \cup Range(b)
    OBVIOUS
  <2>1. CASE i <= k
    BY <2>1, <1>1, <1>2 DEF Range
  <2>2. CASE ~(i <= k)
    <3>1. i - k \in 1..(Len(q) - k) /\ b[i - k] = q[i]
      BY <2>2, <1>1, <1>3
    <3> QED BY <3>1, <1>3 DEF Range
  <2> QED BY <2>1, <2>2
<1>5. Range(a) \cup Range(b) \subseteq Range(q)
  <2>1. \A i \in DOMAIN a : a[i] \in Range(q)
    BY <1>1, <1>2 DEF Range
  <2>2. ASSUME NEW i \in DOMAIN b PROVE b[i] \in Range(q)
    <3>1. k + i \in DOMAIN q /\ b[i] = q[k + i]
      BY <1>1, <1>3
    <3> QED BY <3>1 DEF Range
  <2> QED BY <2>1, <2>2 DEF Range
<1>6. Range(q) = Range(a) \cup Range(b)
  BY <1>1, <1>4, <1>5 DEF Range
<1>7. Range(a) \cap Range(b) = {}
  <2> SUFFICES ASSUME NEW i \in DOMAIN a, NEW j \in DOMAIN b, a[i] = b[j] PROVE FALSE
    BY DEF Range
  <2>1. i \in DOMAIN q /\ k + j \in DOMAIN q /\ q[i] = q[k + j] /\ i # k + j
    BY <1>1, <1>2, <1>3
  <2> QED BY <2>1 DEF IsInjective
<1>8. IsInjective(a)
  BY <1>1, <1>2 DEF IsInjective
<1>9. IsInjective(b)
  <2> SUFFICES ASSUME NEW i \in DOMAIN b, NEW j \in DOMAIN b, b[i] = b[j] PROVE i = j
    BY DEF IsInjective
  <2>1. k + i \in DOMAIN q /\ k + j \in DOMAIN q /\ q[k + i] = q[k + j]
    BY <1>1, <1>3
  <2>2. k + i = k + j
    BY <2>1 DEF IsInjective
  <2> QED BY <2>2, <1>3
<1> QED BY <1>2, <1>3, <1>6, <1>7, <1>8, <1>9 DEF a, b

-----------------------------------------------------------------------------
(* A run queue r and waiting queues w, indexed by the operations O their   *)
(* members will execute again; p[t] is the operation task t is to execute. *)

\* Nobody is in two places, and who waits in a queue is to execute its operation.
PlacedBy(O, r, w, p) ==
  /\ IsInjective(r)
  /\ \A o \in O : IsInjective(w[o]) /\ \A t \in Range(w[o]) : p[t] = o /\ t \notin Range(r)

\* The tasks of T that wait.
ParkedBy(T, O, w) == {t \in T : \E o \in O : t \in Range(w[o])}

\* The queue at o becomes q, and R becomes r2.
MayReplace(T, O, w, p, o, q, r2, p2) ==
  /\ o \in O /\ q \in Seq(T) /\ IsInjective(r2) /\ IsInjective(q)
  /\ \A t \in Range(q) : p2[t] = o /\ t \notin Range(r2)
  /\ \A t \in ParkedBy(T, O, w) \ Range(w[o]) : p2[t] = p[t] /\ t \notin Range(r2)

Replaced(T, O, w, v, o, q, r2, p2) ==
  /\ PlacedBy(O, r2, v, p2)
  /\ ParkedBy(T, O, v) = (ParkedBy(T, O, w) \ Range(w[o])) \cup Range(q)

LEMMA ReplaceQueue ==
  ASSUME NEW T, NEW O, NEW r, NEW w \in [O -> Seq(T)], NEW p, NEW o, NEW q, NEW r2,
         NEW p2, NEW v,
         PlacedBy(O, r, w, p), MayReplace(T, O, w, p, o, q, r2, p2), v = [w EXCEPT ![o] = q]
  PROVE  Replaced(T, O, w, v, o, q, r2, p2)
<1>0. /\ o \in O /\ q \in Seq(T) /\ IsInjective(r2) /\ IsInjective(q)
      /\ \A t \in Range(q) : p2[t] = o /\ t \notin Range(r2)
      /\ \A t \in ParkedBy(T, O, w) \ Range(w[o]) : p2[t] = p[t] /\ t \notin Range(r2)
  BY DEF MayReplace
<1>1. v[o] = q /\ \A x \in O \ {o} : v[x] = w[x]
  BY <1>0
<1>2. \A x \in O : Range(w[x]) \subseteq T
  BY OfMembers
<1>3. Range(q) \subseteq T
  BY <1>0, OfMembers
<1>4. \A x \in O \ {o} : Range(w[x]) \cap Range(w[o]) = {}
  BY <1>0 DEF PlacedBy
<1>5. ASSUME NEW x \in O
      PROVE  IsInjective(v[x]) /\ \A t \in Range(v[x]) : p2[t] = x /\ t \notin Range(r2)
  <2>1. CASE x = o
    BY <1>0, <1>1, <2>1
  <2>2. CASE x # o
    <3>1. v[x] = w[x] /\ IsInjective(w[x])
      BY <1>1, <2>2 DEF PlacedBy
    <3>2. ASSUME NEW t \in Range(w[x]) PROVE p2[t] = x /\ t \notin Range(r2)
      <4>1. t \in T /\ t \notin Range(w[o])
        BY <1>2, <1>4, <2>2
      <4>2. t \in ParkedBy(T, O, w)
        BY <4>1 DEF ParkedBy
      <4> QED BY <1>0, <4>1, <4>2 DEF PlacedBy
    <3> QED BY <3>1, <3>2
  <2> QED BY <2>1, <2>2
<1>6. PlacedBy(O, r2, v, p2)
  BY <1>0, <1>5 DEF PlacedBy
<1>7. ASSUME NEW t \in T
      PROVE  t \in ParkedBy(T, O, v) <=> t \in (ParkedBy(T, O, w) \ Range(w[o])) \cup Range(q)
  <2>1. t \in ParkedBy(T, O, v) <=> \E x \in O : t \in Range(v[x])
    BY DEF ParkedBy
  <2>2. (\E x \in O : t \in Range(v[x]))
          <=> t \in Range(q) \/ \E x \in O \ {o} : t \in Range(w[x])
    BY <1>0, <1>1
  <2>3. (\E x \in O \ {o} : t \in Range(w[x])) <=> t \in ParkedBy(T, O, w) \ Range(w[o])
    BY <1>0, <1>4 DEF ParkedBy
  <2> QED BY <2>1, <2>2, <2>3
<1>8. ParkedBy(T, O, v) \subseteq T /\ ParkedBy(T, O, w) \subseteq T
  BY DEF ParkedBy
<1> QED BY <1>3, <1>6, <1>7, <1>8 DEF Replaced

\* Who waits is not on R, and there are finitely many of them.
LEMMA WaitingApart ==
  ASSUME NEW T, NEW O, NEW r \in Seq(T), NEW w \in [O -> Seq(T)], NEW p,
         PlacedBy(O, r, w, p)
  PROVE  /\ ParkedBy(T, O, w) \cap Range(r) = {}
         /\ ParkedBy(T, O, w) \subseteq T
         /\ IsFiniteSet(T) => IsFiniteSet(ParkedBy(T, O, w))
         /\ \A o \in O : Range(w[o]) \subseteq ParkedBy(T, O, w)
<1>1. ParkedBy(T, O, w) \cap Range(r) = {} /\ ParkedBy(T, O, w) \subseteq T
  BY DEF ParkedBy, PlacedBy
<1>2. IsFiniteSet(T) => IsFiniteSet(ParkedBy(T, O, w))
  BY <1>1, FS_Subset
<1>3. \A o \in O : Range(w[o]) \subseteq T
  BY OfMembers
<1> QED BY <1>1, <1>2, <1>3 DEF ParkedBy

\* The head of R goes to the end of the queue at o.
HeadJoins(T, O, r, w, p, o) ==
  /\ PlacedBy(O, Tail(r), [w EXCEPT ![o] = Append(@, Head(r))], [p EXCEPT ![Head(r)] = o])
  /\ ParkedBy(T, O, [w EXCEPT ![o] = Append(@, Head(r))]) = ParkedBy(T, O, w) \cup {Head(r)}
  /\ Head(r) \notin ParkedBy(T, O, w)

LEMMA HeadWaits ==
  ASSUME NEW T, NEW O, NEW r \in Seq(T), NEW w \in [O -> Seq(T)], NEW P, NEW p \in [T -> P],
         PlacedBy(O, r, w, p), r # <<>>, NEW o \in O
  PROVE  HeadJoins(T, O, r, w, p, o)
<1> DEFINE h == Head(r)
           q == Append(w[o], h)
           p2 == [p EXCEPT ![h] = o]
           rest == Tail(r)
           v == [w EXCEPT ![o] = q]
<1>1. /\ h \in T /\ h \in Range(r) /\ rest \in Seq(T) /\ IsInjective(rest)
      /\ Range(r) = {h} \cup Range(rest) /\ h \notin Range(rest)
  BY OfTail DEF PlacedBy
<1>2. /\ ParkedBy(T, O, w) \cap Range(r) = {} /\ ParkedBy(T, O, w) \subseteq T
      /\ Range(w[o]) \subseteq ParkedBy(T, O, w)
  BY WaitingApart
<1>3. /\ w[o] \in Seq(T) /\ IsInjective(w[o]) /\ h \notin Range(w[o])
      /\ \A t \in Range(w[o]) : p[t] = o
  BY <1>1, <1>2 DEF PlacedBy
<1>4. q \in Seq(T) /\ Range(q) = Range(w[o]) \cup {h} /\ IsInjective(q)
  BY <1>1, <1>3, OfAppend
<1>5. \A t \in T : p2[t] = IF t = h THEN o ELSE p[t]
  BY <1>1
<1> HIDE DEF h, q, p2, rest, v
<1>6. \A t \in Range(q) : p2[t] = o /\ t \notin Range(rest)
  BY <1>1, <1>2, <1>3, <1>4, <1>5
<1>7. \A t \in ParkedBy(T, O, w) \ Range(w[o]) : p2[t] = p[t] /\ t \notin Range(rest)
  BY <1>1, <1>2, <1>5
<1>8. /\ PlacedBy(O, rest, v, p2)
      /\ ParkedBy(T, O, v) = (ParkedBy(T, O, w) \ Range(w[o])) \cup Range(q)
  <2>1. v = [w EXCEPT ![o] = q]
    BY DEF v
  <2>2. MayReplace(T, O, w, p, o, q, rest, p2)
    BY <1>1, <1>4, <1>6, <1>7 DEF MayReplace
  <2>3. Replaced(T, O, w, v, o, q, rest, p2)
    BY <2>1, <2>2, ReplaceQueue
  <2> QED BY <2>3 DEF Replaced
<1>9. ParkedBy(T, O, v) = ParkedBy(T, O, w) \cup {h} /\ h \notin ParkedBy(T, O, w)
  BY <1>1, <1>2, <1>4, <1>8
<1> QED BY <1>8, <1>9 DEF HeadJoins, h, q, p2, rest, v

\* The first of the queue at o goes to the end of R.
LEMMA FirstWakes ==
  ASSUME NEW T, NEW O, NEW r \in Seq(T), NEW w \in [O -> Seq(T)], NEW p,
         PlacedBy(O, r, w, p), NEW o \in O, w[o] # <<>>
  PROVE  /\ PlacedBy(O, Append(r, Head(w[o])), [w EXCEPT ![o] = Tail(@)], p)
         /\ ParkedBy(T, O, [w EXCEPT ![o] = Tail(@)]) = ParkedBy(T, O, w) \ {Head(w[o])}
         /\ Range(Append(r, Head(w[o]))) = Range(r) \cup {Head(w[o])}
         /\ Append(r, Head(w[o])) \in Seq(T)
         /\ Head(w[o]) \in ParkedBy(T, O, w)
<1> DEFINE h == Head(w[o])
           q == Tail(w[o])
           r2 == Append(r, h)
           v == [w EXCEPT ![o] = q]
<1>1. /\ ParkedBy(T, O, w) \cap Range(r) = {} /\ ParkedBy(T, O, w) \subseteq T
      /\ Range(w[o]) \subseteq ParkedBy(T, O, w)
  BY WaitingApart
<1>2. w[o] \in Seq(T) /\ IsInjective(w[o]) /\ \A t \in Range(w[o]) : p[t] = o
  BY DEF PlacedBy
<1>3. /\ h \in T /\ h \in Range(w[o]) /\ q \in Seq(T) /\ IsInjective(q)
      /\ Range(w[o]) = {h} \cup Range(q) /\ h \notin Range(q)
  BY <1>2, OfTail
<1>4. h \notin Range(r) /\ IsInjective(r)
  BY <1>1, <1>3 DEF PlacedBy
<1>5. r2 \in Seq(T) /\ Range(r2) = Range(r) \cup {h} /\ IsInjective(r2)
  BY <1>3, <1>4, OfAppend
<1> HIDE DEF h, q, r2, v
<1>6. \A t \in Range(q) : p[t] = o /\ t \notin Range(r2)
  BY <1>1, <1>2, <1>3, <1>5
<1>7. \A t \in ParkedBy(T, O, w) \ Range(w[o]) : p[t] = p[t] /\ t \notin Range(r2)
  BY <1>1, <1>3, <1>5
<1>8. /\ PlacedBy(O, r2, v, p)
      /\ ParkedBy(T, O, v) = (ParkedBy(T, O, w) \ Range(w[o])) \cup Range(q)
  <2>1. v = [w EXCEPT ![o] = q]
    BY DEF v
  <2>2. MayReplace(T, O, w, p, o, q, r2, p)
    BY <1>3, <1>5, <1>6, <1>7 DEF MayReplace
  <2>3. Replaced(T, O, w, v, o, q, r2, p)
    BY <2>1, <2>2, ReplaceQueue
  <2> QED BY <2>3 DEF Replaced
<1>9. ParkedBy(T, O, v) = ParkedBy(T, O, w) \ {h} /\ h \in ParkedBy(T, O, w)
  BY <1>1, <1>3, <1>8
<1> QED BY <1>5, <1>8, <1>9 DEF h, q, r2, v

\* The queue at o goes to the end of R.
AreWoken(T, O, r, w, p, o) ==
  /\ PlacedBy(O, r \o w[o], [w EXCEPT ![o] = <<>>], p)
  /\ ParkedBy(T, O, [w EXCEPT ![o] = <<>>]) = ParkedBy(T, O, w) \ Range(w[o])
  /\ Range(r \o w[o]) = Range(r) \cup Range(w[o])
  /\ r \o w[o] \in Seq(T)
  /\ Range(w[o]) \subseteq ParkedBy(T, O, w)
  /\ Cardinality(Range(w[o])) = Len(w[o])

LEMMA AllWake ==
  ASSUME NEW T, NEW O, NEW r \in Seq(T), NEW w \in [O -> Seq(T)], NEW p,
         PlacedBy(O, r, w, p), NEW o \in O
  PROVE  AreWoken(T, O, r, w, p, o)
<1> DEFINE r2 == r \o w[o]
           e == <<>>
           v == [w EXCEPT ![o] = e]
<1>1. /\ ParkedBy(T, O, w) \cap Range(r) = {} /\ ParkedBy(T, O, w) \subseteq T
      /\ Range(w[o]) \subseteq ParkedBy(T, O, w)
  BY WaitingApart
<1>2. w[o] \in Seq(T) /\ IsInjective(w[o]) /\ IsInjective(r)
  BY DEF PlacedBy
<1>3. Range(r) \cap Range(w[o]) = {}
  BY <1>1
<1>4. r2 \in Seq(T) /\ Range(r2) = Range(r) \cup Range(w[o]) /\ IsInjective(r2)
  BY <1>2, <1>3, OfConcat
<1>5. Cardinality(Range(w[o])) = Len(w[o])
  BY <1>2, OfLength
<1>6. e \in Seq(T) /\ Range(e) = {} /\ IsInjective(e)
  BY OfEmpty
<1> HIDE DEF r2, e, v
<1>7. \A t \in Range(e) : p[t] = o /\ t \notin Range(r2)
  BY <1>6
<1>8. \A t \in ParkedBy(T, O, w) \ Range(w[o]) : p[t] = p[t] /\ t \notin Range(r2)
  BY <1>1, <1>4
<1>9. /\ PlacedBy(O, r2, v, p)
      /\ ParkedBy(T, O, v) = (ParkedBy(T, O, w) \ Range(w[o])) \cup Range(e)
  <2>1. v = [w EXCEPT ![o] = e]
    BY DEF v
  <2>2. MayReplace(T, O, w, p, o, e, r2, p)
    BY <1>4, <1>6, <1>7, <1>8 DEF MayReplace
  <2>3. Replaced(T, O, w, v, o, e, r2, p)
    BY <2>1, <2>2, ReplaceQueue
  <2> QED BY <2>3 DEF Replaced
<1>10. ParkedBy(T, O, v) = ParkedBy(T, O, w) \ Range(w[o])
  BY <1>6, <1>9
<1> QED BY <1>1, <1>4, <1>5, <1>9, <1>10 DEF AreWoken, r2, e, v

\* What a task that does not wait will execute does not matter.
LEMMA SamePlaces ==
  ASSUME NEW T, NEW O, NEW r \in Seq(T), NEW w \in [O -> Seq(T)], NEW p, NEW p2,
         PlacedBy(O, r, w, p), \A t \in ParkedBy(T, O, w) : p2[t] = p[t]
  PROVE  PlacedBy(O, r, w, p2)
<1>1. \A o \in O : \A t \in Range(w[o]) : t \in ParkedBy(T, O, w)
  BY WaitingApart
<1> QED BY <1>1 DEF PlacedBy

\* A task that was nowhere is appended to R.
JoinsAt(O, r, w, p, u) ==
  PlacedBy(O, Append(r, u), w, p) /\ Range(Append(r, u)) = Range(r) \cup {u}

LEMMA Joins ==
  ASSUME NEW T, NEW O, NEW r \in Seq(T), NEW w \in [O -> Seq(T)], NEW p,
         PlacedBy(O, r, w, p), NEW u \in T \ (Range(r) \cup ParkedBy(T, O, w))
  PROVE  JoinsAt(O, r, w, p, u)
<1> DEFINE r2 == Append(r, u)
<1>1. IsInjective(r) /\ u \notin Range(r)
  BY DEF PlacedBy
<1>2. r2 \in Seq(T) /\ Range(r2) = Range(r) \cup {u} /\ IsInjective(r2)
  BY <1>1, OfAppend
<1> HIDE DEF r2
<1>3. \A o \in O : u \notin Range(w[o])
  BY WaitingApart
<1>4. PlacedBy(O, r2, w, p)
  BY <1>2, <1>3 DEF PlacedBy
<1> QED BY <1>2, <1>4 DEF JoinsAt, r2

\* R alone changes: its head leaves, or goes to the end, or a task is appended
\* that was nowhere; and a task on R may begin or end an operation.
LEMMA RunAlone ==
  ASSUME NEW T, NEW O, NEW r \in Seq(T), NEW w \in [O -> Seq(T)], NEW p,
         PlacedBy(O, r, w, p)
  PROVE  /\ r # <<>> => /\ PlacedBy(O, Tail(r), w, p)
                        /\ PlacedBy(O, Append(Tail(r), Head(r)), w, p)
                        /\ Tail(r) \in Seq(T) /\ Append(Tail(r), Head(r)) \in Seq(T)
                        /\ Range(Append(Tail(r), Head(r))) = Range(r)
                        /\ Head(r) \in T /\ Head(r) \in Range(r)
                        /\ Range(Tail(r)) = Range(r) \ {Head(r)}
         /\ \A u \in T \ (Range(r) \cup ParkedBy(T, O, w)) :
              PlacedBy(O, Append(r, u), w, p) /\ Range(Append(r, u)) = Range(r) \cup {u}
         /\ \A p2 : (\A t \in ParkedBy(T, O, w) : p2[t] = p[t]) => PlacedBy(O, r, w, p2)
<1>1. ASSUME r # <<>>
      PROVE  /\ PlacedBy(O, Tail(r), w, p)
             /\ PlacedBy(O, Append(Tail(r), Head(r)), w, p)
             /\ Tail(r) \in Seq(T) /\ Append(Tail(r), Head(r)) \in Seq(T)
             /\ Range(Append(Tail(r), Head(r))) = Range(r)
             /\ Head(r) \in T /\ Head(r) \in Range(r)
             /\ Range(Tail(r)) = Range(r) \ {Head(r)}
  <2> DEFINE rest == Tail(r)
             h == Head(r)
             r2 == Append(rest, h)
  <2>1. /\ h \in T /\ h \in Range(r) /\ rest \in Seq(T) /\ IsInjective(rest)
        /\ Range(r) = {h} \cup Range(rest) /\ h \notin Range(rest)
    BY <1>1, OfTail DEF PlacedBy
  <2> HIDE DEF rest, h
  <2>2. r2 \in Seq(T) /\ Range(r2) = Range(rest) \cup {h} /\ IsInjective(r2)
    BY <2>1, OfAppend
  <2> HIDE DEF r2
  <2>3. Range(r2) = Range(r) /\ Range(rest) = Range(r) \ {h}
    BY <2>1, <2>2
  <2>4. PlacedBy(O, rest, w, p) /\ PlacedBy(O, r2, w, p)
    BY <2>1, <2>2, <2>3 DEF PlacedBy
  <2> QED BY <2>1, <2>2, <2>3, <2>4 DEF rest, h, r2
<1>2. ASSUME NEW u \in T \ (Range(r) \cup ParkedBy(T, O, w))
      PROVE  PlacedBy(O, Append(r, u), w, p) /\ Range(Append(r, u)) = Range(r) \cup {u}
  <2>1. JoinsAt(O, r, w, p, u)
    BY Joins
  <2> QED BY <2>1 DEF JoinsAt
<1>3. ASSUME NEW p2, \A t \in ParkedBy(T, O, w) : p2[t] = p[t]
      PROVE  PlacedBy(O, r, w, p2)
  BY <1>3, SamePlaces
<1> QED BY <1>1, <1>2, <1>3

=============================================================================
