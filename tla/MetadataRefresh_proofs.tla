------------------------ MODULE MetadataRefresh_proofs ------------------------
(***************************************************************************)
(* Proofs about MetadataRefresh, for any finite number of tracks and       *)
(* batches of any size.                                                    *)
(***************************************************************************)
EXTENDS MetadataRefresh, FiniteSetTheorems, SequenceTheorems, TLAPS

-----------------------------------------------------------------------------
(* The inductive invariant.                                                *)

Distinct(seq) == \A i, j \in DOMAIN seq : seq[i] = seq[j] => i = j

\* Types; no track is stamped or due twice.
Shape ==
    /\ known \subseteq Track
    /\ stamped \in Seq(known) /\ Distinct(stamped)
    /\ gone \subseteq Track
    /\ running \in BOOLEAN
    /\ due \in Seq(known) /\ Distinct(due)
    /\ Len(due) <= Batch
    /\ visit \in 1..Len(due) + 1

\* The tracks with a stamp older than that of a track the run has still to visit come
\* before it in the batch.
OlderComeFirst ==
    running => \A m \in visit..Len(due) : \A i, j \in DOMAIN stamped :
        i < j /\ stamped[j] = due[m] => \E k \in 1..m - 1 : stamped[i] = due[k]

IInv == Shape /\ OlderComeFirst

-----------------------------------------------------------------------------
(* The rows of a SELECT and the stamps after an UPDATE.                    *)

\* ORDER BY lists each of the rows once.
LEMMA OrdersList ==
    ASSUME NEW S, IsFiniteSet(S), NEW o \in Orders(S)
    PROVE  o \in Seq(S) /\ Elements(o) = S /\ Distinct(o)
<1>1. Cardinality(S) \in Nat
  BY FS_CardinalityType
<1>2. /\ o \in [1..Cardinality(S) -> S] /\ Elements(o) = S
      /\ DOMAIN o = 1..Cardinality(S)
  BY DEF Orders
<1>3. o \in Seq(S)
  BY <1>1, <1>2, SeqDef
<1>4. o \in Surjection(1..Cardinality(S), S)
  BY <1>2 DEF Surjection, Elements
<1>5. IsFiniteSet(1..Cardinality(S)) /\ Cardinality(1..Cardinality(S)) = Cardinality(S)
  <2> DEFINE n == Cardinality(S)
  <2>1. n \in Nat
    BY <1>1
  <2> HIDE DEF n
  <2>2. IsFiniteSet(1..n) /\ Cardinality(1..n) = n
    BY <2>1, FS_Interval
  <2> QED
    BY <2>2 DEF n
<1>6. o \in Injection(1..Cardinality(S), S)
  BY <1>4, <1>5, FS_Surjection
<1> QED
  BY <1>2, <1>3, <1>6 DEF Injection, IsInjective, Distinct

\* LIMIT lists the first of them.
LEMMA LimitedTakes ==
    ASSUME NEW S, NEW seq \in Seq(S)
    PROVE  /\ Limited(seq) \in Seq(S) /\ Len(Limited(seq)) <= Batch
           /\ Len(Limited(seq)) <= Len(seq)
           /\ \A i \in 1..Len(Limited(seq)) : Limited(seq)[i] = seq[i]
<1> DEFINE n == IF Len(seq) < Batch THEN Len(seq) ELSE Batch
<1>1. n \in Nat /\ n <= Len(seq) /\ n <= Batch
  BY RefreshAssumption
<1>2. Limited(seq) = SubSeq(seq, 1, n)
  BY DEF Limited
<1> HIDE DEF n
<1>3. \A i \in 1..n : seq[i] \in S
  BY <1>1
<1>4. /\ SubSeq(seq, 1, n) \in Seq(S) /\ Len(SubSeq(seq, 1, n)) = n
      /\ \A i \in 1..n : SubSeq(seq, 1, n)[i] = seq[i]
  BY <1>1, <1>3, SubSeqProperties
<1> QED
  BY <1>1, <1>2, <1>4

\* Taking one track out of the stamped ones leaves the order of the rest.
LEMMA OthersInOrder ==
    ASSUME Shape, NEW t
    PROVE  /\ Others(t) \in Seq(known) /\ Len(Others(t)) <= Len(stamped)
           /\ \A i \in DOMAIN Others(t) : Others(t)[i] # t
           /\ \A i \in DOMAIN Others(t) : \E k \in DOMAIN stamped : Others(t)[i] = stamped[k]
           /\ \A i, j \in DOMAIN Others(t) : i < j =>
                 \E k, l \in DOMAIN stamped :
                    k < l /\ Others(t)[i] = stamped[k] /\ Others(t)[j] = stamped[l]
<1>1. stamped \in Seq(known) /\ Distinct(stamped)
      /\ Len(stamped) \in Nat /\ DOMAIN stamped = 1..Len(stamped)
  BY DEF Shape
<1>2. CASE t \notin Elements(stamped)
  <2>1. Others(t) = stamped
    BY <1>2 DEF Others
  <2> QED
    BY <1>1, <1>2, <2>1 DEF Elements
<1>3. CASE t \in Elements(stamped)
  <2> DEFINE p == CHOOSE i \in DOMAIN stamped : stamped[i] = t
             a == SubSeq(stamped, 1, p - 1)
             b == SubSeq(stamped, p + 1, Len(stamped))
             n == Len(stamped)
             o == a \o b
  <2>1. p \in DOMAIN stamped /\ stamped[p] = t
    BY <1>3 DEF Elements
  <2>2. Others(t) = o
    BY <1>3 DEF Others
  <2>3. p \in 1..n /\ n \in Nat /\ \A i \in 1..n : stamped[i] \in known
    BY <1>1, <2>1
  <2> HIDE DEF p, n
  <2>4. /\ a \in Seq(known) /\ Len(a) = p - 1
        /\ \A i \in 1..p - 1 : a[i] = stamped[i]
    <3>1. 1 \in Int /\ p - 1 \in Int /\ \A i \in 1..p - 1 : stamped[i] \in known
      BY <2>3
    <3>2. /\ a \in Seq(known) /\ Len(a) = IF 1 <= p - 1 THEN p - 1 - 1 + 1 ELSE 0
          /\ \A i \in 1..p - 1 - 1 + 1 : a[i] = stamped[1 + i - 1]
      BY <3>1, SubSeqProperties
    <3> HIDE DEF a
    <3> QED
      BY <2>3, <3>2
  <2>5. /\ b \in Seq(known) /\ Len(b) = n - p
        /\ \A i \in 1..n - p : b[i] = stamped[p + i]
    <3>1. p + 1 \in Int /\ n \in Int /\ \A i \in p + 1..n : stamped[i] \in known
      BY <2>3
    <3>2. b = SubSeq(stamped, p + 1, n)
      BY DEF n
    <3>3. /\ b \in Seq(known) /\ Len(b) = IF p + 1 <= n THEN n - (p + 1) + 1 ELSE 0
          /\ \A i \in 1..n - (p + 1) + 1 : b[i] = stamped[p + 1 + i - 1]
      BY <3>1, <3>2, SubSeqProperties
    <3> HIDE DEF b
    <3> QED
      BY <2>3, <3>3
  <2> HIDE DEF a, b
  <2>6. /\ o \in Seq(known) /\ Len(o) = n - 1
        /\ \A i \in 1..n - 1 : o[i] = IF i < p THEN stamped[i] ELSE stamped[i + 1]
    <3>1. /\ o \in Seq(known) /\ Len(o) = Len(a) + Len(b)
          /\ \A i \in 1..Len(a) + Len(b) : o[i] = IF i <= Len(a) THEN a[i] ELSE b[i - Len(a)]
      BY <2>4, <2>5, ConcatProperties
    <3>2. Len(a) + Len(b) = n - 1
      BY <2>3, <2>4, <2>5
    <3> HIDE DEF o
    <3>3. ASSUME NEW i \in 1..n - 1, i < p
          PROVE  o[i] = stamped[i]
      <4>1. i <= Len(a) /\ i \in 1..p - 1
        BY <2>3, <2>4, <3>3
      <4> QED
        BY <2>4, <3>1, <3>2, <4>1
    <3>4. ASSUME NEW i \in 1..n - 1, ~(i < p)
          PROVE  o[i] = stamped[i + 1]
      <4>1. ~(i <= Len(a)) /\ i - Len(a) \in 1..n - p /\ p + (i - Len(a)) = i + 1
        BY <2>3, <2>4, <3>4
      <4>2. b[i - Len(a)] = stamped[p + (i - Len(a))]
        BY <2>5, <4>1
      <4> QED
        BY <3>1, <3>2, <4>1, <4>2
    <3> QED
      BY <3>1, <3>2, <3>3, <3>4
  <2> HIDE DEF o
  <2>7. DOMAIN o = 1..n - 1 /\ DOMAIN stamped = 1..n
    BY <1>1, <2>6 DEF n
  <2>8. \A i \in 1..n - 1 : o[i] # t
    <3> TAKE i \in 1..n - 1
    <3>1. CASE i < p
      BY <1>1, <2>1, <2>3, <2>6, <2>7, <3>1 DEF Distinct
    <3>2. CASE ~(i < p)
      <4>1. i + 1 \in 1..n /\ i + 1 # p
        BY <2>3, <3>2
      <4> QED
        BY <1>1, <2>1, <2>6, <2>7, <3>2, <4>1 DEF Distinct
    <3> QED
      BY <3>1, <3>2
  <2>9. \A i \in 1..n - 1 : \E k \in 1..n : o[i] = stamped[k] /\ (k = i \/ k = i + 1)
          /\ (k = i => i < p) /\ (k = i + 1 => p <= i)
    <3> TAKE i \in 1..n - 1
    <3>1. i \in 1..n /\ i + 1 \in 1..n /\ i \in Int
      BY <2>3
    <3> QED
      BY <2>3, <2>6, <3>1
  <2>10. \A i, j \in 1..n - 1 : i < j =>
            \E k, l \in 1..n : k < l /\ o[i] = stamped[k] /\ o[j] = stamped[l]
    <3> SUFFICES ASSUME NEW i \in 1..n - 1, NEW j \in 1..n - 1, i < j
                 PROVE  \E k, l \in 1..n : k < l /\ o[i] = stamped[k] /\ o[j] = stamped[l]
      OBVIOUS
    <3>1. PICK k \in 1..n : o[i] = stamped[k] /\ (k = i \/ k = i + 1)
             /\ (k = i => i < p) /\ (k = i + 1 => p <= i)
      BY <2>9
    <3>2. PICK l \in 1..n : o[j] = stamped[l] /\ (l = j \/ l = j + 1)
             /\ (l = j => j < p) /\ (l = j + 1 => p <= j)
      BY <2>9
    <3>3. k < l
      BY <2>3, <3>1, <3>2
    <3> QED
      BY <3>1, <3>2, <3>3
  <2>11. Len(o) <= Len(stamped)
    BY <2>3, <2>6 DEF n
  <2>12. \A i \in DOMAIN o : \E k \in DOMAIN stamped : o[i] = stamped[k]
    BY <2>7, <2>9
  <2>13. \A i \in DOMAIN o : o[i] # t
    BY <2>7, <2>8
  <2>14. \A i, j \in DOMAIN o : i < j =>
            \E k, l \in DOMAIN stamped : k < l /\ o[i] = stamped[k] /\ o[j] = stamped[l]
    BY <2>7, <2>10
  <2>15. o \in Seq(known)
    BY <2>6
  <2> QED
    BY <2>2, <2>11, <2>12, <2>13, <2>14, <2>15
<1> QED
  BY <1>2, <1>3

-----------------------------------------------------------------------------
(* The invariant is inductive.                                             *)

LEMMA StartRunStep ==
    ASSUME IInv, StartRun
    PROVE  IInv'
<1>1. PICK nulls \in Orders(Never) : due' = Limited(nulls \o stamped)
  BY DEF StartRun
<1>2. /\ UNCHANGED <<known, stamped, gone>> /\ visit' = 1 /\ running' = TRUE
      /\ stamped \in Seq(known) /\ Distinct(stamped) /\ known \subseteq Track
      /\ gone \subseteq Track
  BY DEF StartRun, IInv, Shape
<1>3. /\ nulls \in Seq(Never) /\ Elements(nulls) = Never /\ Distinct(nulls)
  <2>1. IsFiniteSet(Never)
    BY <1>2, RefreshAssumption, FS_Subset DEF Never
  <2> QED
    BY <2>1, OrdersList
<1> DEFINE n == Len(nulls)
           all == nulls \o stamped
<1>4. /\ n \in Nat /\ DOMAIN nulls = 1..n /\ nulls \in Seq(known)
      /\ Len(stamped) \in Nat /\ DOMAIN stamped = 1..Len(stamped)
      /\ \A i \in 1..n : nulls[i] \notin Elements(stamped)
  BY <1>2, <1>3 DEF Never
<1>5. /\ all \in Seq(known) /\ Len(all) = n + Len(stamped)
      /\ \A i \in 1..n + Len(stamped) : all[i] = IF i <= n THEN nulls[i] ELSE stamped[i - n]
  BY <1>2, <1>4, ConcatProperties
<1> HIDE DEF n, all
<1>6. \A i \in 1..n + Len(stamped) : i <= n \/ i - n \in DOMAIN stamped
  BY <1>4
<1>7. ASSUME NEW i \in 1..n + Len(stamped), NEW j \in 1..n + Len(stamped), all[i] = all[j]
      PROVE  i = j
  <2>1. CASE i <= n /\ j <= n
    <3>1. i \in 1..n /\ j \in 1..n
      BY <1>4, <2>1
    <3> QED
      BY <1>3, <1>4, <1>5, <1>7, <2>1, <3>1 DEF Distinct
  <2>2. CASE i <= n /\ ~(j <= n)
    <3>1. i \in 1..n /\ j - n \in DOMAIN stamped
      BY <1>4, <1>6, <2>2
    <3> QED
      BY <1>4, <1>5, <1>7, <2>2, <3>1 DEF Elements
  <2>3. CASE ~(i <= n) /\ j <= n
    <3>1. j \in 1..n /\ i - n \in DOMAIN stamped
      BY <1>4, <1>6, <2>3
    <3> QED
      BY <1>4, <1>5, <1>7, <2>3, <3>1 DEF Elements
  <2>4. CASE ~(i <= n) /\ ~(j <= n)
    <3>1. j - n \in DOMAIN stamped /\ i - n \in DOMAIN stamped
      BY <1>6, <2>4
    <3>2. i - n = j - n
      BY <1>2, <1>5, <1>7, <2>4, <3>1 DEF Distinct
    <3> QED
      BY <1>4, <3>2
  <2> QED
    BY <2>1, <2>2, <2>3, <2>4
<1>8. due' = Limited(all)
  BY <1>1 DEF all
<1>9. /\ due' \in Seq(known) /\ Len(due') <= Batch /\ Len(due') <= n + Len(stamped)
      /\ \A i \in 1..Len(due') : due'[i] = all[i]
  BY <1>5, <1>8, LimitedTakes
<1>10. Len(due') \in Nat /\ DOMAIN due' = 1..Len(due')
  BY <1>9
<1>11. \A i \in 1..Len(due') : i \in 1..n + Len(stamped)
  BY <1>4, <1>9, <1>10
<1>12. Distinct(due')
  BY <1>7, <1>9, <1>10, <1>11 DEF Distinct
<1>13. Shape'
  BY <1>2, <1>9, <1>10, <1>12 DEF Shape, Distinct
<1>14. ASSUME NEW m \in 1..Len(due'), NEW i \in DOMAIN stamped, NEW j \in DOMAIN stamped,
              i < j, stamped[j] = due'[m]
       PROVE  \E k \in 1..m - 1 : stamped[i] = due'[k]
  <2>1. m \in 1..n + Len(stamped) /\ due'[m] = all[m] /\ m <= Len(due')
    BY <1>9, <1>10, <1>11
  <2>2. ~(m <= n)
    <3> SUFFICES ASSUME m <= n
                 PROVE  FALSE
      OBVIOUS
    <3>1. m \in 1..n
      BY <1>4, <2>1
    <3> QED
      BY <1>4, <1>5, <1>14, <2>1, <3>1 DEF Elements
  <2>3. m - n \in DOMAIN stamped /\ stamped[j] = stamped[m - n]
    BY <1>5, <1>6, <1>14, <2>1, <2>2
  <2>4. j = m - n
    BY <1>2, <2>3 DEF Distinct
  <2>5. /\ n + i \in 1..m - 1 /\ n + i \in 1..n + Len(stamped) /\ n + i \in 1..Len(due')
        /\ ~(n + i <= n) /\ n + i - n = i
    BY <1>4, <1>10, <1>14, <2>1, <2>4
  <2>6. due'[n + i] = stamped[i]
    <3> DEFINE x == n + i
    <3>1. all[x] = stamped[x - n] /\ due'[x] = all[x]
      <4> HIDE DEF x
      <4> QED
        BY <1>5, <1>9, <2>5 DEF x
    <3>2. x - n = i
      BY <1>4
    <3> QED
      BY <3>1, <3>2
  <2> QED
    BY <2>5, <2>6
<1>15. OlderComeFirst'
  BY <1>2, <1>14 DEF OlderComeFirst
<1> QED
  BY <1>13, <1>15 DEF IInv

LEMMA RefreshTrackStep ==
    ASSUME IInv, NEW t \in Track, RefreshTrack(t)
    PROVE  IInv'
<1>1. /\ UNCHANGED <<known, gone, running, due>> /\ visit' = visit + 1
      /\ stamped' = Append(Others(t), t)
      /\ running /\ visit <= Len(due) /\ due[visit] = t
  BY DEF RefreshTrack, Visiting
<1>2. /\ due \in Seq(known) /\ Distinct(due) /\ visit \in 1..Len(due) + 1
      /\ Len(due) \in Nat /\ DOMAIN due = 1..Len(due)
  BY DEF IInv, Shape
<1>3. visit \in DOMAIN due /\ t \in known
  BY <1>1, <1>2
<1> DEFINE o == Others(t)
<1>4. /\ o \in Seq(known) /\ Len(o) \in Nat /\ DOMAIN o = 1..Len(o)
      /\ \A i \in DOMAIN o : o[i] # t
      /\ \A i \in DOMAIN o : \E k \in DOMAIN stamped : o[i] = stamped[k]
      /\ \A i, j \in DOMAIN o : i < j =>
            \E k, l \in DOMAIN stamped : k < l /\ o[i] = stamped[k] /\ o[j] = stamped[l]
  BY OthersInOrder DEF IInv
<1> HIDE DEF o
<1>5. stamped' = Append(o, t)
  BY <1>1 DEF o
<1>6. /\ stamped' \in Seq(known) /\ Len(stamped') = Len(o) + 1
      /\ \A i \in 1..Len(o) : stamped'[i] = o[i]
      /\ stamped'[Len(o) + 1] = t
  BY <1>3, <1>4, <1>5, AppendProperties
<1>7. DOMAIN stamped' = 1..Len(o) + 1
  BY <1>6
<1>8. \A i, j \in DOMAIN stamped' : i < j =>
         /\ i \in DOMAIN o
         /\ \/ j = Len(o) + 1 /\ stamped'[j] = t
            \/ j \in DOMAIN o /\ \E k, l \in DOMAIN stamped :
                  k < l /\ stamped'[i] = stamped[k] /\ stamped'[j] = stamped[l]
  <2> SUFFICES ASSUME NEW i \in DOMAIN stamped', NEW j \in DOMAIN stamped', i < j
               PROVE  /\ i \in DOMAIN o
                      /\ \/ j = Len(o) + 1 /\ stamped'[j] = t
                         \/ j \in DOMAIN o /\ \E k, l \in DOMAIN stamped :
                               k < l /\ stamped'[i] = stamped[k] /\ stamped'[j] = stamped[l]
    OBVIOUS
  <2>1. i \in DOMAIN o /\ (j = Len(o) + 1 \/ j \in DOMAIN o)
    BY <1>4, <1>7
  <2> QED
    BY <1>4, <1>6, <2>1
<1>9. \A k, l \in DOMAIN stamped : k < l => stamped[k] # stamped[l]
  BY DEF IInv, Shape, Distinct
<1>10. \A i, j \in DOMAIN stamped' : i < j => stamped'[i] # stamped'[j]
  BY <1>4, <1>6, <1>8, <1>9
<1>11. Distinct(stamped')
  <2> SUFFICES ASSUME NEW i \in DOMAIN stamped', NEW j \in DOMAIN stamped',
                      stamped'[i] = stamped'[j]
               PROVE  i = j
    BY DEF Distinct
  <2>1. i \in Int /\ j \in Int
    BY <1>7
  <2> QED
    BY <1>10, <2>1
<1>12. visit' \in 1..Len(due') + 1
  BY <1>1, <1>2
<1>13. Shape'
  BY <1>1, <1>6, <1>11, <1>12 DEF IInv, Shape, Distinct
<1>14. ASSUME NEW m \in visit'..Len(due), NEW i \in DOMAIN stamped', NEW j \in DOMAIN stamped',
              i < j, stamped'[j] = due[m]
       PROVE  \E k \in 1..m - 1 : stamped'[i] = due[k]
  <2>1. m \in visit..Len(due) /\ m \in DOMAIN due /\ m # visit
    BY <1>1, <1>2
  <2>2. stamped'[j] # t
    BY <1>1, <1>2, <1>3, <1>14, <2>1 DEF Distinct
  <2>3. PICK k, l \in DOMAIN stamped :
           k < l /\ stamped'[i] = stamped[k] /\ stamped'[j] = stamped[l]
    BY <1>8, <1>14, <2>2
  <2> QED
    BY <1>1, <1>14, <2>1, <2>3 DEF IInv, OlderComeFirst
<1>15. OlderComeFirst'
  <2>1. due' = due
    BY <1>1
  <2>2. \A m \in visit'..Len(due') : \A i, j \in DOMAIN stamped' :
           i < j /\ stamped'[j] = due'[m] => \E k \in 1..m - 1 : stamped'[i] = due'[k]
    BY <1>14, <2>1, Zenon
  <2> QED
    BY <2>2, Zenon DEF OlderComeFirst
<1> QED
  BY <1>13, <1>15 DEF IInv

LEMMA Start == Init => IInv
<1> SUFFICES ASSUME Init
             PROVE  IInv
  OBVIOUS
<1>1. Shape
  <2>1. stamped \in Seq(known) /\ due \in Seq(known) /\ known \subseteq Track /\ gone \subseteq Track
    BY DEF Init
  <2>2. Distinct(stamped) /\ Distinct(due)
    BY DEF Init, Distinct
  <2>3. Len(due) = 0 /\ visit = 1 /\ running \in BOOLEAN
    BY DEF Init
  <2>4. Len(due) <= Batch /\ visit \in 1..Len(due) + 1
    BY <2>3, RefreshAssumption
  <2> QED
    BY <2>1, <2>2, <2>3, <2>4 DEF Shape
<1>2. OlderComeFirst
  BY DEF Init, OlderComeFirst
<1> QED
  BY <1>1, <1>2 DEF IInv

LEMMA Step == IInv /\ [Next]_vars => IInv'
<1> SUFFICES ASSUME IInv, [Next]_vars
             PROVE  IInv'
  OBVIOUS
<1>1. ASSUME NEW t \in Track, AddTrack(t)
      PROVE  IInv'
  <2>1. /\ known' = known \cup {t}
        /\ UNCHANGED <<stamped, gone, running, due, visit>>
    BY <1>1 DEF AddTrack
  <2>2. stamped \in Seq(known') /\ due \in Seq(known')
    <3>1. /\ stamped \in Seq(known) /\ Len(stamped) \in Nat /\ DOMAIN stamped = 1..Len(stamped)
          /\ due \in Seq(known) /\ Len(due) \in Nat /\ DOMAIN due = 1..Len(due)
      BY DEF IInv, Shape
    <3>2. stamped \in [1..Len(stamped) -> known'] /\ due \in [1..Len(due) -> known']
      BY <2>1, <3>1
    <3> QED
      BY <3>1, <3>2, SeqDef
  <2> QED
    BY <2>1, <2>2 DEF IInv, Shape, OlderComeFirst, Distinct
<1>2. ASSUME NEW t \in Track, Vanish(t)
      PROVE  IInv'
  BY <1>2 DEF Vanish, IInv, Shape, OlderComeFirst, Distinct
<1>3. ASSUME NEW t \in Track, RefreshTrack(t)
      PROVE  IInv'
  BY <1>3, RefreshTrackStep
<1>4. ASSUME NEW t \in Track, SkipTrack(t)
      PROVE  IInv'
  <2>1. /\ UNCHANGED <<known, stamped, gone, running, due>> /\ visit' = visit + 1
        /\ visit <= Len(due)
    BY <1>4 DEF SkipTrack, Visiting
  <2>2. Len(due) \in Nat /\ visit \in 1..Len(due) + 1
    BY DEF IInv, Shape
  <2>3. /\ visit' \in 1..Len(due) + 1
        /\ \A m \in visit'..Len(due) : m \in visit..Len(due)
    BY <2>1, <2>2
  <2>4. Shape'
    BY <2>1, <2>3 DEF IInv, Shape, Distinct
  <2>5. OlderComeFirst'
    BY <2>1, <2>3 DEF IInv, OlderComeFirst
  <2> QED
    BY <2>4, <2>5 DEF IInv
<1>5. CASE StartRun
  BY <1>5, StartRunStep
<1>6. CASE EndRun \/ KillRun
  BY <1>6 DEF EndRun, KillRun, IInv, Shape, OlderComeFirst, Distinct
<1>7. CASE UNCHANGED vars
  BY <1>7 DEF vars, IInv, Shape, OlderComeFirst, Distinct
<1> QED
  BY <1>1, <1>2, <1>3, <1>4, <1>5, <1>6, <1>7 DEF Next, Visit

\* The invariant that the next one follows from: no track is stamped or due twice, and
\* a batch that is under way lists the older stamps first.
THEOREM Invariance == Spec => []IInv
BY Start, Step, PTL DEF Spec

\* refresh_metadata.py never comes to a track before those with an older stamp, whatever
\* is scraped, fails or is killed meanwhile.
THEOREM OldestFirst == Spec => []NobodyOvertaken
<1>1. ASSUME IInv, NEW t \in Track, Visiting(t), NEW i \in DOMAIN stamped,
             NEW j \in DOMAIN stamped, stamped[j] = t, i < j
      PROVE  stamped[i] \in Visited
  <2>1. running /\ visit \in visit..Len(due) /\ due[visit] = t
    BY <1>1 DEF IInv, Shape, Visiting
  <2>2. PICK k \in 1..visit - 1 : stamped[i] = due[k]
    BY <1>1, <2>1 DEF IInv, OlderComeFirst
  <2> QED
    BY <2>2 DEF Visited
<1>2. IInv => NobodyOvertaken
  BY <1>1 DEF NobodyOvertaken
<1> QED
  BY <1>2, Invariance, PTL

=============================================================================
