---------------------------- MODULE ConnPoolProofs ----------------------------
(***************************************************************************)
(* What holds of ConnPool for any number of leases, connections, addresses *)
(* and closers, and any size.                                              *)
(***************************************************************************)
EXTENDS ConnPool, FiniteSetTheorems, SequenceTheorems, TLAPS

Distinct(s) == \A i, j \in DOMAIN s : s[i] = s[j] => i = j

\* Taking the head of a list of distinct elements.
LEMMA TakeHead ==
  ASSUME NEW S, NEW s \in Seq(S), s # <<>>, Distinct(s)
  PROVE  /\ Head(s) \in S /\ Head(s) \in ToSet(s)
         /\ Tail(s) \in Seq(S) /\ Len(Tail(s)) = Len(s) - 1
         /\ ToSet(Tail(s)) = ToSet(s) \ {Head(s)}
         /\ Distinct(Tail(s))
<1>1. /\ Len(s) \in Nat \ {0} /\ Head(s) = s[1] /\ s[1] \in S
      /\ Tail(s) \in Seq(S) /\ Len(Tail(s)) = Len(s) - 1
      /\ \A i \in 1..Len(s) - 1 : Tail(s)[i] = s[i + 1]
  BY HeadTailProperties
<1>2. DOMAIN s = 1..Len(s) /\ DOMAIN Tail(s) = 1..Len(s) - 1
  BY <1>1
<1>3. Head(s) \in ToSet(s)
  BY <1>1, <1>2 DEF ToSet
<1>4. ToSet(Tail(s)) \subseteq ToSet(s) \ {Head(s)}
  <2> SUFFICES ASSUME NEW i \in 1..Len(s) - 1 PROVE Tail(s)[i] \in ToSet(s) \ {Head(s)}
    BY <1>2 DEF ToSet
  <2>1. i + 1 \in DOMAIN s /\ 1 \in DOMAIN s /\ i + 1 # 1 /\ Tail(s)[i] = s[i + 1]
    BY <1>1, <1>2
  <2> QED
    BY <1>1, <2>1 DEF ToSet, Distinct
<1>5. ToSet(s) \ {Head(s)} \subseteq ToSet(Tail(s))
  <2> SUFFICES ASSUME NEW i \in 1..Len(s), s[i] # s[1] PROVE s[i] \in ToSet(Tail(s))
    BY <1>1, <1>2 DEF ToSet
  <2>1. i - 1 \in 1..Len(s) - 1 /\ Tail(s)[i - 1] = s[i - 1 + 1] /\ i - 1 + 1 = i
    BY <1>1
  <2> QED
    BY <1>2, <2>1 DEF ToSet
<1>6. Distinct(Tail(s))
  <2> SUFFICES ASSUME NEW i \in 1..Len(s) - 1, NEW j \in 1..Len(s) - 1, Tail(s)[i] = Tail(s)[j]
               PROVE i = j
    BY <1>2 DEF Distinct
  <2>1. i + 1 \in DOMAIN s /\ j + 1 \in DOMAIN s /\ s[i + 1] = s[j + 1]
    BY <1>1, <1>2
  <2>2. i + 1 = j + 1
    BY <2>1 DEF Distinct
  <2> QED
    BY <2>2
<1> QED
  BY <1>1, <1>3, <1>4, <1>5, <1>6

\* Putting a new element at the end of such a list.
LEMMA PutLast ==
  ASSUME NEW S, NEW s \in Seq(S), Distinct(s), NEW c \in S, c \notin ToSet(s)
  PROVE  /\ Append(s, c) \in Seq(S) /\ Len(Append(s, c)) = Len(s) + 1
         /\ ToSet(Append(s, c)) = ToSet(s) \union {c}
         /\ Distinct(Append(s, c))
<1>1. /\ Append(s, c) \in Seq(S) /\ Len(Append(s, c)) = Len(s) + 1 /\ Len(s) \in Nat
      /\ \A i \in 1..Len(s) : Append(s, c)[i] = s[i]
      /\ Append(s, c)[Len(s) + 1] = c
  BY AppendProperties
<1>2. DOMAIN s = 1..Len(s) /\ DOMAIN Append(s, c) = 1..Len(s) + 1
  BY <1>1
<1>3. ToSet(Append(s, c)) = ToSet(s) \union {c}
  <2>1. ASSUME NEW i \in 1..Len(s) + 1 PROVE Append(s, c)[i] \in ToSet(s) \union {c}
    <3>1. i \in 1..Len(s) \/ i = Len(s) + 1
      BY <1>1
    <3> QED
      BY <1>1, <1>2, <3>1 DEF ToSet
  <2>2. ASSUME NEW i \in 1..Len(s) PROVE s[i] \in ToSet(Append(s, c))
    <3>1. i \in 1..Len(s) + 1
      BY <1>1
    <3> QED
      BY <1>1, <1>2, <3>1 DEF ToSet
  <2>3. Len(s) + 1 \in 1..Len(s) + 1
    BY <1>1
  <2>4. c \in ToSet(Append(s, c))
    BY <1>1, <1>2, <2>3 DEF ToSet
  <2> QED
    BY <1>2, <2>1, <2>2, <2>4 DEF ToSet
<1>4. Distinct(Append(s, c))
  <2> SUFFICES ASSUME NEW i \in 1..Len(s) + 1, NEW j \in 1..Len(s) + 1,
                      Append(s, c)[i] = Append(s, c)[j]
               PROVE i = j
    BY <1>2 DEF Distinct
  <2>1. \A k \in 1..Len(s) : s[k] # c
    BY <1>2 DEF ToSet
  <2>2. CASE i \in 1..Len(s) /\ j \in 1..Len(s)
    BY <1>1, <1>2, <2>2 DEF Distinct
  <2>3. CASE i = Len(s) + 1 \/ j = Len(s) + 1
    <3>1. (i \in 1..Len(s) \/ i = Len(s) + 1) /\ (j \in 1..Len(s) \/ j = Len(s) + 1)
      BY <1>1
    <3> QED
      BY <1>1, <2>1, <2>3, <3>1
  <2> QED
    BY <1>1, <2>2, <2>3
<1> QED
  BY <1>1, <1>3, <1>4
-----------------------------------------------------------------------------
\* The steps by what they do to the lists.
LEMMA StepCases ==
  ASSUME [Next]_vars
  PROVE  \/ \E l \in Leases : \/ GetTest(l) \/ GetBucket(l) \/ GetFree(l) \/ GetNew(l) \/ GetFails(l)
                              \/ Spend(l) \/ PutTest(l) \/ PutBack(l) \/ ReleaseConn(l)
         \/ \E k \in Closers : CloseStart(k) \/ CloseBucket(k)
         \/ UNCHANGED vars
BY DEF Next, Get, Return

LEMMA Lists ==
  ASSUME TypeOK, Listed, NEW a \in Addresses
  PROVE  /\ free[a] \in Seq(Conns) /\ Len(free[a]) \in Nat /\ Distinct(free[a])
         /\ inUse[a] \subseteq Conns /\ IsFiniteSet(inUse[a]) /\ Cardinality(inUse[a]) \in Nat
<1>1. free[a] \in Seq(Conns) /\ Distinct(free[a]) /\ inUse[a] \subseteq Conns
  BY DEF TypeOK, Listed, Distinct
<1>2. IsFiniteSet(inUse[a])
  BY <1>1, ConnsAssumption, FS_Subset
<1> QED
  BY <1>1, <1>2, FS_CardinalityType

\* What is in use or free has been made, for the address of its bucket.
LEMMA Homes ==
  ASSUME Listed, NEW a \in Addresses, NEW c
  PROVE  c \in inUse[a] \/ c \in ToSet(free[a]) <=> c \in made /\ Home[c] = a
<1>1. Known(a) = {d \in made : Home[d] = a}
  BY DEF Listed
<1> QED
  BY <1>1 DEF Known

\* Steps that leave the lists and the connections alone.
LEMMA Frame ==
  ASSUME PInv, UNCHANGED <<free, inUse, made, conn>>,
         \A l \in Leases : stage'[l] \in Holding => stage[l] \in Holding
  PROVE  Listed' /\ Lent' /\ SizeKept'
<1>1. Listed'
  BY DEF PInv, Listed, Known
<1>2. SizeKept'
  BY DEF PInv, SizeKept, Stats
<1>3. Lent'
  BY DEF PInv, Lent
<1> QED
  BY <1>1, <1>2, <1>3

\* A lease that does not hold a connection takes one that no other holds.
LEMMA LentNew ==
  ASSUME PInv, NEW l \in Leases, stage[l] \notin Holding, NEW c \in Conns,
         c \notin inUse[Asks[l]] \/ c \notin made, Home[c] = Asks[l],
         stage' = [stage EXCEPT ![l] = "live"],
         conn' = [conn EXCEPT ![l] = {c}],
         inUse' = [inUse EXCEPT ![Asks[l]] = @ \union {c}]
  PROVE  Lent'
<1> USE AddressAssumption
<1>1. \A m \in Leases \ {l} : stage'[m] = stage[m] /\ conn'[m] = conn[m]
  BY DEF PInv, TypeOK
<1>2. conn'[l] = {c} /\ c \in inUse'[Asks[l]] /\ stage'[l] = "live"
  BY DEF PInv, TypeOK
<1>3. \A a \in Addresses : inUse[a] \subseteq inUse'[a]
  BY DEF PInv, TypeOK
<1>4. ASSUME NEW m \in Leases \ {l}, stage[m] \in Holding PROVE c \notin conn[m]
  <2>1. PICK d \in inUse[Asks[m]] : conn[m] = {d}
    BY <1>4 DEF PInv, Lent
  <2>2. Home[d] = Asks[m] /\ d \in made
    BY <2>1, Homes DEF PInv
  <2> QED
    BY <2>1, <2>2
<1>5. ASSUME NEW m \in Leases, stage'[m] \in Holding
      PROVE  \E d \in inUse'[Asks[m]] : conn'[m] = {d}
  <2>1. CASE m = l
    BY <1>2, <2>1
  <2>2. CASE m # l
    <3>1. \E d \in inUse[Asks[m]] : conn[m] = {d}
      BY <1>1, <1>5, <2>2 DEF PInv, Lent
    <3> QED
      BY <1>1, <1>3, <2>2, <3>1
  <2> QED
    BY <2>1, <2>2
<1>6. ASSUME NEW m \in Leases, NEW n \in Leases, stage'[m] \in Holding, stage'[n] \in Holding, m # n
      PROVE  conn'[m] \intersect conn'[n] = {}
  <2>1. CASE m = l
    BY <1>1, <1>2, <1>4, <1>6, <2>1
  <2>2. CASE n = l
    BY <1>1, <1>2, <1>4, <1>6, <2>2
  <2>3. CASE m # l /\ n # l
    BY <1>1, <1>6, <2>3 DEF PInv, Lent
  <2> QED
    BY <2>1, <2>2, <2>3
<1> QED
  BY <1>5, <1>6 DEF Lent

LEMMA GetFreeStep == ASSUME PInv, NEW l \in Leases, GetFree(l) PROVE PInv'
<1> DEFINE a == Asks[l]
           c == Head(free[a])
<1>1. a \in Addresses
  BY AddressAssumption
<1>2. /\ free[a] \in Seq(Conns) /\ Len(free[a]) \in Nat /\ Distinct(free[a]) /\ free[a] # <<>>
      /\ inUse[a] \subseteq Conns /\ IsFiniteSet(inUse[a]) /\ Cardinality(inUse[a]) \in Nat
  BY <1>1, Lists DEF PInv, GetFree
<1>3. /\ c \in Conns /\ c \in ToSet(free[a])
      /\ Tail(free[a]) \in Seq(Conns) /\ Len(Tail(free[a])) = Len(free[a]) - 1
      /\ ToSet(Tail(free[a])) = ToSet(free[a]) \ {c} /\ Distinct(Tail(free[a]))
  BY <1>2, TakeHead
<1>4. /\ free' = [free EXCEPT ![a] = Tail(free[a])]
      /\ inUse' = [inUse EXCEPT ![a] = inUse[a] \union {c}]
      /\ conn' = [conn EXCEPT ![l] = {c}]
      /\ stage[l] = "found" /\ stage' = [stage EXCEPT ![l] = "live"]
      /\ UNCHANGED <<closing, buckets, made, opened, late>>
  BY DEF GetFree, Moves
<1>5. c \notin inUse[a] /\ Home[c] = a /\ c \in made
  BY <1>1, <1>3 DEF PInv, Listed, Known
<1> HIDE DEF c
<1>6. TypeOK'
  BY <1>1, <1>2, <1>3, <1>4 DEF PInv, TypeOK, closing
<1>7. Listed'
  <2> SUFFICES ASSUME NEW b \in Addresses
               PROVE  /\ Known(b)' = {d \in made : Home[d] = b}
                      /\ inUse'[b] \intersect ToSet(free'[b]) = {}
                      /\ Distinct(free'[b])
    BY <1>4 DEF Listed, Distinct
  <2>1. Known(b) = {d \in made : Home[d] = b} /\ inUse[b] \intersect ToSet(free[b]) = {} /\ Distinct(free[b])
    BY DEF PInv, Listed, Distinct
  <2>2. CASE b # a
    BY <1>1, <1>4, <2>1, <2>2 DEF PInv, TypeOK, Known
  <2>3. CASE b = a
    <3>1. free'[a] = Tail(free[a]) /\ inUse'[a] = inUse[a] \union {c}
      BY <1>1, <1>4 DEF PInv, TypeOK
    <3> QED
      BY <1>3, <1>5, <2>1, <2>3, <3>1 DEF Known
  <2> QED
    BY <2>2, <2>3
<1>8. SizeKept'
  <2> SUFFICES ASSUME NEW b \in Addresses PROVE Len(free'[b]) + Cardinality(inUse'[b]) <= Size
    BY DEF SizeKept, Stats
  <2>1. Len(free[b]) + Cardinality(inUse[b]) <= Size
    BY DEF PInv, SizeKept, Stats
  <2>2. CASE b # a
    BY <1>1, <1>4, <2>1, <2>2 DEF PInv, TypeOK
  <2>3. CASE b = a
    <3>1. free'[a] = Tail(free[a]) /\ inUse'[a] = inUse[a] \union {c}
      BY <1>1, <1>4 DEF PInv, TypeOK
    <3>2. Cardinality(inUse[a] \union {c}) = Cardinality(inUse[a]) + 1
      BY <1>2, <1>5, FS_AddElement
    <3> QED
      BY <1>2, <1>3, <2>1, <2>3, <3>1, <3>2, SizeAssumption
  <2> QED
    BY <2>2, <2>3
<1>9. Lent'
  BY <1>3, <1>4, <1>5, LentNew DEF Holding
<1> QED
  BY <1>6, <1>7, <1>8, <1>9 DEF PInv

LEMMA GetNewStep == ASSUME PInv, NEW l \in Leases, GetNew(l) PROVE PInv'
<1> DEFINE a == Asks[l]
<1>1. a \in Addresses
  BY AddressAssumption
<1>2. /\ free[a] = <<>> /\ Cardinality(inUse[a]) < Size
      /\ inUse[a] \subseteq Conns /\ IsFiniteSet(inUse[a]) /\ Cardinality(inUse[a]) \in Nat
  BY <1>1, Lists DEF PInv, GetNew, Room
<1>3. PICK c \in Conns \ made :
        /\ Home[c] = a
        /\ conn' = [conn EXCEPT ![l] = {c}]
        /\ inUse' = [inUse EXCEPT ![a] = inUse[a] \union {c}]
        /\ made' = made \union {c}
        /\ opened' = opened \union {c}
        /\ late' = IF closed THEN late \union {c} ELSE late
  BY DEF GetNew
<1>4. /\ stage[l] = "found" /\ stage' = [stage EXCEPT ![l] = "live"]
      /\ UNCHANGED <<closing, buckets, free>>
  BY DEF GetNew, Moves
<1>5. TypeOK'
  BY <1>1, <1>2, <1>3, <1>4 DEF PInv, TypeOK, closing
<1>6. c \notin inUse[a]
  BY <1>1, <1>3 DEF PInv, Listed, Known
<1>7. Listed'
  <2> SUFFICES ASSUME NEW b \in Addresses
               PROVE  /\ Known(b)' = {d \in made' : Home[d] = b}
                      /\ inUse'[b] \intersect ToSet(free'[b]) = {}
                      /\ Distinct(free'[b])
    BY DEF Listed, Distinct
  <2>1. Known(b) = {d \in made : Home[d] = b} /\ inUse[b] \intersect ToSet(free[b]) = {} /\ Distinct(free[b])
    BY DEF PInv, Listed, Distinct
  <2>2. CASE b # a
    BY <1>1, <1>3, <1>4, <2>1, <2>2 DEF PInv, TypeOK, Known
  <2>3. CASE b = a
    <3>1. inUse'[a] = inUse[a] \union {c}
      BY <1>1, <1>3 DEF PInv, TypeOK
    <3>2. ToSet(free[a]) = {}
      BY <1>2 DEF ToSet
    <3> QED
      BY <1>3, <1>4, <2>1, <2>3, <3>1, <3>2 DEF Known
  <2> QED
    BY <2>2, <2>3
<1>8. SizeKept'
  <2> SUFFICES ASSUME NEW b \in Addresses PROVE Len(free'[b]) + Cardinality(inUse'[b]) <= Size
    BY DEF SizeKept, Stats
  <2>1. Len(free[b]) + Cardinality(inUse[b]) <= Size
    BY DEF PInv, SizeKept, Stats
  <2>2. CASE b # a
    BY <1>1, <1>3, <1>4, <2>1, <2>2 DEF PInv, TypeOK
  <2>3. CASE b = a
    <3>1. inUse'[a] = inUse[a] \union {c} /\ free'[a] = <<>>
      BY <1>1, <1>2, <1>3, <1>4 DEF PInv, TypeOK
    <3>2. Cardinality(inUse[a] \union {c}) = Cardinality(inUse[a]) + 1
      BY <1>2, <1>6, FS_AddElement
    <3> QED
      BY <1>2, <2>3, <3>1, <3>2, SizeAssumption
  <2> QED
    BY <2>2, <2>3
<1>9. Lent'
  BY <1>3, <1>4, <1>6, LentNew DEF Holding
<1> QED
  BY <1>5, <1>7, <1>8, <1>9 DEF PInv
\* Put finds room in the list: the connection it returns was counted in inUse.
LEMMA PutBackStep == ASSUME PInv, NEW l \in Leases, PutBack(l) PROVE PInv'
<1> DEFINE a == Asks[l]
<1>1. a \in Addresses
  BY AddressAssumption
<1>2. /\ free[a] \in Seq(Conns) /\ Len(free[a]) \in Nat /\ Distinct(free[a])
      /\ inUse[a] \subseteq Conns /\ IsFiniteSet(inUse[a]) /\ Cardinality(inUse[a]) \in Nat
  BY <1>1, Lists DEF PInv
<1>3. /\ stage[l] = "returning" /\ stage' = [stage EXCEPT ![l] = "over"]
      /\ inUse' = [inUse EXCEPT ![a] = inUse[a] \ conn[l]]
      /\ UNCHANGED <<closing, buckets, conns>>
  BY DEF PutBack, Moves
<1>4. PICK c \in inUse[a] : conn[l] = {c}
  BY <1>3 DEF PInv, Lent, Holding
<1>5. c \in Conns /\ c \notin ToSet(free[a]) /\ Home[c] = a /\ c \in made
  BY <1>1, <1>2, <1>4 DEF PInv, Listed, Known
<1>6. Cardinality(inUse[a] \ {c}) = Cardinality(inUse[a]) - 1 /\ Cardinality(inUse[a] \ {c}) \in Nat
  <2>1. IsFiniteSet(inUse[a] \ {c}) /\ Cardinality(inUse[a] \ {c}) = Cardinality(inUse[a]) - 1
    BY <1>2, <1>4, FS_RemoveElement
  <2> QED
    BY <2>1, FS_CardinalityType
<1>7. Len(free[a]) + Cardinality(inUse[a]) <= Size
  BY <1>1 DEF PInv, SizeKept, Stats
<1>8. Len(free[a]) < Size
  BY <1>2, <1>6, <1>7, SizeAssumption
<1> DEFINE q == Append(free[a], c)
<1>9. free' = [free EXCEPT ![a] = q]
  BY <1>4, <1>8 DEF PutBack
<1>10. /\ q \in Seq(Conns) /\ Len(q) = Len(free[a]) + 1
       /\ ToSet(q) = ToSet(free[a]) \union {c} /\ Distinct(q)
  BY <1>2, <1>5, PutLast
<1> HIDE DEF q
<1>11. TypeOK'
  BY <1>1, <1>2, <1>3, <1>9, <1>10 DEF PInv, TypeOK, closing, conns
<1>12. free'[a] = q /\ inUse'[a] = inUse[a] \ {c}
  BY <1>1, <1>3, <1>4, <1>9 DEF PInv, TypeOK
<1>13. \A b \in Addresses \ {a} : free'[b] = free[b] /\ inUse'[b] = inUse[b]
  BY <1>1, <1>3, <1>9 DEF PInv, TypeOK
<1>14. Listed'
  <2> SUFFICES ASSUME NEW b \in Addresses
               PROVE  /\ Known(b)' = {d \in made : Home[d] = b}
                      /\ inUse'[b] \intersect ToSet(free'[b]) = {}
                      /\ Distinct(free'[b])
    BY <1>3 DEF Listed, Distinct, conns
  <2>1. Known(b) = {d \in made : Home[d] = b} /\ inUse[b] \intersect ToSet(free[b]) = {} /\ Distinct(free[b])
    BY DEF PInv, Listed, Distinct
  <2>2. CASE b # a
    BY <1>13, <2>1, <2>2 DEF Known
  <2>3. CASE b = a
    <3>1. Known(a)' = Known(a)
      BY <1>4, <1>10, <1>12 DEF Known
    <3>2. inUse'[a] \intersect ToSet(free'[a]) = {}
      BY <1>10, <1>12, <2>1, <2>3
    <3> QED
      BY <1>10, <1>12, <2>1, <2>3, <3>1, <3>2
  <2> QED
    BY <2>2, <2>3
<1>15. SizeKept'
  <2> SUFFICES ASSUME NEW b \in Addresses PROVE Len(free'[b]) + Cardinality(inUse'[b]) <= Size
    BY DEF SizeKept, Stats
  <2>2. CASE b # a
    BY <1>13, <2>2 DEF PInv, SizeKept, Stats
  <2>3. CASE b = a
    <3>1. Len(free'[b]) = Len(free[a]) + 1 /\ Cardinality(inUse'[b]) = Cardinality(inUse[a]) - 1
      BY <1>6, <1>10, <1>12, <2>3
    <3> QED
      BY <1>2, <1>7, <3>1, SizeAssumption
  <2> QED
    BY <2>2, <2>3
<1>16. Lent'
  <2>1. conn' = conn /\ (\A m \in Leases : stage'[m] \in Holding => m # l /\ stage[m] \in Holding)
    BY <1>3 DEF PInv, TypeOK, Holding, conns
  <2>2. ASSUME NEW m \in Leases, stage'[m] \in Holding PROVE \E d \in inUse'[Asks[m]] : conn[m] = {d}
    <3>1. PICK d \in inUse[Asks[m]] : conn[m] = {d}
      BY <2>1, <2>2 DEF PInv, Lent
    <3>2. d # c
      BY <1>3, <1>4, <2>1, <2>2, <3>1 DEF PInv, Lent, Holding
    <3>3. d \in inUse'[Asks[m]]
      BY <1>12, <1>13, <3>1, <3>2, AddressAssumption
    <3> QED
      BY <3>1, <3>3
  <2> QED
    BY <2>1, <2>2 DEF PInv, Lent
<1> QED
  BY <1>11, <1>14, <1>15, <1>16 DEF PInv

LEMMA PInvStep == ASSUME PInv, [Next]_vars PROVE PInv'
<1>1. ASSUME NEW l \in Leases, GetTest(l) \/ GetBucket(l) \/ GetFails(l) \/ PutTest(l) \/ Spend(l)
      PROVE PInv'
  <2>1. UNCHANGED <<free, inUse, made, conn>>
    BY <1>1 DEF GetTest, GetBucket, GetFails, PutTest, Spend, lists, conns
  <2>2. TypeOK'
    <3>1. buckets' \subseteq Addresses
      BY <1>1, AddressAssumption DEF GetTest, GetBucket, GetFails, PutTest, Spend, PInv, TypeOK
    <3>2. stage' \in [Leases -> {"new", "tested", "found", "failed", "live",
                                 "closing", "releasing", "returning", "over"}]
      BY <1>1 DEF GetTest, GetBucket, GetFails, PutTest, Spend, Moves, PInv, TypeOK
    <3>3. UNCHANGED <<closing, lists, conns>>
      BY <1>1 DEF GetTest, GetBucket, GetFails, PutTest, Spend
    <3> QED
      BY <3>1, <3>2, <3>3 DEF PInv, TypeOK, closing, lists, conns
  <2>3. \A m \in Leases : stage'[m] \in Holding => stage[m] \in Holding
    BY <1>1 DEF GetTest, GetBucket, GetFails, PutTest, Spend, Unspent, Moves, PInv, TypeOK, Holding
  <2> QED
    BY <2>1, <2>2, <2>3, Frame DEF PInv
<1>2. ASSUME NEW l \in Leases, ReleaseConn(l) PROVE PInv'
  <2>1. UNCHANGED <<free, inUse, made, conn>>
    BY <1>2 DEF ReleaseConn, AfterRelease
  <2>2. TypeOK'
    BY <1>2 DEF ReleaseConn, AfterRelease, Moves, PInv, TypeOK, closing
  <2>3. \A m \in Leases : stage'[m] \in Holding => stage[m] \in Holding
    BY <1>2 DEF ReleaseConn, Moves, PInv, TypeOK, Holding
  <2> QED
    BY <2>1, <2>2, <2>3, Frame DEF PInv
<1>3. ASSUME NEW k \in Closers, CloseStart(k) \/ CloseBucket(k) PROVE PInv'
  <2>1. UNCHANGED <<free, inUse, made, conn, stage>>
    BY <1>3 DEF CloseStart, CloseBucket, lists, conns
  <2>2. CASE CloseStart(k)
    <3>1. TypeOK'
      BY <2>2 DEF CloseStart, PInv, TypeOK, lists, conns
    <3> QED
      BY <2>1, <3>1, Frame DEF PInv
  <2>3. CASE CloseBucket(k)
    <3>1. TypeOK'
      BY <2>3 DEF CloseBucket, PInv, TypeOK, lists
    <3> QED
      BY <2>1, <3>1, Frame DEF PInv
  <2> QED
    BY <1>3, <2>2, <2>3
<1>4. CASE UNCHANGED vars
  <2>1. TypeOK'
    BY <1>4 DEF PInv, TypeOK, vars, closing, lists, conns
  <2>2. UNCHANGED <<free, inUse, made, conn, stage>>
    BY <1>4 DEF vars, lists, conns
  <2> QED
    BY <2>1, <2>2, Frame DEF PInv
<1>5. ASSUME NEW l \in Leases, GetFree(l) \/ GetNew(l) \/ PutBack(l) PROVE PInv'
  BY <1>5, GetFreeStep, GetNewStep, PutBackStep
<1>6. ASSUME NEW l \in Leases,
             \/ GetTest(l) \/ GetBucket(l) \/ GetFree(l) \/ GetNew(l) \/ GetFails(l)
             \/ Spend(l) \/ PutTest(l) \/ PutBack(l) \/ ReleaseConn(l)
      PROVE PInv'
  BY <1>1, <1>2, <1>5, <1>6
<1> QED
  BY <1>3, <1>4, <1>6, StepCases

LEMMA PInvInit == Init => PInv
<1> SUFFICES ASSUME Init PROVE PInv
  OBVIOUS
<1>1. TypeOK
  <2>1. free \in [Addresses -> Seq(Conns)]
    <3>1. <<>> \in Seq(Conns)
      OBVIOUS
    <3> QED
      BY <3>1 DEF Init
  <2> QED
    BY <2>1 DEF Init, TypeOK
<1>2. \A a \in Addresses : ToSet(free[a]) = {} /\ Len(free[a]) = 0
  BY DEF Init, ToSet
<1>3. Listed
  BY <1>2 DEF Init, Listed, Known
<1>4. Lent
  BY DEF Init, Lent, Holding
<1>5. SizeKept
  BY <1>2, FS_EmptySet, SizeAssumption DEF Init, SizeKept, Stats
<1> QED
  BY <1>1, <1>3, <1>4, <1>5 DEF PInv

\* However Get, Put, Release and Close of the pool interleave: every connection
\* is listed once, what a lease holds is in use and held by no other, and no
\* address has more than Size connections.
THEOREM PoolInvariant == Spec => []PInv
<1> QED
  BY PInvInit, PInvStep, PTL DEF Spec
-----------------------------------------------------------------------------
\* Only a closer whose Close has set closed has buckets to close.
Begun ==
  /\ \A k \in Closers : rest[k] # {} => k \in begun
  /\ begun # {} => closed

\* Every connection and every Get that is about to take one has its bucket.
Bucketed ==
  /\ \A l \in Leases : stage[l] = "found" => Asks[l] \in buckets
  /\ \A c \in made : Home[c] \in buckets

\* What a Close has yet to close lies in a bucket it has yet to walk.
Walked == \A k \in begun : \A c \in opened \ late : Home[c] \in rest[k]

\* Until the pool is closed, free and lent connections are open.
OpenNow ==
  closed \/ /\ \A a \in Addresses : ToSet(free[a]) \subseteq opened
            /\ \A l \in Leases : stage[l] \in Holding => conn[l] \subseteq opened

CloseInv == Begun /\ Bucketed /\ Walked /\ OpenNow

LEMMA GetOpens ==
  ASSUME PInv, CloseInv, NEW l \in Leases,
         GetTest(l) \/ GetBucket(l) \/ GetFree(l) \/ GetNew(l) \/ GetFails(l)
  PROVE  CloseInv'
<1>1. CASE GetTest(l) \/ GetBucket(l) \/ GetFails(l)
  <2>1. /\ UNCHANGED <<closed, begun, rest, free, conn, made, opened, late>>
        /\ buckets \subseteq buckets'
        /\ \A m \in Leases : stage'[m] \in Holding => stage[m] \in Holding
    BY <1>1 DEF GetTest, GetBucket, GetFails, Moves, closing, lists, conns, PInv, TypeOK, Holding
  <2>2. Bucketed'
    BY <1>1, <2>1 DEF GetTest, GetBucket, GetFails, Moves, PInv, TypeOK, CloseInv, Bucketed
  <2> QED
    BY <2>1, <2>2 DEF CloseInv, Begun, Walked, OpenNow
<1>2. CASE GetFree(l)
  <2> DEFINE a == Asks[l]
  <2>1. /\ a \in Addresses /\ free[a] \in Seq(Conns) /\ free[a] # <<>> /\ Distinct(free[a])
        /\ free' = [free EXCEPT ![a] = Tail(free[a])]
        /\ conn' = [conn EXCEPT ![l] = {Head(free[a])}]
        /\ stage' = [stage EXCEPT ![l] = "live"]
        /\ UNCHANGED <<closed, begun, rest, buckets, made, opened, late>>
    BY <1>2, Lists, AddressAssumption DEF PInv, GetFree, Moves, closing
  <2>2. ToSet(Tail(free[a])) \subseteq ToSet(free[a]) /\ Head(free[a]) \in ToSet(free[a])
    BY <2>1, TakeHead
  <2>3. \A b \in Addresses : ToSet(free'[b]) \subseteq ToSet(free[b])
    BY <2>1, <2>2 DEF PInv, TypeOK
  <2>4. \A m \in Leases : \/ m = l /\ conn'[m] = {Head(free[a])}
                          \/ m # l /\ conn'[m] = conn[m] /\ stage'[m] = stage[m]
    BY <2>1 DEF PInv, TypeOK
  <2>5. OpenNow'
    BY <2>1, <2>2, <2>3, <2>4 DEF CloseInv, OpenNow
  <2>6. Bucketed'
    BY <2>1 DEF CloseInv, Bucketed, PInv, TypeOK
  <2> QED
    BY <2>1, <2>5, <2>6 DEF CloseInv, Begun, Walked
<1>3. CASE GetNew(l)
  <2>1. PICK c \in Conns \ made :
          /\ Home[c] = Asks[l] /\ stage[l] = "found"
          /\ stage' = [stage EXCEPT ![l] = "live"]
          /\ conn' = [conn EXCEPT ![l] = {c}]
          /\ made' = made \union {c} /\ opened' = opened \union {c}
          /\ late' = IF closed THEN late \union {c} ELSE late
          /\ UNCHANGED <<closed, begun, rest, buckets, free>>
    BY <1>3 DEF GetNew, Moves, closing
  <2>2. \A m \in Leases : \/ m = l /\ conn'[m] = {c}
                          \/ m # l /\ conn'[m] = conn[m] /\ stage'[m] = stage[m]
    BY <2>1 DEF PInv, TypeOK
  <2>3. OpenNow'
    BY <2>1, <2>2 DEF CloseInv, OpenNow
  <2>4. Bucketed'
    BY <2>1 DEF CloseInv, Bucketed, PInv, TypeOK
  <2>5. Walked'
    BY <2>1 DEF CloseInv, Begun, Walked
  <2> QED
    BY <2>1, <2>3, <2>4, <2>5 DEF CloseInv, Begun
<1> QED
  BY <1>1, <1>2, <1>3

LEMMA ReturnKeepsOpen ==
  ASSUME PInv, CloseInv, NEW l \in Leases,
         Spend(l) \/ PutTest(l) \/ PutBack(l) \/ ReleaseConn(l)
  PROVE  CloseInv'
<1>1. CASE Spend(l) \/ PutTest(l)
  <2>1. /\ UNCHANGED <<closed, begun, rest, buckets, free, conn, made, opened, late>>
        /\ \A m \in Leases : /\ stage'[m] \in Holding => stage[m] \in Holding
                             /\ stage'[m] = "found" => stage[m] = "found"
    BY <1>1 DEF Spend, Unspent, PutTest, Moves, closing, lists, conns, PInv, TypeOK, Holding
  <2> QED
    BY <2>1 DEF CloseInv, Begun, Bucketed, Walked, OpenNow
<1>2. CASE PutBack(l)
  <2> DEFINE a == Asks[l]
  <2>1. /\ stage[l] = "returning" /\ stage' = [stage EXCEPT ![l] = "over"]
        /\ UNCHANGED <<closed, begun, rest, buckets, conn, made, opened, late>>
    BY <1>2 DEF PutBack, Moves, closing, conns
  <2>2. a \in Addresses /\ free[a] \in Seq(Conns) /\ Distinct(free[a])
    BY Lists, AddressAssumption DEF PInv
  <2>3. PICK c \in inUse[a] : conn[l] = {c}
    BY <2>1 DEF PInv, Lent, Holding
  <2>4. c \in Conns /\ c \notin ToSet(free[a])
    BY <2>2, <2>3 DEF PInv, Listed, TypeOK
  <2>5. UNCHANGED free \/ free' = [free EXCEPT ![a] = Append(free[a], c)]
    BY <1>2, <2>3 DEF PutBack
  <2>6. ToSet(Append(free[a], c)) = ToSet(free[a]) \union {c}
    BY <2>2, <2>4, PutLast
  <2>7. \A b \in Addresses : ToSet(free'[b]) \subseteq ToSet(free[b]) \union {c}
    BY <2>2, <2>5, <2>6 DEF PInv, TypeOK
  <2>8. closed \/ c \in opened
    BY <2>1, <2>3 DEF CloseInv, OpenNow, Holding
  <2>9. \A m \in Leases : /\ stage'[m] \in Holding => stage[m] \in Holding
                          /\ stage'[m] = "found" => stage[m] = "found"
    BY <2>1 DEF PInv, TypeOK, Holding
  <2>10. OpenNow'
    BY <2>1, <2>7, <2>8, <2>9 DEF CloseInv, OpenNow
  <2> QED
    BY <2>1, <2>9, <2>10 DEF CloseInv, Begun, Bucketed, Walked
<1>3. CASE ReleaseConn(l)
  <2>1. /\ stage[l] = "releasing" /\ stage' = [stage EXCEPT ![l] = "over"]
        /\ opened' = opened \ conn[l]
        /\ UNCHANGED <<closed, begun, rest, buckets, free, conn, made, late>>
    BY <1>3 DEF ReleaseConn, AfterRelease, Moves, closing
  <2>2. PICK c \in inUse[Asks[l]] : conn[l] = {c}
    BY <2>1 DEF PInv, Lent, Holding
  <2>3. \A a \in Addresses : c \notin ToSet(free[a])
    <3>1. ASSUME NEW a \in Addresses, c \in ToSet(free[a]) PROVE FALSE
      <4>1. Home[c] = a /\ Home[c] = Asks[l]
        BY <2>2, <3>1, Homes, AddressAssumption DEF PInv
      <4> QED
        BY <2>2, <3>1, <4>1 DEF PInv, Listed
    <3> QED
      BY <3>1
  <2>4. \A m \in Leases : stage'[m] \in Holding => stage[m] \in Holding /\ c \notin conn[m]
    BY <2>1, <2>2 DEF PInv, TypeOK, Lent, Holding
  <2>5. OpenNow'
    BY <2>1, <2>2, <2>3, <2>4 DEF CloseInv, OpenNow
  <2>6. Bucketed'
    BY <2>1 DEF CloseInv, Bucketed, PInv, TypeOK
  <2> QED
    BY <2>1, <2>5, <2>6 DEF CloseInv, Begun, Walked
<1> QED
  BY <1>1, <1>2, <1>3

LEMMA CloseCloses ==
  ASSUME PInv, CloseInv, NEW k \in Closers, CloseStart(k) \/ CloseBucket(k)
  PROVE  CloseInv'
<1>1. CASE CloseStart(k)
  <2>1. /\ closed' = TRUE /\ begun' = begun \union {k}
        /\ rest' = [rest EXCEPT ![k] = buckets]
        /\ UNCHANGED <<buckets, free, stage, conn, made, opened, late>>
    BY <1>1 DEF CloseStart, lists, conns
  <2>2. Begun'
    BY <2>1 DEF CloseInv, Begun, PInv, TypeOK
  <2>3. Walked'
    BY <2>1 DEF CloseInv, Walked, Bucketed, PInv, TypeOK
  <2> QED
    BY <2>1, <2>2, <2>3 DEF CloseInv, Bucketed, OpenNow
<1>2. CASE CloseBucket(k)
  <2>1. PICK a \in rest[k] :
          /\ opened' = opened \ Known(a)
          /\ rest' = [rest EXCEPT ![k] = @ \ {a}]
    BY <1>2 DEF CloseBucket
  <2>2. UNCHANGED <<closed, begun, buckets, free, stage, conn, made, late>>
    BY <1>2 DEF CloseBucket, lists
  <2>3. closed /\ a \in Addresses
    BY <2>1 DEF CloseInv, Begun, PInv, TypeOK
  <2>4. Begun'
    BY <2>1, <2>2 DEF CloseInv, Begun, PInv, TypeOK
  <2>5. \A c \in made : Home[c] = a => c \in Known(a)
    BY <2>3 DEF PInv, Listed
  <2>6. Walked'
    BY <2>1, <2>2, <2>5 DEF CloseInv, Walked, PInv, TypeOK
  <2> QED
    BY <2>2, <2>3, <2>4, <2>6 DEF CloseInv, Bucketed, OpenNow
<1> QED
  BY <1>1, <1>2

LEMMA CloseInvStep == ASSUME PInv, CloseInv, [Next]_vars PROVE CloseInv'
<1>1. CASE UNCHANGED vars
  BY <1>1 DEF vars, closing, lists, conns, CloseInv, Begun, Bucketed, Walked, OpenNow
<1> QED
  BY <1>1, StepCases, GetOpens, ReturnKeepsOpen, CloseCloses

LEMMA CloseInvInit == Init => CloseInv
<1> SUFFICES ASSUME Init PROVE CloseInv
  OBVIOUS
<1>1. \A a \in Addresses : ToSet(free[a]) = {}
  BY DEF Init, ToSet
<1> QED
  BY <1>1 DEF Init, CloseInv, Begun, Bucketed, Walked, OpenNow, Holding

\* Steps that move no connection keep track of those in use.
LEMMA StrayFrame ==
  ASSUME NoneStray, UNCHANGED <<inUse, conn>>, opened' \subseteq opened,
         \A l \in Leases : stage[l] \in Holding /\ conn[l] \subseteq opened' => stage'[l] \in Holding
  PROVE  NoneStray'
<1>1. ASSUME NEW a \in Addresses, NEW c \in inUse'[a] \intersect opened'
      PROVE  \E l \in Leases : stage'[l] \in Holding /\ conn'[l] = {c}
  <2>1. PICK l \in Leases : stage[l] \in Holding /\ conn[l] = {c}
    BY <1>1 DEF NoneStray
  <2>2. stage'[l] \in Holding
    BY <1>1, <2>1
  <2> QED
    BY <2>1, <2>2
<1> QED
  BY <1>1 DEF NoneStray

\* A lease that takes a connection answers for it; the others keep theirs.
LEMMA StrayTaken ==
  ASSUME PInv, NoneStray, NEW l \in Leases, NEW c \in Conns,
         stage[l] = "found", stage' = [stage EXCEPT ![l] = "live"],
         conn' = [conn EXCEPT ![l] = {c}],
         inUse' = [inUse EXCEPT ![Asks[l]] = @ \union {c}],
         opened' \subseteq opened \union {c}
  PROVE  NoneStray'
<1>1. stage'[l] \in Holding /\ conn'[l] = {c}
  BY DEF PInv, TypeOK, Holding
<1>2. ASSUME NEW a \in Addresses, NEW d \in inUse'[a] \intersect opened', d # c
      PROVE  \E m \in Leases : stage'[m] \in Holding /\ conn'[m] = {d}
  <2>1. d \in inUse[a] \intersect opened
    BY <1>2, AddressAssumption DEF PInv, TypeOK
  <2>2. PICK m \in Leases : stage[m] \in Holding /\ conn[m] = {d}
    BY <2>1 DEF NoneStray
  <2>3. m # l
    BY <2>2 DEF Holding
  <2>4. stage'[m] = stage[m] /\ conn'[m] = conn[m]
    BY <2>3 DEF PInv, TypeOK
  <2> QED
    BY <2>2, <2>4
<1> QED
  BY <1>1, <1>2 DEF NoneStray

\* What a lease puts back is in use no more.
LEMMA StrayReturned ==
  ASSUME PInv, NoneStray, NEW l \in Leases, PutBack(l)
  PROVE  NoneStray'
<1>1. /\ stage[l] = "returning" /\ stage' = [stage EXCEPT ![l] = "over"]
      /\ inUse' = [inUse EXCEPT ![Asks[l]] = @ \ conn[l]]
      /\ conn' = conn /\ opened' = opened
  BY DEF PutBack, Moves, conns
<1>2. PICK c \in inUse[Asks[l]] : conn[l] = {c}
  BY <1>1 DEF PInv, Lent, Holding
<1>3. ASSUME NEW a \in Addresses, NEW d \in inUse'[a] \intersect opened'
      PROVE  \E m \in Leases : stage'[m] \in Holding /\ conn'[m] = {d}
  <2>1. d \in inUse[a] \intersect opened /\ (a = Asks[l] => d # c)
    BY <1>1, <1>2, <1>3, AddressAssumption DEF PInv, TypeOK
  <2>2. PICK m \in Leases : stage[m] \in Holding /\ conn[m] = {d}
    BY <2>1 DEF NoneStray
  <2>3. m # l
    <3>1. ASSUME m = l PROVE FALSE
      <4>1. d = c
        BY <1>2, <2>2, <3>1
      <4>2. Home[d] = a /\ Home[c] = Asks[l]
        BY <1>2, <2>1, Homes, AddressAssumption DEF PInv
      <4> QED
        BY <2>1, <4>1, <4>2
    <3> QED
      BY <3>1
  <2>4. stage'[m] = stage[m] /\ conn'[m] = conn[m]
    BY <1>1, <2>3 DEF PInv, TypeOK
  <2> QED
    BY <2>2, <2>4
<1> QED
  BY <1>3 DEF NoneStray

LEMMA StrayStep ==
  ASSUME PInv, CloseInv, closed \/ NoneStray, [Next]_vars
  PROVE  closed' \/ NoneStray'
<1>1. CASE closed
  <2>1. closed'
    BY <1>1, StepCases DEF GetTest, GetBucket, GetFree, GetNew, GetFails, Spend, PutTest, PutBack,
                           ReleaseConn, CloseStart, CloseBucket, vars, closing
  <2> QED
    BY <2>1
<1>2. CASE ~closed /\ NoneStray
  <2>1. ASSUME NEW l \in Leases, GetTest(l) \/ GetBucket(l) \/ GetFails(l) \/ Spend(l)
        PROVE  NoneStray'
    <3>1. UNCHANGED <<inUse, conn, opened>>
      BY <2>1 DEF GetTest, GetBucket, GetFails, Spend, lists, conns
    <3>2. \A m \in Leases : stage[m] \in Holding => stage'[m] \in Holding
      BY <2>1 DEF GetTest, GetBucket, GetFails, Spend, Unspent, Moves, PInv, TypeOK, Holding
    <3> QED
      BY <1>2, <3>1, <3>2, StrayFrame
  <2>2. ASSUME NEW l \in Leases, GetFree(l) PROVE NoneStray'
    <3>1. free[Asks[l]] \in Seq(Conns) /\ free[Asks[l]] # <<>>
      BY <2>2, AddressAssumption DEF GetFree, PInv, TypeOK
    <3>2. Head(free[Asks[l]]) \in Conns
      BY <3>1
    <3> QED
      BY <1>2, <2>2, <3>2, StrayTaken DEF GetFree, Moves
  <2>3. ASSUME NEW l \in Leases, GetNew(l) PROVE NoneStray'
    BY <1>2, <2>3, StrayTaken DEF GetNew, Moves
  <2>4. ASSUME NEW l \in Leases, PutTest(l) PROVE NoneStray'
    <3>1. UNCHANGED <<inUse, conn, opened>> /\ stage[l] = "closing"
      BY <2>4 DEF PutTest, Moves, lists, conns
    <3>2. PICK c \in inUse[Asks[l]] : conn[l] = {c}
      BY <3>1 DEF PInv, Lent, Holding
    <3>3. Asks[l] \in buckets
      BY <3>2, Homes, AddressAssumption DEF PInv, CloseInv, Bucketed
    <3>4. \A m \in Leases : stage[m] \in Holding => stage'[m] \in Holding
      BY <1>2, <2>4, <3>3 DEF PutTest, Moves, PInv, TypeOK, Holding
    <3> QED
      BY <1>2, <3>1, <3>4, StrayFrame
  <2>5. ASSUME NEW l \in Leases, ReleaseConn(l) PROVE NoneStray'
    <3>1. /\ UNCHANGED <<inUse, conn>> /\ opened' = opened \ conn[l]
          /\ stage[l] = "releasing" /\ stage' = [stage EXCEPT ![l] = "over"]
      BY <2>5 DEF ReleaseConn, Moves
    <3>2. conn[l] # {}
      BY <3>1 DEF PInv, Lent, Holding
    <3>3. \A m \in Leases : stage[m] \in Holding /\ conn[m] \subseteq opened' => stage'[m] \in Holding
      BY <3>1, <3>2 DEF PInv, TypeOK
    <3>4. opened' \subseteq opened
      BY <3>1
    <3> QED
      BY <1>2, <3>1, <3>3, <3>4, StrayFrame
  <2>6. ASSUME NEW k \in Closers, CloseStart(k) PROVE closed'
    BY <2>6 DEF CloseStart
  <2>7. ASSUME NEW k \in Closers, CloseBucket(k) PROVE FALSE
    BY <1>2, <2>7 DEF CloseBucket, CloseInv, Begun
  <2>8. CASE UNCHANGED vars
    BY <1>2, <2>8, StrayFrame DEF vars, lists, conns
  <2> QED
    BY <1>2, <2>1, <2>2, <2>3, <2>4, <2>5, <2>6, <2>7, <2>8, StepCases, StrayReturned
<1> QED
  BY <1>1, <1>2

\* Get hands out open connections until the pool is closed, whatever was
\* released or returned before, and loses none of them.
THEOREM OpenWhenLent == Spec => []OpenUntilClosed
<1>1. Init => NoneStray
  BY DEF Init, NoneStray
<1>2. CloseInv /\ (closed \/ NoneStray) => OpenUntilClosed
  BY DEF CloseInv, OpenNow, OpenUntilClosed
<1> QED
  BY <1>1, <1>2, PoolInvariant, CloseInvInit, CloseInvStep, StrayStep, PTL DEF Spec

\* What a finished Close leaves open was made by a Get that had passed the test
\* of closed before.
THEOREM OnlyRacersStay == Spec => []CloseLeavesOnlyRacers
<1>1. CloseInv => CloseLeavesOnlyRacers
  BY DEF CloseInv, Walked, CloseLeavesOnlyRacers
<1> QED
  BY <1>1, PoolInvariant, CloseInvInit, CloseInvStep, PTL DEF Spec
-----------------------------------------------------------------------------
(* The refinement.  The barred names are the mapping of ConnPool.            *)

heldBar == [l \in Leases |-> IF stage[l] \in Holding THEN conn[l] ELSE {}]
idleBar == {c \in Conns : c \in ToSet(free[Home[c]])}

\* Steps that move no connection are stutters of Lending.
LEMMA NothingMoves ==
  ASSUME UNCHANGED <<free, conn, made>>,
         \A l \in Leases : stage'[l] \in Holding <=> stage[l] \in Holding
  PROVE  UNCHANGED <<heldBar, idleBar, made>>
BY DEF heldBar, idleBar

\* A lease that holds a connection gives it up.
LEMMA GivesUp ==
  ASSUME PInv, NEW l \in Leases, stage[l] \in Holding, conn' = conn,
         stage' = [stage EXCEPT ![l] = "over"]
  PROVE  heldBar[l] = conn[l] /\ conn[l] # {} /\ heldBar' = [heldBar EXCEPT ![l] = {}]
<1>1. conn[l] # {}
  BY DEF PInv, Lent
<1>2. stage'[l] = "over" /\ \A m \in Leases \ {l} : stage'[m] = stage[m]
  BY DEF PInv, TypeOK
<1>3. heldBar[l] = conn[l]
  BY DEF heldBar
<1>4. heldBar' = [heldBar EXCEPT ![l] = {}]
  BY <1>2 DEF heldBar, Holding
<1> QED
  BY <1>1, <1>3, <1>4

\* A lease that holds none takes one.
LEMMA TakesOne ==
  ASSUME PInv, NEW l \in Leases, stage[l] \notin Holding, NEW c,
         stage' = [stage EXCEPT ![l] = "live"], conn' = [conn EXCEPT ![l] = {c}]
  PROVE  heldBar[l] = {} /\ heldBar' = [heldBar EXCEPT ![l] = {c}]
<1>1. \A m \in Leases : /\ stage'[m] = IF m = l THEN "live" ELSE stage[m]
                        /\ conn'[m] = IF m = l THEN {c} ELSE conn[m]
  BY DEF PInv, TypeOK
<1> QED
  BY <1>1 DEF heldBar, Holding

\* Lending counts as the pool does: the two copies of Cardinality agree.
LEMMA SameCardinality ==
  ASSUME NEW A
  PROVE  Abstract!Cardinality(A) = Cardinality(A)
BY DEF Cardinality, Abstract!Cardinality

\* Every step of Get is a step of Lending or a stutter.
LEMMA GetLends ==
  ASSUME PInv, NEW l \in Leases,
         GetTest(l) \/ GetBucket(l) \/ GetFree(l) \/ GetNew(l) \/ GetFails(l)
  PROVE  Abstract!LendNext \/ UNCHANGED <<heldBar, idleBar, made>>
<1>1. CASE GetTest(l) \/ GetBucket(l) \/ GetFails(l)
  <2>1. UNCHANGED <<free, conn, made>>
    BY <1>1 DEF GetTest, GetBucket, GetFails, lists, conns
  <2>2. \A m \in Leases : stage'[m] \in Holding <=> stage[m] \in Holding
    BY <1>1 DEF GetTest, GetBucket, GetFails, Moves, PInv, TypeOK, Holding
  <2> QED
    BY <2>1, <2>2, NothingMoves
<1>2. CASE GetFree(l)
  <2> DEFINE a == Asks[l]
  <2>1. /\ a \in Addresses /\ free[a] \in Seq(Conns) /\ free[a] # <<>> /\ Distinct(free[a])
        /\ free' = [free EXCEPT ![a] = Tail(free[a])]
        /\ stage[l] = "found" /\ stage' = [stage EXCEPT ![l] = "live"]
        /\ conn' = [conn EXCEPT ![l] = {Head(free[a])}] /\ made' = made
    BY <1>2, Lists, AddressAssumption DEF PInv, GetFree, Moves
  <2>2. PICK c \in Conns : /\ c = Head(free[a]) /\ c \in ToSet(free[a])
                          /\ ToSet(Tail(free[a])) = ToSet(free[a]) \ {c}
    BY <2>1, TakeHead
  <2>3. Home[c] = a
    BY <2>1, <2>2, Homes DEF PInv
  <2>4. heldBar[l] = {} /\ heldBar' = [heldBar EXCEPT ![l] = {c}]
    BY <2>1, <2>2, TakesOne DEF Holding
  <2>5. \A d \in Conns : d \in ToSet(free'[Home[d]]) <=> d # c /\ d \in ToSet(free[Home[d]])
    BY <2>1, <2>2, <2>3, AddressAssumption DEF PInv, TypeOK
  <2>6. c \in idleBar /\ idleBar' = idleBar \ {c}
    BY <2>2, <2>3, <2>5 DEF idleBar
  <2>7. Abstract!LendIdle(l, c)
    <3>1. Abstract!LendIdle(l, c) <=>
            /\ heldBar[l] = {} /\ c \in idleBar
            /\ heldBar' = [heldBar EXCEPT ![l] = {c}]
            /\ idleBar' = idleBar \ {c} /\ made' = made
      BY DEF Abstract!LendIdle, heldBar, idleBar
    <3> QED
      BY <2>1, <2>4, <2>6, <3>1
  <2> QED
    BY <2>7 DEF Abstract!LendNext
<1>3. CASE GetNew(l)
  <2> DEFINE a == Asks[l]
  <2>1. PICK c \in Conns \ made :
          /\ Home[c] = a /\ stage[l] = "found"
          /\ stage' = [stage EXCEPT ![l] = "live"]
          /\ conn' = [conn EXCEPT ![l] = {c}]
          /\ made' = made \union {c} /\ free' = free
    BY <1>3 DEF GetNew, Moves
  <2>2. a \in Addresses /\ free[a] = <<>> /\ Cardinality(inUse[a]) < Size
    BY <1>3, AddressAssumption DEF GetNew, Room
  <2>3. {d \in made : Home[d] = Home[c]} = inUse[a]
    <3>1. ToSet(free[a]) = {}
      BY <2>2 DEF ToSet
    <3> QED
      BY <2>1, <2>2, <3>1 DEF PInv, Listed, Known
  <2>4. heldBar[l] = {} /\ heldBar' = [heldBar EXCEPT ![l] = {c}]
    BY <2>1, TakesOne DEF Holding
  <2>5. idleBar' = idleBar
    BY <2>1 DEF idleBar
  <2>6. Abstract!LendNew(l, c)
    <3>1. Abstract!LendNew(l, c) <=>
            /\ heldBar[l] = {} /\ c \notin made
            /\ Cardinality({d \in made : Home[d] = Home[c]}) < Size
            /\ heldBar' = [heldBar EXCEPT ![l] = {c}]
            /\ made' = made \union {c} /\ idleBar' = idleBar
      BY SameCardinality DEF Abstract!LendNew, heldBar, idleBar
    <3>2. Cardinality({d \in made : Home[d] = Home[c]}) < Size
      BY <2>2, <2>3
    <3> QED
      BY <2>1, <2>4, <2>5, <3>1, <3>2
  <2> QED
    BY <2>1, <2>6 DEF Abstract!LendNext
<1> QED
  BY <1>1, <1>2, <1>3

\* Every step of Close, Release and Put is a step of Lending or a stutter.
LEMMA ReturnLends ==
  ASSUME PInv, NEW l \in Leases,
         Spend(l) \/ PutTest(l) \/ PutBack(l) \/ ReleaseConn(l)
  PROVE  Abstract!LendNext \/ UNCHANGED <<heldBar, idleBar, made>>
<1>1. CASE Spend(l)
  <2>1. UNCHANGED <<free, conn, made>>
    BY <1>1 DEF Spend, lists, conns
  <2>2. \A m \in Leases : stage'[m] \in Holding <=> stage[m] \in Holding
    BY <1>1 DEF Spend, Unspent, PInv, TypeOK, Holding
  <2> QED
    BY <2>1, <2>2, NothingMoves
<1>2. CASE PutTest(l) /\ stage' = [stage EXCEPT ![l] = "returning"]
  <2>1. UNCHANGED <<free, conn, made>> /\ stage[l] = "closing"
    BY <1>2 DEF PutTest, Moves, lists, conns
  <2>2. \A m \in Leases : stage'[m] \in Holding <=> stage[m] \in Holding
    BY <1>2, <2>1 DEF PInv, TypeOK, Holding
  <2> QED
    BY <2>1, <2>2, NothingMoves
<1>3. CASE UNCHANGED <<free, conn, made>> /\ stage[l] \in Holding /\ stage' = [stage EXCEPT ![l] = "over"]
  <2>1. heldBar[l] # {} /\ heldBar' = [heldBar EXCEPT ![l] = {}]
    BY <1>3, GivesUp
  <2>2. idleBar' = idleBar
    BY <1>3 DEF idleBar
  <2>3. Abstract!Retire(l)
    BY <1>3, <2>1, <2>2 DEF Abstract!Retire, heldBar, idleBar
  <2> QED
    BY <2>3 DEF Abstract!LendNext
<1>4. CASE PutBack(l)
  <2> DEFINE a == Asks[l]
  <2>1. /\ stage[l] = "returning" /\ stage' = [stage EXCEPT ![l] = "over"]
        /\ conn' = conn /\ made' = made /\ PInv'
    BY <1>4, PutBackStep DEF PutBack, Moves, conns
  <2>2. PICK c \in inUse[a] : conn[l] = {c}
    BY <2>1 DEF PInv, Lent, Holding
  <2>3. /\ a \in Addresses /\ free[a] \in Seq(Conns) /\ Distinct(free[a])
        /\ c \in Conns /\ c \notin ToSet(free[a]) /\ Home[c] = a /\ c \in made
    BY <2>2, Lists, Homes, AddressAssumption DEF PInv, Listed, TypeOK
  <2>4. inUse'[a] = inUse[a] \ {c}
    BY <1>4, <2>2, <2>3 DEF PutBack, PInv, TypeOK
  <2>5. c \in ToSet(free'[a])
    BY <2>1, <2>3, <2>4 DEF PInv, Listed, Known
  <2>6. free' = [free EXCEPT ![a] = Append(free[a], c)]
    BY <1>4, <2>2, <2>3, <2>5 DEF PutBack
  <2>7. ToSet(Append(free[a], c)) = ToSet(free[a]) \union {c}
    BY <2>3, PutLast
  <2>8. \A d \in Conns : d \in ToSet(free'[Home[d]]) <=> d = c \/ d \in ToSet(free[Home[d]])
    BY <2>3, <2>6, <2>7, AddressAssumption DEF PInv, TypeOK
  <2>9. idleBar' = idleBar \union {c}
    BY <2>3, <2>8 DEF idleBar
  <2>10. heldBar[l] = {c} /\ heldBar' = [heldBar EXCEPT ![l] = {}]
    BY <2>1, <2>2, GivesUp DEF Holding
  <2>11. Abstract!TakeBack(l)
    BY <2>1, <2>9, <2>10 DEF Abstract!TakeBack, heldBar, idleBar
  <2> QED
    BY <2>11 DEF Abstract!LendNext
<1>5. PutTest(l) => \/ stage' = [stage EXCEPT ![l] = "returning"]
                    \/ /\ UNCHANGED <<free, conn, made>> /\ stage[l] \in Holding
                       /\ stage' = [stage EXCEPT ![l] = "over"]
  BY DEF PutTest, Moves, lists, conns, Holding
<1>6. ReleaseConn(l) => /\ UNCHANGED <<free, conn, made>> /\ stage[l] \in Holding
                        /\ stage' = [stage EXCEPT ![l] = "over"]
  BY DEF ReleaseConn, AfterRelease, Moves, Holding
<1> QED
  BY <1>1, <1>2, <1>3, <1>4, <1>5, <1>6

\* The pool implements Lending: a connection is lent to one lease at a time,
\* returned at most once however many goroutines close the lease, and never more
\* than Size of an address exist.
THEOREM LendingKept == Spec => KeepsLending
<1>1. Init => Abstract!LendInit
  <2> SUFFICES ASSUME Init PROVE Abstract!LendInit
    OBVIOUS
  <2>1. \A c \in Conns : c \notin ToSet(free[Home[c]])
    BY AddressAssumption DEF Init, ToSet
  <2> QED
    BY <2>1 DEF Init, Abstract!LendInit, Holding
<1>2. PInv /\ [Next]_vars => [Abstract!LendNext]_(Abstract!lendVars)
  <2> SUFFICES ASSUME PInv, [Next]_vars
               PROVE  Abstract!LendNext \/ UNCHANGED <<heldBar, idleBar, made>>
    BY DEF Abstract!lendVars, heldBar, idleBar
  <2>1. ASSUME NEW k \in Closers, CloseStart(k) \/ CloseBucket(k)
        PROVE  UNCHANGED <<heldBar, idleBar, made>>
    BY <2>1, NothingMoves DEF CloseStart, CloseBucket, lists, conns
  <2>2. CASE UNCHANGED vars
    BY <2>2, NothingMoves DEF vars, lists, conns
  <2> QED
    BY <2>1, <2>2, StepCases, GetLends, ReturnLends
<1> QED
  BY <1>1, <1>2, PoolInvariant, PTL DEF Spec, KeepsLending, Abstract!LendSpec
=============================================================================
