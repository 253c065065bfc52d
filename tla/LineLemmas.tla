----------------------------- MODULE LineLemmas -----------------------------
(***************************************************************************)
(* Users at slots and users in line: what holds of the two when some ask   *)
(* and when one leaves. The facts are about values, for the proofs about   *)
(* SlotLine and about the modules that implement it.                       *)
(***************************************************************************)
EXTENDS Naturals, Sequences, FiniteSetTheorems, SequenceTheorems, TLAPS

\* Of the users U, those in H hold one of n slots and the others wait in line l:
\* nobody twice, and nobody in line beside a free slot.
Sound(U, H, l, n) ==
  /\ H \in SUBSET U
  /\ l \in Seq(U)
  /\ \A i \in 1..Len(l) : l[i] \notin H
  /\ \A i, j \in 1..Len(l) : l[i] = l[j] => i = j
  /\ Cardinality(H) <= n
  /\ l # <<>> => Cardinality(H) = n

\* The first of the users s.
First(s, room) == {s[i] : i \in 1..room}

\* As many newcomers are added to a set as positions of theirs are counted.
LEMMA JoinCount ==
  ASSUME NEW H, IsFiniteSet(H), NEW S, NEW s \in Seq(S), NEW room \in 0..Len(s),
         \A i, j \in 1..Len(s) : s[i] = s[j] => i = j,
         \A i \in 1..Len(s) : s[i] \notin H
  PROVE  /\ IsFiniteSet(H \cup First(s, room))
         /\ Cardinality(H \cup First(s, room)) = Cardinality(H) + room
<1> DEFINE T == First(s, room)
           f == [i \in 1..room |-> s[i]]
<1>1. IsFiniteSet(1..room) /\ Cardinality(1..room) = room
  BY FS_Interval
<1>2. f \in Bijection(1..room, T)
  BY DEF Bijection, Injection, Surjection, IsInjective, First
<1>3. ExistsBijection(1..room, T)
  BY <1>2 DEF ExistsBijection
<1>4. IsFiniteSet(T) /\ Cardinality(T) = room
  BY <1>1, <1>3, FS_Bijection
<1>5. H \cap T = {}
  BY DEF First
<1>6. /\ IsFiniteSet(H \cup T)
      /\ Cardinality(H \cup T) = Cardinality(H) + Cardinality(T) - Cardinality(H \cap T)
  BY <1>4, FS_Union
<1>7. Cardinality(H \cap T) = 0 /\ Cardinality(H) \in Nat
  BY <1>5, FS_EmptySet, FS_CardinalityType
<1> QED BY <1>4, <1>6, <1>7

\* The line m that l becomes when the users s join it, except for the first room:
\* who stands where.
LEMMA JoinPositions ==
  ASSUME NEW U, NEW l \in Seq(U), NEW s \in Seq(U), NEW room \in 0..Len(s),
         NEW m, m = l \o SubSeq(s, room + 1, Len(s))
  PROVE  /\ m \in Seq(U) /\ Len(m) = Len(l) + (Len(s) - room)
         /\ \A i \in 1..Len(m) :
              \/ i \in 1..Len(l) /\ m[i] = l[i]
              \/ /\ i \notin 1..Len(l)
                 /\ room + (i - Len(l)) \in 1..Len(s) /\ room + (i - Len(l)) \notin 1..room
                 /\ m[i] = s[room + (i - Len(l))]
<1> DEFINE left == SubSeq(s, room + 1, Len(s))
<1>1. room \in Nat /\ Len(s) \in Nat /\ Len(l) \in Nat /\ room <= Len(s)
  OBVIOUS
<1>2. /\ left \in Seq(U) /\ Len(left) = Len(s) - room
      /\ \A i \in 1..(Len(s) - room) : left[i] = s[room + i]
  BY <1>1
<1>3. m = l \o left
  OBVIOUS
<1> HIDE DEF left
<1>4. /\ m \in Seq(U) /\ Len(m) = Len(l) + Len(left)
      /\ \A i \in 1..(Len(l) + Len(left)) : m[i] = IF i <= Len(l) THEN l[i] ELSE left[i - Len(l)]
  <2>1. /\ l \o left \in Seq(U) /\ Len(l \o left) = Len(l) + Len(left)
        /\ \A i \in 1..(Len(l) + Len(left)) :
             (l \o left)[i] = IF i <= Len(l) THEN l[i] ELSE left[i - Len(l)]
    BY <1>2, ConcatProperties
  <2> QED BY <2>1, <1>3, Zenon
<1>5. ASSUME NEW i \in 1..Len(m), i \notin 1..Len(l)
      PROVE  /\ room + (i - Len(l)) \in 1..Len(s) /\ room + (i - Len(l)) \notin 1..room
             /\ m[i] = s[room + (i - Len(l))]
  <2>1. i - Len(l) \in 1..(Len(s) - room) /\ ~(i <= Len(l))
    BY <1>1, <1>2, <1>4, <1>5
  <2>2. m[i] = left[i - Len(l)]
    BY <2>1, <1>4, <1>5
  <2>3. left[i - Len(l)] = s[room + (i - Len(l))]
    BY <2>1, <1>2
  <2>4. i - Len(l) \in Int /\ i - Len(l) >= 1 /\ i - Len(l) <= Len(s) - room
    BY <2>1, <1>1
  <2>5. PICK k \in Int : k = i - Len(l)
    BY <2>4
  <2>6. room + k \in 1..Len(s) /\ room + k \notin 1..room
    BY <1>1, <2>4, <2>5
  <2> QED BY <2>2, <2>3, <2>5, <2>6
<1>6. ASSUME NEW i \in 1..Len(m), i \in 1..Len(l) PROVE m[i] = l[i]
  BY <1>1, <1>4, <1>6
<1> QED BY <1>1, <1>2, <1>4, <1>5, <1>6

\* The first of the users s go to slots, the others join the line.
LEMMA EnterSound ==
  ASSUME NEW U, IsFiniteSet(U), NEW n \in Nat, NEW H, NEW l \in Seq(U), Sound(U, H, l, n),
         NEW s \in Seq(U),
         \A i, j \in 1..Len(s) : s[i] = s[j] => i = j,
         \A i \in 1..Len(s) : s[i] \notin H,
         \A i \in 1..Len(l), j \in 1..Len(s) : l[i] # s[j],
         NEW room \in 0..Len(s), Cardinality(H) + room <= n,
         room < Len(s) => Cardinality(H) + room = n
  PROVE  /\ Cardinality(H \cup First(s, room)) = Cardinality(H) + room
         /\ Sound(U, H \cup First(s, room), l \o SubSeq(s, room + 1, Len(s)), n)
<1> DEFINE T == First(s, room)
<1>0. PICK m : m = l \o SubSeq(s, room + 1, Len(s))
  BY Zenon
<1>1. H \in SUBSET U /\ IsFiniteSet(H) /\ Cardinality(H) \in Nat /\ Cardinality(H) <= n
  BY FS_Subset, FS_CardinalityType DEF Sound
<1>2. Cardinality(H \cup T) = Cardinality(H) + room
  BY <1>1, JoinCount
<1>3. T \in SUBSET U
  BY DEF First
<1>4. /\ \A i \in 1..Len(m) : m[i] \notin H
      /\ \A i \in 1..Len(m) : m[i] \notin T
      /\ \A i, j \in 1..Len(m) : m[i] = m[j] => i = j
  <2>1. /\ Len(m) \in Nat
        /\ \A i \in 1..Len(m) :
             \/ i \in 1..Len(l) /\ m[i] = l[i]
             \/ /\ i \notin 1..Len(l)
                /\ room + (i - Len(l)) \in 1..Len(s) /\ room + (i - Len(l)) \notin 1..room
                /\ m[i] = s[room + (i - Len(l))]
    BY <1>0, JoinPositions
  <2>2. ASSUME NEW i \in 1..Len(m) PROVE m[i] \notin H
    BY <2>1 DEF Sound
  <2>3. ASSUME NEW i \in 1..Len(m), NEW k \in 1..room PROVE m[i] # s[k]
    <3>1. k \in 1..Len(s)
      OBVIOUS
    <3>2. CASE i \in 1..Len(l)
      BY <3>1, <3>2, <2>1
    <3>3. CASE i \notin 1..Len(l)
      <4>1. room + (i - Len(l)) # k
        BY <3>3, <2>1
      <4> QED BY <4>1, <3>1, <3>3, <2>1
    <3> QED BY <3>2, <3>3
  <2>4. ASSUME NEW i \in 1..Len(m), NEW j \in 1..Len(m), m[i] = m[j] PROVE i = j
    <3>1. CASE i \in 1..Len(l) /\ j \in 1..Len(l)
      <4>1. l[i] = l[j]
        BY <3>1, <2>1, <2>4
      <4> QED BY <4>1, <3>1 DEF Sound
    <3>2. CASE i \in 1..Len(l) /\ j \notin 1..Len(l)
      BY <3>2, <2>1, <2>4
    <3>3. CASE i \notin 1..Len(l) /\ j \in 1..Len(l)
      BY <3>3, <2>1, <2>4
    <3>4. CASE i \notin 1..Len(l) /\ j \notin 1..Len(l)
      <4>1. room + (i - Len(l)) = room + (j - Len(l))
        BY <3>4, <2>1, <2>4
      <4> QED BY <4>1
    <3> QED BY <3>1, <3>2, <3>3, <3>4
  <2>5. \A i \in 1..Len(m) : m[i] \notin T
    BY <2>3 DEF First
  <2> QED BY <2>2, <2>4, <2>5
<1>5. m \in Seq(U) /\ Len(m) = Len(l) + (Len(s) - room)
  BY <1>0, JoinPositions
<1> HIDE DEF T
<1>6. m # <<>> => Cardinality(H \cup T) = n
  <2>1. CASE l # <<>>
    <3>1. Cardinality(H) = n
      BY <2>1 DEF Sound
    <3> QED BY <3>1, <1>2
  <2>2. CASE room < Len(s)
    BY <2>2, <1>2
  <2>3. CASE l = <<>> /\ ~(room < Len(s))
    BY <2>3, <1>5
  <2> QED BY <2>1, <2>2, <2>3
<1>7. Sound(U, H \cup T, m, n)
  BY <1>1, <1>2, <1>3, <1>4, <1>5, <1>6 DEF Sound
<1> QED BY <1>0, <1>2, <1>7 DEF T

\* One leaves: the head of the line inherits the slot, or it is free.
LEMMA LeaveSound ==
  ASSUME NEW U, IsFiniteSet(U), NEW n \in Nat, NEW H, NEW l \in Seq(U), Sound(U, H, l, n),
         NEW u \in H
  PROVE  /\ l = <<>> => /\ Sound(U, H \ {u}, l, n)
                        /\ Cardinality(H) \in 1..n
                        /\ Cardinality(H \ {u}) = Cardinality(H) - 1
         /\ l # <<>> => /\ Sound(U, (H \ {u}) \cup {Head(l)}, Tail(l), n)
                        /\ Cardinality((H \ {u}) \cup {Head(l)}) = Cardinality(H)
<1>1. /\ H \in SUBSET U /\ IsFiniteSet(H) /\ Cardinality(H) \in Nat /\ Cardinality(H) <= n
      /\ Cardinality(H) # 0
  BY FS_Subset, FS_CardinalityType, FS_EmptySet DEF Sound
<1>2. IsFiniteSet(H \ {u}) /\ Cardinality(H \ {u}) = Cardinality(H) - 1
  BY <1>1, FS_RemoveElement
<1>3. CASE l = <<>>
  BY <1>1, <1>2, <1>3 DEF Sound
<1>4. CASE l # <<>>
  <2>1. /\ Head(l) = l[1] /\ Len(l) \in Nat /\ Len(l) >= 1 /\ l[1] \in U /\ l[1] \notin H
    BY <1>4 DEF Sound
  <2>2. Cardinality((H \ {u}) \cup {Head(l)}) = Cardinality(H)
    <3>1. Head(l) \notin H \ {u}
      BY <2>1
    <3>2. Cardinality((H \ {u}) \cup {Head(l)}) = Cardinality(H \ {u}) + 1
      BY <3>1, <1>2, FS_AddElement
    <3> QED BY <3>2, <1>1, <1>2
  <2>3. /\ Tail(l) \in Seq(U) /\ Len(Tail(l)) = Len(l) - 1
        /\ \A i \in 1..Len(Tail(l)) : Tail(l)[i] = l[i + 1] /\ i + 1 \in 1..Len(l) /\ i + 1 # 1
    BY <1>4, <2>1
  <2>4. \A i \in 1..Len(Tail(l)) : Tail(l)[i] \notin (H \ {u}) \cup {Head(l)}
    BY <2>1, <2>3 DEF Sound
  <2>5. \A i, j \in 1..Len(Tail(l)) : Tail(l)[i] = Tail(l)[j] => i = j
    BY <2>1, <2>3 DEF Sound
  <2>6. Cardinality(H) = n
    BY <1>4 DEF Sound
  <2> QED BY <1>1, <1>4, <2>1, <2>2, <2>3, <2>4, <2>5, <2>6 DEF Sound
<1> QED BY <1>3, <1>4
=============================================================================
