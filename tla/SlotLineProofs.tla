--------------------------- MODULE SlotLineProofs ---------------------------
(***************************************************************************)
(* SlotsKept, for every finite set of users and every limit.               *)
(***************************************************************************)
EXTENDS SlotLine, LineLemmas

\* Nobody stands twice in the line, or in the line and at a slot: without this
\* the head of the line would inherit a slot and fill none.
IInv == Sound(Users, holders, line, Limit)

\* createLimiter(): never more loads at a time than the limit, and nobody waits in
\* line while a slot is free.
THEOREM LimitKept ==
  ASSUME IsFiniteSet(Users), Limit \in Nat
  PROVE  Spec => []SlotsKept
<1>1. Init => IInv
  BY FS_EmptySet DEF Init, IInv, Sound
<1>2. IInv /\ [Next]_<<holders, line>> => IInv'
  <2> SUFFICES ASSUME IInv, [Next]_<<holders, line>> PROVE IInv'
    OBVIOUS
  <2>1. line \in Seq(Users) /\ Sound(Users, holders, line, Limit) /\ Limit \in Nat
    BY DEF IInv, Sound
  <2>2. CASE Enter
    <3>1. PICK s, room :
            /\ s \in Orders
            /\ room = IF Len(s) <= Limit - Cardinality(holders) THEN Len(s)
                                                                ELSE Limit - Cardinality(holders)
            /\ holders' = holders \cup First(s, room)
            /\ line' = line \o SubSeq(s, room + 1, Len(s))
      BY <2>2 DEF Enter, First
    <3>2. PICK n \in 1..Cardinality(Users) :
            /\ s \in [1..n -> Users \ (holders \cup Waiting)]
            /\ \A i, j \in DOMAIN s : s[i] = s[j] => i = j
      BY <3>1 DEF Orders
    <3>3. s \in Seq(Users) /\ Len(s) = n /\ DOMAIN s = 1..Len(s)
      BY <3>2, FS_CardinalityType
    <3> \A i, j \in 1..Len(s) : s[i] = s[j] => i = j
      BY <3>2, <3>3
    <3> \A i \in 1..Len(s) : s[i] \notin holders
      BY <3>2, <3>3
    <3> \A i \in 1..Len(line), j \in 1..Len(s) : line[i] # s[j]
      BY <3>2, <3>3 DEF Waiting
    <3>4. Cardinality(holders) \in Nat /\ Cardinality(holders) <= Limit
      BY FS_Subset, FS_CardinalityType DEF IInv, Sound
    <3>5. /\ room \in 0..Len(s) /\ Cardinality(holders) + room <= Limit
          /\ (room < Len(s) => Cardinality(holders) + room = Limit)
      BY <2>1, <3>1, <3>3, <3>4
    <3> QED BY <2>1, <3>1, <3>3, <3>5, EnterSound DEF IInv
  <2>3. ASSUME NEW u \in Users, Leave(u) PROVE IInv'
    <3>1. CASE line = <<>>
      <4>1. u \in holders /\ holders' = holders \ {u} /\ line' = line
        BY <2>3, <3>1 DEF Leave
      <4> QED BY <4>1, <3>1, <2>1, LeaveSound DEF IInv
    <3>2. CASE line # <<>>
      <4>1. u \in holders /\ holders' = (holders \ {u}) \cup {Head(line)} /\ line' = Tail(line)
        BY <2>3, <3>2 DEF Leave
      <4> QED BY <4>1, <3>2, <2>1, LeaveSound DEF IInv
    <3> QED BY <3>1, <3>2
  <2>4. CASE UNCHANGED <<holders, line>>
    BY <2>4 DEF IInv
  <2> QED BY <2>2, <2>3, <2>4 DEF Next
<1>3. IInv => SlotsKept
  BY DEF IInv, Sound, SlotsKept
<1> QED BY <1>1, <1>2, <1>3, PTL DEF Spec
=============================================================================
