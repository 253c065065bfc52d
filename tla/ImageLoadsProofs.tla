-------------------------- MODULE ImageLoadsProofs --------------------------
(***************************************************************************)
(* The image lists of the page, for any number of cards, slots, retries    *)
(* and asks: their limiter implements SlotLine, lists load front to back,  *)
(* stale cards start nothing, a locked card has an ask to wait for, and    *)
(* unless the key is forgotten meanwhile, unlocking opens all that wait.   *)
(***************************************************************************)
EXTENDS ImageLoads, LineLemmas

InSlot == {"granted", "fetching"}

\* The cards are in the states they can be in; exactly the locked ones wait on an ask.
CardsOK(cs) ==
  /\ cs \in [Cards -> CardStates]
  /\ \A c \in Cards : cs[c].pc = "locked" <=> cs[c].on # None

\* The counter and the queue of the limiter agree with the cards.
LineInv ==
  /\ active = Cardinality(Holding)
  /\ Sound(Cards, Holding, queue, Limit)
  /\ \A c \in Cards : card[c].pc = "queued" <=> \E i \in 1..Len(queue) : queue[i] = c

\* Cards that are not rendered are nowhere; before the configuration arrives none
\* has come to the limiter.
ListInv ==
  /\ \A c \in Cards : c > made => card[c].pc = "none"
  /\ config = "asked" => \A c \in Cards : card[c].pc \in {"none", "config"}

\* The ask whose promise the page shares is still to be settled.
KeyInv == key \in Asks => ask[key] # None

IInv == TypeOK /\ LineInv /\ ListInv /\ KeyInv /\ LockedIsAsked

-----------------------------------------------------------------------------
LEMMA CardsFinite == IsFiniteSet(Cards) /\ Cardinality(Cards) = MaxCards
BY FS_Interval, LoadAssumption DEF Cards

\* SlotLine counts as this module does.
LEMMA SameCount == ASSUME NEW S PROVE Slots!Cardinality(S) = Cardinality(S)
BY DEF Slots!Cardinality, Cardinality

\* What is known of the limiter before a step.
LEMMA LineFacts ==
  ASSUME TypeOK, LineInv
  PROVE  /\ CardsOK(card)
         /\ Limit \in Nat /\ active \in Nat /\ active <= Limit /\ MaxCards \in Nat
         /\ queue \in Seq(Cards) /\ Holding \in SUBSET Cards /\ IsFiniteSet(Holding)
         /\ Cardinality(Holding) = active
         /\ Sound(Cards, Holding, queue, Limit)
BY CardsFinite, FS_Subset, LoadAssumption DEF TypeOK, CardsOK, LineInv, Holding

\* The cards s ask for a slot: their first get one, the others a place in line.
LEMMA AcquireKeeps ==
  ASSUME TypeOK, LineInv,
         NEW s \in Seq(Cards), Len(s) <= MaxCards,
         \A i, j \in 1..Len(s) : s[i] = s[j] => i = j,
         \A i \in 1..Len(s) : card[s[i]].pc \notin InSlot \cup {"queued"},
         NEW cs, CardsOK(cs),
         \A i \in 1..Len(s) : cs[s[i]].on = None,
         \A c \in Cards : (\A i \in 1..Len(s) : s[i] # c) => cs[c] = card[c],
         Acquire(s, cs)
  PROVE  /\ CardsOK(card') /\ active' \in 0..Limit /\ queue' \in Seq(Cards) /\ LineInv'
         /\ \A c \in Cards : \/ card'[c] = card[c]
                             \/ (\E i \in 1..Len(s) : s[i] = c) /\ card'[c].pc \in {"granted", "queued"}
         /\ [Slots!Next]_<<Holding, queue>>
<1>0. PICK room : room = IF Len(s) <= Limit - active THEN Len(s) ELSE Limit - active
  BY Zenon
<1> DEFINE left == {s[i] : i \in (room + 1)..Len(s)}
<1>1. /\ active' = active + room
      /\ queue' = queue \o SubSeq(s, room + 1, Len(s))
      /\ card' = [c \in Cards |-> IF c \in First(s, room) THEN [cs[c] EXCEPT !.pc = "granted"]
                                  ELSE IF c \in left THEN [cs[c] EXCEPT !.pc = "queued"]
                                  ELSE cs[c]]
  BY <1>0 DEF Acquire, First
<1>2. /\ Limit \in Nat /\ active \in Nat /\ active <= Limit /\ MaxCards \in Nat
      /\ queue \in Seq(Cards) /\ Holding \in SUBSET Cards /\ Cardinality(Holding) = active
      /\ CardsOK(card) /\ Sound(Cards, Holding, queue, Limit)
  BY LineFacts
<1>3. /\ room \in 0..Len(s) /\ Cardinality(Holding) + room <= Limit
      /\ (room < Len(s) => Cardinality(Holding) + room = Limit)
      /\ active + room \in 0..Limit
  BY <1>0, <1>2
<1>4. \A i \in 1..Len(s) : s[i] \notin Holding
  BY DEF Holding, InSlot
<1>5. \A i \in 1..Len(queue), j \in 1..Len(s) : queue[i] # s[j]
  BY <1>2 DEF LineInv
<1>6. /\ Cardinality(Holding \cup First(s, room)) = Cardinality(Holding) + room
      /\ Sound(Cards, Holding \cup First(s, room), queue \o SubSeq(s, room + 1, Len(s)), Limit)
  BY <1>2, <1>3, <1>4, <1>5, CardsFinite, EnterSound
<1>7. /\ \A c \in Cards : c \in First(s, room) => \E i \in 1..Len(s) : s[i] = c
      /\ \A c \in Cards : c \in left => \E i \in 1..Len(s) : s[i] = c
      /\ \A i \in 1..Len(s) : s[i] \in First(s, room) \cup left
      /\ First(s, room) \in SUBSET Cards
      /\ \A c \in Cards : c \in left => c \notin First(s, room)
  <2>1. \A i \in 1..room : i \in 1..Len(s)
    BY <1>3
  <2>2. \A i \in (room + 1)..Len(s) : i \in 1..Len(s) /\ i \notin 1..room
    BY <1>3
  <2>3. \A i \in 1..Len(s) : i \in 1..room \/ i \in (room + 1)..Len(s)
    BY <1>3
  <2> QED BY <2>1, <2>2, <2>3 DEF First
<1>8. /\ Len(queue') = Len(queue) + (Len(s) - room)
      /\ \A i \in 1..Len(queue') :
            \/ i \in 1..Len(queue) /\ queue'[i] = queue[i]
            \/ /\ i \notin 1..Len(queue)
               /\ room + (i - Len(queue)) \in 1..Len(s) /\ room + (i - Len(queue)) \notin 1..room
               /\ queue'[i] = s[room + (i - Len(queue))]
  <2>1. queue' = queue \o SubSeq(s, room + 1, Len(s)) /\ queue \in Seq(Cards) /\ room \in 0..Len(s)
    BY <1>1, <1>2, <1>3
  <2> QED BY <2>1, JoinPositions
<1>9. \A c \in Cards : c \in left <=> \E i \in 1..Len(queue') : queue'[i] = c /\ i \notin 1..Len(queue)
  <2>1. Len(queue) \in Nat /\ Len(s) \in Nat /\ room \in Nat
    BY <1>2, <1>3
  <2>2. ASSUME NEW i \in 1..Len(queue'), i \notin 1..Len(queue) PROVE queue'[i] \in left
    <3>1. room + (i - Len(queue)) \in (room + 1)..Len(s) /\ queue'[i] = s[room + (i - Len(queue))]
      BY <1>8, <2>1, <2>2
    <3> QED BY <3>1
  <2>3. ASSUME NEW k \in (room + 1)..Len(s)
        PROVE  \E i \in 1..Len(queue') : queue'[i] = s[k] /\ i \notin 1..Len(queue)
    <3>1. /\ Len(queue) + (k - room) \in 1..Len(queue')
          /\ Len(queue) + (k - room) \notin 1..Len(queue)
          /\ room + ((Len(queue) + (k - room)) - Len(queue)) = k
      BY <1>8, <2>1
    <3>2. queue'[Len(queue) + (k - room)] = s[k]
      BY <3>1, <1>8
    <3> QED BY <3>1, <3>2
  <2>4. ASSUME NEW c \in left PROVE \E i \in 1..Len(queue') : queue'[i] = c /\ i \notin 1..Len(queue)
    <3>1. PICK k \in (room + 1)..Len(s) : s[k] = c
      BY <2>4
    <3> HIDE DEF left
    <3> QED BY <2>3, <3>1
  <2> HIDE DEF left
  <2> QED BY <2>2, <2>4
<1>10. \A i \in 1..Len(queue) : i \in 1..Len(queue') /\ queue'[i] = queue[i]
  BY <1>8, <1>2, <1>3
<1> HIDE DEF left
<1>11. \A c \in Cards : \/ c \in First(s, room) /\ card'[c].pc = "granted" /\ card'[c].on = None
                        \/ c \in left /\ c \notin First(s, room) /\ card'[c].pc = "queued" /\ card'[c].on = None
                        \/ c \notin First(s, room) /\ c \notin left /\ card'[c] = card[c]
  <2>1. \A c \in Cards : cs[c] \in CardStates
    BY DEF CardsOK
  <2>2. \A c \in Cards : c \in First(s, room) \cup left => cs[c].on = None
    BY <1>7
  <2>3. \A c \in Cards : c \notin First(s, room) \cup left => cs[c] = card[c]
    BY <1>7
  <2> QED BY <1>1, <1>7, <2>1, <2>2, <2>3 DEF CardStates
<1>12. CardsOK(card')
  <2>1. card' \in [Cards -> CardStates]
    <3>1. \A c \in Cards : cs[c] \in CardStates
      BY DEF CardsOK
    <3>2. \A c \in Cards : card'[c] \in {[cs[c] EXCEPT !.pc = "granted"], [cs[c] EXCEPT !.pc = "queued"], cs[c]}
      BY <1>1
    <3>3. \A c \in Cards : card'[c] \in CardStates
      BY <3>1, <3>2 DEF CardStates
    <3> QED BY <3>3, <1>1
  <2>2. \A c \in Cards : card[c].pc = "locked" <=> card[c].on # None
    BY <1>2 DEF CardsOK
  <2>3. \A c \in Cards : card'[c].pc = "locked" <=> card'[c].on # None
    BY <2>2, <1>11
  <2> QED BY <2>1, <2>3 DEF CardsOK
<1>13. Holding' = Holding \cup First(s, room)
  BY <1>4, <1>7, <1>11 DEF Holding
<1>14. LineInv'
  <2>1. \A c \in Cards : card'[c].pc = "queued" <=> card[c].pc = "queued" \/ c \in left
    BY <1>4, <1>7, <1>11 DEF Holding
  <2>2. \A c \in Cards : card[c].pc = "queued" <=> \E i \in 1..Len(queue) : queue[i] = c
    BY DEF LineInv
  <2>3. \A c \in Cards : card'[c].pc = "queued" <=> \E i \in 1..Len(queue') : queue'[i] = c
    BY <2>1, <2>2, <1>9, <1>10
  <2> QED BY <2>3, <1>1, <1>2, <1>6, <1>13 DEF LineInv
<1>15. \A c \in Cards : \/ card'[c] = card[c]
                        \/ (\E i \in 1..Len(s) : s[i] = c) /\ card'[c].pc \in {"granted", "queued"}
  BY <1>7, <1>11
<1>16. [Slots!Next]_<<Holding, queue>>
  <2>1. CASE Len(s) = 0
    <3>1. First(s, room) = {} /\ SubSeq(s, room + 1, Len(s)) = <<>> /\ queue \o <<>> = queue
      BY <2>1, <1>2, <1>3 DEF First
    <3> QED BY <3>1, <1>1, <1>13
  <2>2. CASE Len(s) # 0
    <3>1. s \in [1..Len(s) -> Cards \ (Holding \cup Slots!Waiting)]
      BY <1>4, <1>5 DEF Slots!Waiting
    <3>2. Len(s) \in 1..MaxCards /\ DOMAIN s = 1..Len(s)
      BY <2>2, <1>2
    <3>3. s \in UNION {[1..n -> Cards \ (Holding \cup Slots!Waiting)] : n \in 1..Slots!Cardinality(Cards)}
      BY <3>1, <3>2, CardsFinite, SameCount
    <3>4. s \in Slots!Orders
      BY <3>2, <3>3 DEF Slots!Orders
    <3>5. Slots!Enter
      BY <3>4, <1>0, <1>1, <1>2, <1>13, SameCount DEF Slots!Enter, First
    <3> QED BY <3>5 DEF Slots!Next
  <2> QED BY <2>1, <2>2
<1> QED BY <1>1, <1>2, <1>3, <1>6, <1>12, <1>14, <1>15, <1>16 DEF Sound

\* Card c gives its slot back: the head of the line inherits it, or it is free.
LEMMA ReleaseKeeps ==
  ASSUME TypeOK, LineInv,
         NEW c \in Cards, card[c].pc \in InSlot,
         NEW cs, CardsOK(cs), cs[c].pc \notin InSlot \cup {"queued"},
         \A d \in Cards : d # c => cs[d] = card[d],
         Release(cs)
  PROVE  /\ CardsOK(card') /\ active' \in 0..Limit /\ queue' \in Seq(Cards) /\ LineInv'
         /\ card'[c] = cs[c]
         /\ \A d \in Cards : d # c => \/ card'[d] = card[d]
                                      \/ card[d].pc = "queued" /\ card'[d].pc = "granted"
         /\ [Slots!Next]_<<Holding, queue>>
<1>1. /\ Limit \in Nat /\ active \in Nat /\ active <= Limit
      /\ queue \in Seq(Cards) /\ Holding \in SUBSET Cards /\ Cardinality(Holding) = active
      /\ CardsOK(card) /\ Sound(Cards, Holding, queue, Limit)
  BY LineFacts
<1>2. c \in Holding
  BY DEF Holding, InSlot
<1>3. /\ queue = <<>> => /\ Sound(Cards, Holding \ {c}, queue, Limit)
                         /\ Cardinality(Holding) \in 1..Limit
                         /\ Cardinality(Holding \ {c}) = Cardinality(Holding) - 1
      /\ queue # <<>> => /\ Sound(Cards, (Holding \ {c}) \cup {Head(queue)}, Tail(queue), Limit)
                         /\ Cardinality((Holding \ {c}) \cup {Head(queue)}) = Cardinality(Holding)
  <2>1. IsFiniteSet(Cards) /\ Limit \in Nat /\ queue \in Seq(Cards) /\ Sound(Cards, Holding, queue, Limit)
    BY <1>1, CardsFinite
  <2>2. queue = <<>> => Sound(Cards, Holding \ {c}, queue, Limit) /\ Cardinality(Holding) \in 1..Limit
    BY <1>2, <2>1, LeaveSound
  <2>3. IsFiniteSet(Holding \ {c}) /\ Cardinality(Holding \ {c}) = Cardinality(Holding) - 1
    BY <1>2, LineFacts, FS_RemoveElement
  <2>4. queue # <<>> => Sound(Cards, (Holding \ {c}) \cup {Head(queue)}, Tail(queue), Limit)
    BY <1>2, <2>1, LeaveSound
  <2>5. ASSUME queue # <<>>
        PROVE  Cardinality((Holding \ {c}) \cup {Head(queue)}) = Cardinality(Holding)
    <3>1. Head(queue) \notin Holding \ {c}
      BY <2>1, <2>5 DEF Sound
    <3>2. Cardinality((Holding \ {c}) \cup {Head(queue)}) = Cardinality(Holding \ {c}) + 1
      BY <2>3, <3>1, FS_AddElement
    <3> QED BY <3>2, <2>3, <1>1
  <2> QED BY <2>2, <2>3, <2>4, <2>5
<1>4. \A d \in Cards : d # c => (cs[d].pc \in InSlot <=> d \in Holding)
  BY DEF Holding, InSlot
<1>5. \A d \in Cards : cs[d].pc = "queued" <=> \E i \in 1..Len(queue) : queue[i] = d
  BY DEF LineInv, InSlot
<1>6. CASE queue = <<>>
  <2>1. active' = active - 1 /\ card' = cs /\ queue' = queue
    BY <1>6 DEF Release
  <2>2. Holding' = Holding \ {c}
    BY <1>1, <1>4, <2>1 DEF Holding, InSlot
  <2>3. LineInv'
    BY <1>1, <1>3, <1>5, <1>6, <2>1, <2>2 DEF LineInv
  <2>4. Slots!Leave(c)
    BY <1>2, <1>6, <2>1, <2>2 DEF Slots!Leave
  <2>5. [Slots!Next]_<<Holding, queue>>
    BY <2>4 DEF Slots!Next
  <2>6. active' \in 0..Limit
    BY <1>1, <1>3, <1>6, <2>1
  <2> QED BY <1>1, <2>1, <2>3, <2>5, <2>6
<1>7. CASE queue # <<>>
  <2>1. /\ active' = active /\ queue' = Tail(queue)
        /\ card' = [cs EXCEPT ![Head(queue)].pc = "granted"]
    BY <1>7 DEF Release
  <2>2. PICK h : h = Head(queue)
    BY Zenon
  <2>3. h = queue[1] /\ 1 \in 1..Len(queue) /\ h \in Cards
    BY <1>1, <1>7, <2>2
  <2>4. card[h].pc = "queued" /\ h # c /\ cs[h] = card[h]
    BY <1>5, <2>3 DEF InSlot
  <2>5. /\ card' = [cs EXCEPT ![h] = [cs[h] EXCEPT !.pc = "granted"]]
        /\ cs \in [Cards -> CardStates]
    BY <2>1, <2>2 DEF CardsOK
  <2>6. /\ card'[h].pc = "granted" /\ card'[h].on = cs[h].on /\ card'[h] \in CardStates
        /\ \A d \in Cards : d # h => card'[d] = cs[d]
    <3>1. cs[h] \in CardStates
      BY <2>3, <2>5
    <3>2. card'[h] = [cs[h] EXCEPT !.pc = "granted"] /\ \A d \in Cards : d # h => card'[d] = cs[d]
      BY <2>3, <2>5
    <3> QED BY <3>1, <3>2 DEF CardStates
  <2>7. CardsOK(card')
    <3>1. card' \in [Cards -> CardStates]
      BY <2>3, <2>5, <2>6
    <3>2. card[h].on = None
      BY <1>1, <2>3, <2>4 DEF CardsOK
    <3>3. \A d \in Cards : cs[d].pc = "locked" <=> cs[d].on # None
      BY DEF CardsOK
    <3>4. \A d \in Cards : card'[d].pc = "locked" <=> card'[d].on # None
      BY <2>4, <2>6, <3>2, <3>3
    <3> QED BY <3>1, <3>4 DEF CardsOK
  <2>8. Holding' = (Holding \ {c}) \cup {h}
    BY <1>1, <1>4, <2>3, <2>4, <2>6 DEF Holding, InSlot
  <2>9. \A d \in Cards : card'[d].pc = "queued" <=> \E i \in 1..Len(queue') : queue'[i] = d
    <3>1. /\ Len(queue) \in Nat /\ Len(queue') = Len(queue) - 1
          /\ \A i \in 1..Len(queue') : queue'[i] = queue[i + 1] /\ i + 1 \in 1..Len(queue)
      BY <1>1, <1>7, <2>1
    <3>2. \A i \in 1..Len(queue) : i # 1 => i - 1 \in 1..Len(queue') /\ queue'[i - 1] = queue[i]
      BY <3>1
    <3>3. \A i, j \in 1..Len(queue) : queue[i] = queue[j] => i = j
      BY <1>1 DEF Sound
    <3>4. \A i \in 1..Len(queue') : queue'[i] # h
      BY <2>3, <3>1, <3>3
    <3>5. ASSUME NEW d \in Cards, d # h
          PROVE  (\E i \in 1..Len(queue') : queue'[i] = d) <=> (\E i \in 1..Len(queue) : queue[i] = d)
      BY <2>3, <3>1, <3>2, <3>5
    <3> QED BY <1>5, <2>6, <3>4, <3>5
  <2>10. LineInv'
    BY <1>1, <1>3, <1>7, <2>1, <2>2, <2>8, <2>9 DEF LineInv
  <2>11. Slots!Leave(c)
    BY <1>2, <1>7, <2>1, <2>2, <2>8 DEF Slots!Leave
  <2>12. [Slots!Next]_<<Holding, queue>>
    BY <2>11 DEF Slots!Next
  <2>13. queue' \in Seq(Cards)
    BY <1>1, <1>7, <2>1
  <2> QED BY <1>1, <2>1, <2>4, <2>6, <2>7, <2>10, <2>12, <2>13
<1> QED BY <1>6, <1>7

\* A step that moves no card to the limiter or from it.
LEMMA IdleKeeps ==
  ASSUME TypeOK, LineInv, UNCHANGED <<active, queue>>,
         \A c \in Cards : card'[c].pc = "queued" <=> card[c].pc = "queued",
         \A c \in Cards : card'[c].pc \in InSlot <=> card[c].pc \in InSlot
  PROVE  LineInv' /\ active' \in 0..Limit /\ queue' \in Seq(Cards) /\ [Slots!Next]_<<Holding, queue>>
<1>1. Holding' = Holding
  BY DEF Holding, InSlot
<1> QED BY <1>1, LineFacts DEF LineInv

-----------------------------------------------------------------------------
\* What a step keeps: the invariant, the slots of SlotLine, and that cards start a
\* request in the current list only.
FreshOnly == \A c \in Cards : card[c].pc # "fetching" /\ card'[c].pc = "fetching" => c >= first'

Kept == IInv' /\ [Slots!Next]_<<Holding, queue>> /\ FreshOnly

\* The invariant in the parts steps keep one by one.
ListOK == made \in 0..MaxCards /\ first \in 1..(MaxCards + 1) /\ config \in {"asked", "known", "failed"}
SlotsOK == active \in 0..Limit /\ queue \in Seq(Cards)
KeyOK == /\ saved \in {None, "good", "bad"} /\ key \in {None, Known} \cup Asks
         /\ ask \in [Asks -> {None, "good", "bad", "parked"}]
         /\ resolver \in Asks \cup {None} /\ form \in BOOLEAN

LEMMA Parts == TypeOK <=> ListOK /\ CardsOK(card) /\ SlotsOK /\ KeyOK
BY DEF TypeOK, ListOK, CardsOK, SlotsOK, KeyOK

LEMMA PartsNext == ListOK' /\ CardsOK(card') /\ SlotsOK' /\ KeyOK' => TypeOK'
BY DEF TypeOK, ListOK, CardsOK, SlotsOK, KeyOK

\* Steps that leave the key alone and lock no card.
LEMMA KeyKeeps ==
  ASSUME IInv, UNCHANGED <<keyVars, form>>,
         \A c \in Cards : card'[c].pc = "locked" => card'[c] = card[c]
  PROVE  KeyOK' /\ KeyInv' /\ LockedIsAsked'
BY DEF IInv, TypeOK, KeyOK, KeyInv, LockedIsAsked, keyVars

\* The sequence s names cards of lo..hi, each once.
InOrder(s, lo, hi) ==
  /\ s \in Seq(Cards) /\ Len(s) <= MaxCards
  /\ \A i \in 1..Len(s) : s[i] \in lo..hi
  /\ \A i, j \in 1..Len(s) : s[i] = s[j] => i = j

LEMMA NumbersInOrder ==
  ASSUME NEW lo \in 1..(MaxCards + 1), NEW hi \in 0..MaxCards, lo <= hi + 1, MaxCards \in Nat
  PROVE  InOrder(Numbers(lo, hi), lo, hi)
<1>1. PICK s : s = Numbers(lo, hi)
  BY Zenon
<1>2. hi - lo + 1 \in Nat /\ \A i \in 1..(hi - lo + 1) : lo + i - 1 \in Cards
  BY DEF Cards
<1>3. s = [i \in 1..(hi - lo + 1) |-> lo + i - 1]
  BY <1>1 DEF Numbers
<1>4. s \in Seq(Cards) /\ Len(s) = hi - lo + 1
  BY <1>2, <1>3
<1>5. \A i \in 1..Len(s) : s[i] = lo + i - 1
  BY <1>3, <1>4
<1>6. InOrder(s, lo, hi)
  BY <1>2, <1>4, <1>5 DEF InOrder
<1> QED BY <1>1, <1>6

LEMMA RenderKeeps ==
  ASSUME IInv, NEW n \in 0..MaxCards, Render(n)
  PROVE  Kept
<1> DEFINE Become(pc) == [c \in Cards |-> IF c \in (made + 1)..(made + n) THEN Fresh(pc) ELSE card[c]]
<1>1. /\ MaxCards \in Nat /\ made \in 0..MaxCards /\ CardsOK(card) /\ TypeOK /\ LineInv
      /\ \A c \in Cards : c > made => card[c].pc = "none"
  BY LineFacts DEF IInv, TypeOK, ListInv
<1>2. /\ made + n <= MaxCards /\ made' = made + n /\ first' = made + 1
      /\ config' = config /\ UNCHANGED <<keyVars, form>>
  BY DEF Render
<1>3. ListOK'
  BY <1>1, <1>2 DEF IInv, TypeOK, ListOK
<1>4. \A c \in Cards : c \in (made + 1)..(made + n) => c > made /\ ~(c > made + n) /\ card[c].pc = "none"
  BY <1>1, <1>2 DEF Cards
<1>5. \A c \in Cards : c > made + n => c > made /\ c \notin (made + 1)..(made + n) /\ card[c].pc = "none"
  BY <1>1, <1>2 DEF Cards
<1>6. ASSUME NEW pc \in {"config", "over"}, card' = Become(pc), UNCHANGED slotVars,
             config = "asked" => pc = "config"
      PROVE  Kept
  <2>1. Fresh(pc) \in CardStates /\ Fresh(pc).pc = pc /\ Fresh(pc).on = None
    BY <1>6, LoadAssumption DEF Fresh, CardStates
  <2>2. \A c \in Cards : \/ card'[c] = card[c]
                         \/ card[c].pc = "none" /\ card'[c] = Fresh(pc) /\ c \in (made + 1)..(made + n)
    BY <1>4, <1>6
  <2>3. CardsOK(card')
    <3>1. \A c \in Cards : card'[c] \in CardStates
      BY <1>1, <2>1, <2>2 DEF CardsOK
    <3>2. card' \in [Cards -> CardStates]
      BY <1>6, <3>1
    <3> QED BY <1>1, <1>6, <2>1, <2>2, <3>2 DEF CardsOK
  <2>4. LineInv' /\ SlotsOK' /\ [Slots!Next]_<<Holding, queue>>
    BY <1>1, <1>6, <2>1, <2>2, IdleKeeps DEF slotVars, InSlot, SlotsOK
  <2>5. ListInv'
    <3>1. \A c \in Cards : c > made + n => card'[c].pc = "none"
      BY <1>5, <2>2
    <3>2. config = "asked" => \A c \in Cards : card'[c].pc \in {"none", "config"}
      BY <1>6, <2>1, <2>2 DEF IInv, ListInv
    <3> QED BY <1>2, <3>1, <3>2 DEF ListInv
  <2>6. KeyOK' /\ KeyInv' /\ LockedIsAsked'
    BY <1>2, <1>6, <2>1, <2>2, KeyKeeps
  <2>7. FreshOnly
    BY <1>6, <2>1, <2>2 DEF FreshOnly
  <2> QED BY <1>3, <2>3, <2>4, <2>5, <2>6, <2>7, PartsNext DEF Kept, IInv
<1>7. ASSUME config = "known", Acquire(Numbers(made + 1, made + n), card)
      PROVE  Kept
  <2>1. PICK s : s = Numbers(made + 1, made + n)
    BY Zenon
  <2>2. InOrder(s, made + 1, made + n)
    <3>1. made + 1 \in 1..(MaxCards + 1) /\ made + n \in 0..MaxCards /\ made + 1 <= (made + n) + 1
      BY <1>1, <1>2
    <3> QED BY <1>1, <2>1, <3>1, NumbersInOrder
  <2>3. \A i \in 1..Len(s) : s[i] \in Cards /\ card[s[i]].pc = "none" /\ card[s[i]].on = None
    BY <1>1, <1>4, <2>2 DEF CardsOK, InOrder
  <2>4. /\ CardsOK(card') /\ active' \in 0..Limit /\ queue' \in Seq(Cards) /\ LineInv'
        /\ \A c \in Cards : \/ card'[c] = card[c]
                            \/ (\E i \in 1..Len(s) : s[i] = c) /\ card'[c].pc \in {"granted", "queued"}
        /\ [Slots!Next]_<<Holding, queue>>
    BY <1>1, <1>7, <2>1, <2>2, <2>3, AcquireKeeps DEF InSlot, InOrder
  <2>5. ListInv'
    <3>1. \A c \in Cards : c > made + n => card'[c].pc = "none"
      BY <1>5, <2>2, <2>4 DEF InOrder
    <3> QED BY <1>2, <1>7, <3>1 DEF ListInv
  <2>6. KeyOK' /\ KeyInv' /\ LockedIsAsked'
    BY <1>2, <2>4, KeyKeeps
  <2>7. FreshOnly
    BY <2>4 DEF FreshOnly
  <2> QED BY <1>3, <2>4, <2>5, <2>6, <2>7, PartsNext DEF Kept, IInv, SlotsOK
<1> QED BY <1>6, <1>7 DEF Render

LEMMA ConfigKeeps ==
  ASSUME IInv, ConfigArrives \/ ConfigFails
  PROVE  Kept
<1>1. /\ MaxCards \in Nat /\ made \in 0..MaxCards /\ CardsOK(card) /\ TypeOK /\ LineInv
      /\ \A c \in Cards : c > made => card[c].pc = "none"
      /\ \A c \in Cards : card[c].pc \in {"none", "config"}
  BY LineFacts DEF IInv, TypeOK, ListInv, ConfigArrives, ConfigFails
<1>2. /\ made' = made /\ first' = first /\ config' \in {"known", "failed"}
      /\ UNCHANGED <<keyVars, form>>
  BY DEF ConfigArrives, ConfigFails
<1>3. ListOK'
  BY <1>1, <1>2 DEF IInv, TypeOK, ListOK
<1>4. ASSUME ConfigArrives PROVE Kept
  <2>1. PICK s : s = Numbers(1, made)
    BY Zenon
  <2>2. InOrder(s, 1, made)
    <3>1. 1 \in 1..(MaxCards + 1) /\ 1 <= made + 1
      BY <1>1
    <3> QED BY <1>1, <2>1, <3>1, NumbersInOrder
  <2>3. \A i \in 1..Len(s) : s[i] \in Cards /\ card[s[i]].pc \notin InSlot \cup {"queued"} /\ card[s[i]].on = None
    BY <1>1, <2>2 DEF CardsOK, InSlot, InOrder
  <2>4. Acquire(s, card)
    BY <1>4, <2>1 DEF ConfigArrives
  <2>5. /\ CardsOK(card') /\ active' \in 0..Limit /\ queue' \in Seq(Cards) /\ LineInv'
        /\ \A c \in Cards : \/ card'[c] = card[c]
                            \/ (\E i \in 1..Len(s) : s[i] = c) /\ card'[c].pc \in {"granted", "queued"}
        /\ [Slots!Next]_<<Holding, queue>>
    BY <1>1, <2>2, <2>3, <2>4, AcquireKeeps DEF InOrder
  <2>6. ListInv'
    <3>1. \A c \in Cards : c > made => card'[c].pc = "none"
      <4>1. \A c \in Cards, i \in 1..Len(s) : c > made => s[i] # c
        BY <1>1, <2>2 DEF Cards, InOrder
      <4> QED BY <1>1, <2>5, <4>1
    <3> QED BY <1>2, <3>1 DEF ListInv
  <2>7. KeyOK' /\ KeyInv' /\ LockedIsAsked'
    BY <1>2, <2>5, KeyKeeps
  <2>8. FreshOnly
    BY <2>5 DEF FreshOnly
  <2> QED BY <1>3, <2>5, <2>6, <2>7, <2>8, PartsNext DEF Kept, IInv, SlotsOK
<1>5. ASSUME ConfigFails PROVE Kept
  <2>1. /\ card' = [c \in Cards |-> IF c <= made THEN Fresh("over") ELSE card[c]]
        /\ UNCHANGED slotVars
    BY <1>5 DEF ConfigFails
  <2>2. Fresh("over") \in CardStates /\ Fresh("over").pc = "over" /\ Fresh("over").on = None
    BY LoadAssumption DEF Fresh, CardStates
  <2>3. \A c \in Cards : card'[c] = card[c] \/ card'[c] = Fresh("over")
    BY <2>1
  <2>4. CardsOK(card')
    <3>1. \A c \in Cards : card'[c] \in CardStates
      BY <1>1, <2>2, <2>3 DEF CardsOK
    <3>2. card' \in [Cards -> CardStates]
      BY <2>1, <3>1
    <3> QED BY <1>1, <2>2, <2>3, <3>2 DEF CardsOK
  <2>5. LineInv' /\ SlotsOK' /\ [Slots!Next]_<<Holding, queue>>
    BY <1>1, <2>1, <2>2, <2>3, IdleKeeps DEF slotVars, InSlot, SlotsOK
  <2>6. ListInv'
    <3>1. \A c \in Cards : c > made => card'[c].pc = "none"
      BY <1>1, <2>1 DEF Cards
    <3> QED BY <1>2, <3>1 DEF ListInv
  <2>7. KeyOK' /\ KeyInv' /\ LockedIsAsked'
    BY <1>2, <2>2, <2>3, KeyKeeps
  <2>8. FreshOnly
    BY <2>2, <2>3 DEF FreshOnly
  <2> QED BY <1>3, <2>4, <2>5, <2>6, <2>7, <2>8, PartsNext DEF Kept, IInv
<1> QED BY <1>4, <1>5

\* A card gives its slot back and goes on as cs has it.
LEMMA SlotBackKeeps ==
  ASSUME IInv, UNCHANGED listVars,
         NEW c \in Cards, card[c].pc \in InSlot,
         NEW cs, CardsOK(cs), cs[c].pc \in {"sleeping", "decrypting", "locked", "over"},
         \A d \in Cards : d # c => cs[d] = card[d],
         Release(cs)
  PROVE  /\ ListOK' /\ CardsOK(card') /\ SlotsOK' /\ LineInv' /\ ListInv' /\ FreshOnly
         /\ [Slots!Next]_<<Holding, queue>>
         /\ card'[c] = cs[c]
         /\ \A d \in Cards : d # c => \/ card'[d] = card[d]
                                      \/ card[d].pc = "queued" /\ card'[d].pc = "granted"
<1>1. TypeOK /\ LineInv /\ ListInv
  BY DEF IInv
<1>2. /\ CardsOK(card') /\ active' \in 0..Limit /\ queue' \in Seq(Cards) /\ LineInv'
      /\ card'[c] = cs[c]
      /\ \A d \in Cards : d # c => \/ card'[d] = card[d]
                                   \/ card[d].pc = "queued" /\ card'[d].pc = "granted"
      /\ [Slots!Next]_<<Holding, queue>>
  BY <1>1, ReleaseKeeps DEF InSlot
<1>3. ListInv'
  BY <1>1, <1>2 DEF ListInv, listVars, InSlot
<1>4. ListOK'
  BY <1>1 DEF ListOK, TypeOK, listVars
<1>5. FreshOnly
  BY <1>2 DEF FreshOnly
<1> QED BY <1>2, <1>3, <1>4, <1>5 DEF SlotsOK

LEMMA ResumeKeeps ==
  ASSUME IInv, NEW c \in Cards, Resume(c)
  PROVE  Kept
<1>1. CardsOK(card) /\ card[c].pc = "granted" /\ UNCHANGED <<listVars, keyVars, form>>
  BY LineFacts DEF IInv, Resume
<1>2. CASE Stale(c)
  <2>1. Release(Done(c))
    BY <1>2 DEF Resume
  <2>2. /\ CardsOK(Done(c)) /\ Done(c)[c].pc = "over"
        /\ \A d \in Cards : d # c => Done(c)[d] = card[d]
    BY <1>1, LoadAssumption DEF CardsOK, CardStates, Done, Fresh
  <2>3. /\ ListOK' /\ CardsOK(card') /\ SlotsOK' /\ LineInv' /\ ListInv' /\ FreshOnly
        /\ [Slots!Next]_<<Holding, queue>>
        /\ card'[c] = Done(c)[c]
        /\ \A d \in Cards : d # c => \/ card'[d] = card[d]
                                     \/ card[d].pc = "queued" /\ card'[d].pc = "granted"
    BY <1>1, <2>1, <2>2, SlotBackKeeps DEF InSlot
  <2>4. KeyOK' /\ KeyInv' /\ LockedIsAsked'
    BY <1>1, <2>2, <2>3, KeyKeeps
  <2> QED BY <2>3, <2>4, PartsNext DEF Kept, IInv
<1>3. CASE ~Stale(c)
  <2>1. card' = Moved(c, "fetching") /\ UNCHANGED slotVars
    BY <1>3 DEF Resume
  <2>2. /\ CardsOK(card') /\ card'[c].pc = "fetching" /\ card[c].on = None
        /\ \A d \in Cards : d # c => card'[d] = card[d]
    BY <1>1, <2>1 DEF CardsOK, CardStates, Moved
  <2>3. LineInv' /\ SlotsOK' /\ [Slots!Next]_<<Holding, queue>>
    BY <1>1, <2>1, <2>2, IdleKeeps DEF slotVars, InSlot, SlotsOK, IInv
  <2>4. ListOK' /\ ListInv'
    BY <1>1, <2>2 DEF IInv, ListOK, TypeOK, ListInv, listVars
  <2>5. KeyOK' /\ KeyInv' /\ LockedIsAsked'
    BY <1>1, <2>2, KeyKeeps
  <2>6. FreshOnly
    <3>1. c >= first /\ first' = first
      BY <1>1, <1>3 DEF Stale, listVars, IInv, TypeOK, Cards
    <3> QED BY <2>2, <3>1 DEF FreshOnly
  <2> QED BY <2>2, <2>3, <2>4, <2>5, <2>6, PartsNext DEF Kept, IInv
<1> QED BY <1>2, <1>3

\* The ends of a request that touch neither the key nor the asks.
LEMMA RequestEndKeeps ==
  ASSUME IInv, NEW c \in Cards,
         StillPending(c) \/ StorageBreaks(c) \/ Ends(c) \/ ArrivesOpen(c)
  PROVE  Kept
<1>1. CardsOK(card) /\ card[c].pc = "fetching" /\ UNCHANGED <<listVars, keyVars, form>>
  BY LineFacts DEF IInv, StillPending, StorageBreaks, Ends, ArrivesOpen, Answered
<1>2. card[c] \in CardStates /\ card[c].on = None /\ {MaxPollRetry, MaxStorageRetries} \subseteq Nat
  BY <1>1, LoadAssumption DEF CardsOK
<1>3. ASSUME NEW r \in CardStates, r.pc \in {"sleeping", "decrypting", "over"}, r.on = None,
             Release([card EXCEPT ![c] = r])
      PROVE  Kept
  <2>1. PICK cs : cs = [card EXCEPT ![c] = r]
    BY Zenon
  <2>2. CardsOK(cs) /\ cs[c] = r /\ \A d \in Cards : d # c => cs[d] = card[d]
    BY <1>1, <1>3, <2>1 DEF CardsOK
  <2>3. /\ ListOK' /\ CardsOK(card') /\ SlotsOK' /\ LineInv' /\ ListInv' /\ FreshOnly
        /\ [Slots!Next]_<<Holding, queue>>
        /\ card'[c] = cs[c]
        /\ \A d \in Cards : d # c => \/ card'[d] = card[d]
                                     \/ card[d].pc = "queued" /\ card'[d].pc = "granted"
    <3>1. Release(cs) /\ cs[c].pc \in {"sleeping", "decrypting", "locked", "over"} /\ card[c].pc \in InSlot
      BY <1>1, <1>3, <2>1, <2>2 DEF InSlot
    <3> QED BY <1>1, <2>2, <3>1, SlotBackKeeps
  <2>4. KeyOK' /\ KeyInv' /\ LockedIsAsked'
    BY <1>1, <1>3, <2>2, <2>3, KeyKeeps
  <2> QED BY <2>3, <2>4, PartsNext DEF Kept, IInv
<1>4. CASE StillPending(c)
  <2>1. [card[c] EXCEPT !.pc = "sleeping"] \in CardStates
    BY <1>2 DEF CardStates
  <2>2. Release([card EXCEPT ![c] = [card[c] EXCEPT !.pc = "sleeping"]])
    BY <1>4 DEF StillPending, Answered, Moved
  <2> QED BY <1>2, <1>3, <2>1, <2>2 DEF CardStates
<1>5. CASE ArrivesOpen(c)
  <2>1. [card[c] EXCEPT !.pc = "decrypting"] \in CardStates
    BY <1>2 DEF CardStates
  <2>2. Release([card EXCEPT ![c] = [card[c] EXCEPT !.pc = "decrypting"]])
    BY <1>5 DEF ArrivesOpen, Answered, Moved
  <2> QED BY <1>2, <1>3, <2>1, <2>2 DEF CardStates
<1>6. Fresh("over") \in CardStates /\ Fresh("over").pc = "over" /\ Fresh("over").on = None
  BY <1>2 DEF Fresh, CardStates
<1>7. CASE Ends(c)
  <2>1. Release([card EXCEPT ![c] = Fresh("over")])
    BY <1>7 DEF Ends, Answered, Done
  <2> QED BY <1>3, <1>6, <2>1
<1>8. CASE StorageBreaks(c)
  <2>1. CASE card[c].breaks < MaxStorageRetries
    <3>1. PICK r : r = [card[c] EXCEPT !.pc = "sleeping", !.breaks = card[c].breaks + 1]
      BY Zenon
    <3>2. r \in CardStates /\ r.pc = "sleeping" /\ r.on = None
      <4>1. card[c].breaks + 1 \in 0..MaxStorageRetries
        BY <1>2, <2>1 DEF CardStates
      <4> QED BY <1>2, <3>1, <4>1 DEF CardStates
    <3>3. Release([card EXCEPT ![c] = r])
      BY <1>8, <2>1, <3>1 DEF StorageBreaks, Answered
    <3> QED BY <1>3, <3>2, <3>3
  <2>2. CASE ~(card[c].breaks < MaxStorageRetries)
    <3>1. Release([card EXCEPT ![c] = Fresh("over")])
      BY <1>8, <2>2 DEF StorageBreaks, Answered, Done
    <3> QED BY <1>3, <1>6, <3>1
  <2> QED BY <2>1, <2>2
<1> QED BY <1>4, <1>5, <1>7, <1>8

LEMMA ArrivesLockedKeeps ==
  ASSUME IInv, NEW c \in Cards, ArrivesLocked(c)
  PROVE  Kept
<1>1. PICK a \in Asks :
        /\ \/ key = a /\ UNCHANGED keyVars
           \/ /\ key = None /\ ask[a] = None
              /\ key' = a
              /\ ask' = [ask EXCEPT ![a] = IF saved = None THEN "parked" ELSE saved]
              /\ resolver' = IF saved = None THEN a ELSE resolver
              /\ UNCHANGED saved
        /\ Answered(c, [card EXCEPT ![c] = [card[c] EXCEPT !.pc = "locked", !.on = a]])
  BY DEF ArrivesLocked
<1>2. /\ CardsOK(card) /\ card[c].pc = "fetching" /\ UNCHANGED <<listVars, form>>
      /\ card[c] \in CardStates /\ a # None
  BY <1>1, LineFacts, LoadAssumption DEF IInv, Answered, CardsOK
<1>3. PICK r, cs : r = [card[c] EXCEPT !.pc = "locked", !.on = a] /\ cs = [card EXCEPT ![c] = r]
  BY Zenon
<1>4. r \in CardStates /\ r.pc = "locked" /\ r.on = a
  BY <1>2, <1>3 DEF CardStates
<1>5. CardsOK(cs) /\ cs[c] = r /\ \A d \in Cards : d # c => cs[d] = card[d]
  BY <1>2, <1>3, <1>4 DEF CardsOK
<1>6. Release(cs)
  BY <1>1, <1>3 DEF Answered
<1>7. /\ ListOK' /\ CardsOK(card') /\ SlotsOK' /\ LineInv' /\ ListInv' /\ FreshOnly
      /\ [Slots!Next]_<<Holding, queue>>
      /\ card'[c] = cs[c]
      /\ \A d \in Cards : d # c => \/ card'[d] = card[d]
                                   \/ card[d].pc = "queued" /\ card'[d].pc = "granted"
  BY <1>2, <1>4, <1>5, <1>6, SlotBackKeeps DEF InSlot
<1>8. /\ saved \in {None, "good", "bad"} /\ key \in {None, Known} \cup Asks
      /\ ask \in [Asks -> {None, "good", "bad", "parked"}]
      /\ resolver \in Asks \cup {None} /\ form \in BOOLEAN
      /\ KeyInv /\ LockedIsAsked
  BY DEF IInv, TypeOK
<1>9. /\ KeyOK' /\ KeyInv' /\ ask'[a] # None
      /\ \A b \in Asks : ask[b] # None => ask'[b] # None
  <2>1. CASE key = a /\ UNCHANGED keyVars
    BY <1>2, <1>8, <2>1 DEF KeyOK, KeyInv, keyVars
  <2>2. CASE /\ key = None /\ ask[a] = None
             /\ key' = a
             /\ ask' = [ask EXCEPT ![a] = IF saved = None THEN "parked" ELSE saved]
             /\ resolver' = IF saved = None THEN a ELSE resolver
             /\ UNCHANGED saved
    BY <1>2, <1>8, <2>2, LoadAssumption DEF KeyOK, KeyInv
  <2> QED BY <1>1, <2>1, <2>2
<1>10. LockedIsAsked'
  <2>1. \A d \in Cards : card[d].pc = "locked" => card[d].on \in Asks /\ ask[card[d].on] # None
    BY <1>2, <1>8 DEF LockedIsAsked, CardsOK, CardStates
  <2>2. \A d \in Cards : card'[d].pc = "locked" => ask'[card'[d].on] # None
    BY <1>4, <1>5, <1>7, <1>9, <2>1
  <2> QED BY <2>2 DEF LockedIsAsked
<1> QED BY <1>7, <1>9, <1>10, PartsNext DEF Kept, IInv

LEMMA SleepEndsKeeps ==
  ASSUME IInv, NEW c \in Cards, SleepEnds(c)
  PROVE  Kept
<1>1. /\ CardsOK(card) /\ card[c].pc = "sleeping" /\ UNCHANGED <<listVars, keyVars, form>>
      /\ TypeOK /\ LineInv /\ MaxCards \in Nat
  BY LineFacts DEF IInv, SleepEnds
<1>2. card[c] \in CardStates /\ card[c].on = None /\ MaxPollRetry \in Nat /\ MaxCards >= 1
  BY <1>1, LoadAssumption DEF CardsOK, Cards
<1>3. ListOK'
  BY <1>1 DEF ListOK, TypeOK, listVars
<1>4. CASE ~Stale(c) /\ Left(c)
  <2>1. PICK s, r, cs : /\ s = <<c>> /\ r = [card[c] EXCEPT !.tries = card[c].tries + 1]
                        /\ cs = [card EXCEPT ![c] = r]
    BY Zenon
  <2>2. r \in CardStates /\ r.pc = "sleeping" /\ r.on = None
    BY <1>1, <1>2, <1>4, <2>1 DEF CardStates, Left
  <2>3. CardsOK(cs) /\ cs[c] = r /\ \A d \in Cards : d # c => cs[d] = card[d]
    BY <1>1, <2>1, <2>2 DEF CardsOK
  <2>4. Acquire(s, cs)
    BY <1>4, <2>1 DEF SleepEnds
  <2>5. s \in Seq(Cards) /\ Len(s) = 1 /\ s[1] = c
    BY <2>1
  <2>6. /\ Len(s) <= MaxCards
        /\ \A i, j \in 1..Len(s) : s[i] = s[j] => i = j
        /\ \A i \in 1..Len(s) : s[i] = c
        /\ \A d \in Cards : (\A i \in 1..Len(s) : s[i] # d) => cs[d] = card[d]
    BY <1>1, <1>2, <2>3, <2>5
  <2>7. /\ \A i \in 1..Len(s) : card[s[i]].pc \notin InSlot \cup {"queued"}
        /\ \A i \in 1..Len(s) : cs[s[i]].on = None
    BY <1>1, <2>2, <2>3, <2>6 DEF InSlot
  <2>8. /\ CardsOK(card') /\ active' \in 0..Limit /\ queue' \in Seq(Cards) /\ LineInv'
        /\ \A d \in Cards : \/ card'[d] = card[d]
                            \/ (\E i \in 1..Len(s) : s[i] = d) /\ card'[d].pc \in {"granted", "queued"}
        /\ [Slots!Next]_<<Holding, queue>>
    BY <1>1, <2>3, <2>4, <2>5, <2>6, <2>7, AcquireKeeps
  <2>9. ListInv'
    BY <1>1, <2>6, <2>8 DEF IInv, ListInv, listVars
  <2>10. KeyOK' /\ KeyInv' /\ LockedIsAsked'
    BY <1>1, <2>8, KeyKeeps
  <2>11. FreshOnly
    BY <2>8 DEF FreshOnly
  <2> QED BY <1>3, <2>8, <2>9, <2>10, <2>11, PartsNext DEF Kept, IInv, SlotsOK
<1>5. CASE ~(~Stale(c) /\ Left(c))
  <2>1. card' = [card EXCEPT ![c] = Fresh("over")] /\ UNCHANGED slotVars
    BY <1>5 DEF SleepEnds, Done
  <2>2. Fresh("over") \in CardStates /\ Fresh("over").pc = "over" /\ Fresh("over").on = None
    BY LoadAssumption DEF Fresh, CardStates
  <2>3. CardsOK(card') /\ card'[c] = Fresh("over") /\ \A d \in Cards : d # c => card'[d] = card[d]
    BY <1>1, <2>1, <2>2 DEF CardsOK
  <2>4. LineInv' /\ SlotsOK' /\ [Slots!Next]_<<Holding, queue>>
    BY <1>1, <2>1, <2>2, <2>3, IdleKeeps DEF slotVars, InSlot, SlotsOK
  <2>5. ListInv'
    BY <1>1, <2>2, <2>3 DEF IInv, ListInv, listVars
  <2>6. KeyOK' /\ KeyInv' /\ LockedIsAsked'
    BY <1>1, <2>2, <2>3, KeyKeeps
  <2>7. FreshOnly
    BY <2>2, <2>3 DEF FreshOnly
  <2> QED BY <1>3, <2>3, <2>4, <2>5, <2>6, <2>7, PartsNext DEF Kept, IInv
<1> QED BY <1>4, <1>5

LEMMA DecryptedKeeps ==
  ASSUME IInv, NEW c \in Cards, Decrypted(c)
  PROVE  Kept
<1>1. /\ CardsOK(card) /\ card[c].pc = "decrypting" /\ UNCHANGED <<listVars, slotVars, keyVars, form>>
      /\ card' = [card EXCEPT ![c] = Fresh("over")] /\ TypeOK /\ LineInv
  BY LineFacts DEF IInv, Decrypted, Done
<1>2. Fresh("over") \in CardStates /\ Fresh("over").pc = "over" /\ Fresh("over").on = None
  BY LoadAssumption DEF Fresh, CardStates
<1>3. CardsOK(card') /\ card'[c] = Fresh("over") /\ \A d \in Cards : d # c => card'[d] = card[d]
  BY <1>1, <1>2 DEF CardsOK
<1>4. LineInv' /\ SlotsOK' /\ [Slots!Next]_<<Holding, queue>>
  BY <1>1, <1>2, <1>3, IdleKeeps DEF slotVars, InSlot, SlotsOK
<1>5. ListOK' /\ ListInv'
  BY <1>1, <1>2, <1>3 DEF IInv, ListInv, ListOK, TypeOK, listVars
<1>6. KeyOK' /\ KeyInv' /\ LockedIsAsked'
  BY <1>1, <1>2, <1>3, KeyKeeps
<1>7. FreshOnly
  BY <1>2, <1>3 DEF FreshOnly
<1> QED BY <1>3, <1>4, <1>5, <1>6, <1>7, PartsNext DEF Kept, IInv

\* Steps of the key: the cards that wait for ask a, if any, begin to decrypt.
LEMMA OpenedKeeps ==
  ASSUME IInv, UNCHANGED <<listVars, slotVars>>, NEW cs \in SUBSET Cards,
         \A c \in cs : card[c].pc = "locked", card' = Open(cs)
  PROVE  /\ ListOK' /\ CardsOK(card') /\ SlotsOK' /\ LineInv' /\ ListInv' /\ FreshOnly
         /\ [Slots!Next]_<<Holding, queue>>
         /\ \A c \in Cards : \/ c \in cs /\ card'[c].pc = "decrypting"
                             \/ c \notin cs /\ card'[c] = card[c]
<1>1. CardsOK(card) /\ TypeOK /\ LineInv
  BY LineFacts DEF IInv
<1>2. \A c \in Cards : \/ /\ c \in cs
                          /\ card'[c].pc = "decrypting" /\ card'[c].on = None /\ card'[c] \in CardStates
                       \/ c \notin cs /\ card'[c] = card[c]
  <2>1. \A c \in Cards : card[c] \in CardStates
    BY <1>1 DEF CardsOK
  <2>2. \A c \in Cards : card'[c] = IF c \in cs THEN [card[c] EXCEPT !.pc = "decrypting", !.on = None]
                                                ELSE card[c]
    BY DEF Open
  <2>3. ASSUME NEW c \in cs
        PROVE  /\ card'[c].pc = "decrypting" /\ card'[c].on = None /\ card'[c] \in CardStates
    <3>1. card[c] \in CardStates /\ card'[c] = [card[c] EXCEPT !.pc = "decrypting", !.on = None]
      BY <2>1, <2>2
    <3> QED BY <3>1 DEF CardStates
  <2> QED BY <2>2, <2>3
<1>3. CardsOK(card')
  <2>1. \A c \in Cards : card'[c] \in CardStates
    BY <1>1, <1>2 DEF CardsOK
  <2>2. card' \in [Cards -> CardStates]
    BY <2>1 DEF Open
  <2> QED BY <1>1, <1>2, <2>2 DEF CardsOK
<1>4. LineInv' /\ SlotsOK' /\ [Slots!Next]_<<Holding, queue>>
  BY <1>1, <1>2, IdleKeeps DEF slotVars, InSlot, SlotsOK
<1>5. ListOK' /\ ListInv'
  BY <1>2 DEF IInv, ListInv, ListOK, TypeOK, listVars
<1>6. FreshOnly
  BY <1>2 DEF FreshOnly
<1> QED BY <1>2, <1>3, <1>4, <1>5, <1>6

LEMMA AskKeeps ==
  ASSUME IInv, NEW a \in Asks, AskSucceeds(a) \/ AskFails(a)
  PROVE  Kept
<1>1. /\ saved \in {None, "good", "bad"} /\ key \in {None, Known} \cup Asks
      /\ ask \in [Asks -> {None, "good", "bad", "parked"}]
      /\ resolver \in Asks \cup {None} /\ form \in BOOLEAN
      /\ KeyInv /\ LockedIsAsked /\ CardsOK(card) /\ a # None /\ "parked" # None /\ Known \notin Asks
  BY LineFacts, LoadAssumption DEF IInv, TypeOK
<1>2. \A c \in Cards : card[c].pc = "locked" => card[c].on \in Asks
  BY <1>1 DEF CardsOK, CardStates
<1>3. CASE AskSucceeds(a)
  <2>1. /\ UNCHANGED <<listVars, slotVars>>
        /\ ask' = [ask EXCEPT ![a] = None] /\ key' = IF key = a THEN Known ELSE key
        /\ UNCHANGED <<saved, resolver, form>>
        /\ card' = Open(Locked(a))
    BY <1>3 DEF AskSucceeds, Opened
  <2>2. Locked(a) \in SUBSET Cards /\ \A c \in Cards : c \in Locked(a) <=> card[c].pc = "locked" /\ card[c].on = a
    BY DEF Locked
  <2>3. /\ ListOK' /\ CardsOK(card') /\ SlotsOK' /\ LineInv' /\ ListInv' /\ FreshOnly
        /\ [Slots!Next]_<<Holding, queue>>
        /\ \A c \in Cards : \/ c \in Locked(a) /\ card'[c].pc = "decrypting"
                            \/ c \notin Locked(a) /\ card'[c] = card[c]
    BY <2>1, <2>2, OpenedKeeps
  <2>4. KeyOK' /\ KeyInv'
    BY <1>1, <2>1 DEF KeyOK, KeyInv
  <2>5. LockedIsAsked'
    BY <1>1, <1>2, <2>1, <2>2, <2>3 DEF LockedIsAsked
  <2> QED BY <2>3, <2>4, <2>5, PartsNext DEF Kept, IInv
<1>4. CASE AskFails(a)
  <2>1. /\ UNCHANGED <<listVars, card, slotVars, key, form>>
        /\ saved' = None /\ ask' = [ask EXCEPT ![a] = "parked"] /\ resolver' = a
    BY <1>4 DEF AskFails
  <2>2. ListOK' /\ CardsOK(card') /\ ListInv' /\ FreshOnly
    BY <1>1, <2>1 DEF IInv, TypeOK, ListOK, ListInv, FreshOnly, listVars
  <2>3. LineInv' /\ SlotsOK' /\ [Slots!Next]_<<Holding, queue>>
    BY <2>1, IdleKeeps DEF IInv, slotVars, SlotsOK
  <2>4. KeyOK' /\ KeyInv'
    BY <1>1, <2>1 DEF KeyOK, KeyInv
  <2>5. LockedIsAsked'
    BY <1>1, <1>2, <2>1 DEF LockedIsAsked
  <2> QED BY <2>2, <2>3, <2>4, <2>5, PartsNext DEF Kept, IInv
<1> QED BY <1>3, <1>4

LEMMA UnlockKeeps ==
  ASSUME IInv, Unlock
  PROVE  Kept
<1>1. /\ saved \in {None, "good", "bad"} /\ key \in {None, Known} \cup Asks
      /\ ask \in [Asks -> {None, "good", "bad", "parked"}]
      /\ KeyInv /\ LockedIsAsked /\ CardsOK(card) /\ None \notin Asks /\ Known \notin Asks
  BY LineFacts, LoadAssumption DEF IInv, TypeOK
<1>2. \A c \in Cards : card[c].pc = "locked" => card[c].on \in Asks
  BY <1>1 DEF CardsOK, CardStates
<1>3. /\ UNCHANGED <<listVars, slotVars>>
      /\ form' = FALSE /\ saved' \in {"good", saved} /\ key' = Known /\ resolver' = None
      /\ ask' = [a \in Asks |-> IF a = resolver THEN None ELSE ask[a]]
      /\ card' = Open(Locked(resolver))
  BY DEF Unlock, Opened
<1>4. /\ Locked(resolver) \in SUBSET Cards
      /\ \A c \in Cards : c \in Locked(resolver) <=> card[c].pc = "locked" /\ card[c].on = resolver
  BY DEF Locked
<1>5. /\ ListOK' /\ CardsOK(card') /\ SlotsOK' /\ LineInv' /\ ListInv' /\ FreshOnly
      /\ [Slots!Next]_<<Holding, queue>>
      /\ \A c \in Cards : \/ c \in Locked(resolver) /\ card'[c].pc = "decrypting"
                          \/ c \notin Locked(resolver) /\ card'[c] = card[c]
  BY <1>3, <1>4, OpenedKeeps
<1>6. KeyOK' /\ KeyInv'
  BY <1>1, <1>3 DEF KeyOK, KeyInv
<1>7. LockedIsAsked'
  BY <1>1, <1>2, <1>3, <1>4, <1>5 DEF LockedIsAsked
<1> QED BY <1>5, <1>6, <1>7, PartsNext DEF Kept, IInv

\* The user submits the form, forgets the passphrase, or nothing happens.
LEMMA QuietKeeps ==
  ASSUME IInv, Submit \/ Forget \/ UNCHANGED vars
  PROVE  Kept
<1>1. UNCHANGED <<listVars, card, slotVars, ask, resolver>>
  BY DEF Submit, Forget, vars, keyVars
<1>2. ListOK' /\ CardsOK(card') /\ ListInv' /\ FreshOnly
  BY <1>1, LineFacts DEF IInv, TypeOK, ListOK, ListInv, FreshOnly, listVars
<1>3. LineInv' /\ SlotsOK' /\ [Slots!Next]_<<Holding, queue>>
  BY <1>1, IdleKeeps DEF IInv, slotVars, SlotsOK
<1>4. saved' \in {None, saved} /\ key' \in {None, key} /\ form' \in BOOLEAN
  BY DEF Submit, Forget, vars, keyVars, IInv, TypeOK
<1>5. KeyOK' /\ KeyInv'
  BY <1>1, <1>4, LoadAssumption DEF IInv, TypeOK, KeyOK, KeyInv
<1>6. LockedIsAsked'
  BY <1>1 DEF IInv, LockedIsAsked
<1> QED BY <1>2, <1>3, <1>5, <1>6, PartsNext DEF Kept, IInv

LEMMA InitKeeps == Init => IInv /\ Slots!Init
<1> SUFFICES ASSUME Init PROVE IInv /\ Slots!Init
  OBVIOUS
<1>1. Fresh("none") \in CardStates /\ Fresh("none").pc = "none" /\ Fresh("none").on = None
  BY LoadAssumption DEF Fresh, CardStates
<1>2. \A c \in Cards : card[c] = Fresh("none")
  BY DEF Init
<1>3. TypeOK
  <2>1. ListOK /\ SlotsOK /\ KeyOK
    <3>1. MaxCards \in Nat /\ Limit \in Nat /\ SavedAtStart \subseteq {None, "good", "bad"}
      BY LoadAssumption
    <3>2. ListOK /\ SlotsOK
      BY <3>1 DEF Init, ListOK, SlotsOK
    <3>3. KeyOK
      BY <3>1 DEF Init, KeyOK
    <3> QED BY <3>2, <3>3
  <2>2. CardsOK(card)
    BY <1>1, <1>2 DEF Init, CardsOK
  <2> QED BY <2>1, <2>2, Parts
<1>4. Holding = {} /\ queue = <<>> /\ active = 0
  BY <1>1, <1>2 DEF Init, Holding
<1>5. LineInv
  <2>1. Cardinality(Holding) = 0 /\ Limit \in Nat
    BY <1>4, FS_EmptySet, LoadAssumption
  <2>2. Sound(Cards, Holding, queue, Limit)
    BY <1>4, <2>1 DEF Sound
  <2> QED BY <1>1, <1>2, <1>4, <2>1, <2>2 DEF LineInv
<1>6. ListInv /\ KeyInv /\ LockedIsAsked
  BY <1>1, <1>2, LoadAssumption DEF Init, ListInv, KeyInv, LockedIsAsked
<1> QED BY <1>3, <1>4, <1>5, <1>6 DEF IInv, Slots!Init

LEMMA NextKeeps == IInv /\ [Next]_vars => Kept
<1> SUFFICES ASSUME IInv, [Next]_vars PROVE Kept
  OBVIOUS
<1>1. ASSUME NEW n \in 0..MaxCards, Render(n) PROVE Kept
  BY <1>1, RenderKeeps
<1>2. CASE Configured
  BY <1>2, ConfigKeeps DEF Configured
<1>3. ASSUME NEW c \in Cards, CardStep(c) PROVE Kept
  BY <1>3, ResumeKeeps, RequestEndKeeps, ArrivesLockedKeeps, SleepEndsKeeps, DecryptedKeeps DEF CardStep
<1>4. ASSUME NEW a \in Asks, AskStep(a) PROVE Kept
  BY <1>4, AskKeeps DEF AskStep
<1>5. CASE Unlock
  BY <1>5, UnlockKeeps
<1>6. CASE Submit \/ Forget \/ UNCHANGED vars
  BY <1>6, QuietKeeps
<1> QED BY <1>1, <1>2, <1>3, <1>4, <1>5, <1>6 DEF Next, UserStep

-----------------------------------------------------------------------------
LEMMA Invariant == Spec => []IInv
<1>1. IInv /\ [Next]_vars => IInv'
  BY NextKeeps DEF Kept
<1> QED BY InitKeeps, <1>1, PTL DEF Spec

\* The page's variables keep their types: in particular no card polls more often
\* than MAX_POLL_RETRY allows, and no slot is counted that is not there.
THEOREM LoadTypeCorrect == Spec => []TypeOK
<1>1. IInv => TypeOK
  BY DEF IInv
<1> QED BY Invariant, <1>1, PTL

\* createLimiter()'s counter and queue of promises implement SlotLine, over every
\* way a load ends, retries and lists that are replaced.
THEOREM LimiterImplementsLine == Spec => SlotsImplemented
<1>1. IInv /\ [Next]_vars => [Slots!Next]_<<Holding, queue>>
  BY NextKeeps DEF Kept
<1> QED BY InitKeeps, Invariant, <1>1, PTL DEF Spec, SlotsImplemented, Slots!Spec

\* No card of a list that was replaced starts a request.
THEOREM NoStaleRequest == Spec => StaleStartNothing
<1>1. IInv /\ [Next]_vars =>
        [\A c \in Cards : card[c].pc # "fetching" /\ card'[c].pc = "fetching" => c >= first']_vars
  BY NextKeeps DEF Kept, FreshOnly
<1> QED BY Invariant, <1>1, PTL DEF Spec, StaleStartNothing

\* A card that waits for the key waits for an ask that is still to be settled.
THEOREM LockedCardsAreAsked == Spec => []LockedIsAsked
<1>1. IInv => LockedIsAsked
  BY DEF IInv
<1> QED BY Invariant, <1>1, PTL

\* Never more than IMAGE_FETCH_CONCURRENCY downloads at a time, and no card waits in
\* line while a slot is free: what SlotLine promises, carried over.
THEOREM LoadsLimited == Spec => []Slots!SlotsKept
<1>1. IInv => Slots!SlotsKept
  BY SameCount DEF IInv, LineInv, Sound, Slots!SlotsKept
<1> QED BY Invariant, <1>1, PTL

-----------------------------------------------------------------------------
(***************************************************************************)
(* Lists are downloaded front to back. What makes it inductive: the cards  *)
(* that wait for their first slot stand in line in the order of the list,  *)
(* whoever stands between them; and of a configured page every rendered    *)
(* card is in line, if it has not had a slot.                              *)
(***************************************************************************)
\* Of cards cs, card c stands in line for its first slot.
Unserved(cs, c) == cs[c].pc = "queued" /\ cs[c].tries = 0

\* In line l the unserved cards stand in the order of the list.
Lined(l, cs) ==
  \A i, j \in 1..Len(l) : i < j /\ Unserved(cs, l[i]) /\ Unserved(cs, l[j]) => l[i] < l[j]

OrderInv ==
  /\ Lined(queue, card)
  /\ config = "known" => \A c \in Cards : c <= made => card[c].pc # "none"
  /\ \A c \in Cards : card[c].pc \in {"none", "config"} => card[c].tries = 0
  /\ FrontToBack

\* A card of a configured page that has had no slot stands in line.
LEMMA UnservedInLine ==
  ASSUME IInv, OrderInv, config = "known", NEW c \in Cards, c <= made, ~HadSlot(c)
  PROVE  Unserved(card, c) /\ \E i \in 1..Len(queue) : queue[i] = c
<1>1. card[c] \in CardStates /\ MaxPollRetry \in Nat /\ card[c].pc # "none"
  BY LineFacts, LoadAssumption DEF IInv, OrderInv, CardsOK
<1>2. card[c].pc = "queued" /\ card[c].tries = 0
  BY <1>1 DEF HadSlot, CardStates
<1>3. \E i \in 1..Len(queue) : queue[i] = c
  BY <1>2 DEF IInv, LineInv
<1> QED BY <1>2, <1>3 DEF Unserved

\* A step within a list that gives nobody but the head of the line a first slot, and
\* puts nobody in line who has not had one.
LEMMA OrderFrame ==
  ASSUME IInv, OrderInv, UNCHANGED listVars,
         \A c \in Cards : card'[c].pc = "none" => card[c].pc = "none",
         \A c \in Cards : card'[c].pc \in {"none", "config"} => card'[c] = card[c],
         \A c \in Cards : Unserved(card', c) => Unserved(card, c),
         \A c \in Cards : HadSlot(c) => HadSlot(c)',
         \A c \in Cards : HadSlot(c)' /\ ~HadSlot(c) => queue # <<>> /\ c = queue[1],
         \A i \in 1..Len(queue') : queue'[i] \in Cards,
         \A i, j \in 1..Len(queue') :
            i < j /\ Unserved(card', queue'[i]) /\ Unserved(card', queue'[j])
              => \E k, m \in 1..Len(queue) : k < m /\ queue[k] = queue'[i] /\ queue[m] = queue'[j]
  PROVE  OrderInv'
<1>1. Lined(queue', card')
  <2>1. SUFFICES ASSUME NEW i \in 1..Len(queue'), NEW j \in 1..Len(queue'), i < j,
                        Unserved(card', queue'[i]), Unserved(card', queue'[j])
                 PROVE  queue'[i] < queue'[j]
    BY DEF Lined
  <2>2. PICK k \in 1..Len(queue), m \in 1..Len(queue) :
           k < m /\ queue[k] = queue'[i] /\ queue[m] = queue'[j]
    BY <2>1
  <2>3. Unserved(card, queue[k]) /\ Unserved(card, queue[m])
    BY <2>1, <2>2
  <2> QED BY <2>2, <2>3 DEF OrderInv, Lined
<1>2. config' = "known" => \A c \in Cards : c <= made' => card'[c].pc # "none"
  BY DEF OrderInv, listVars
<1>3. \A c \in Cards : card'[c].pc \in {"none", "config"} => card'[c].tries = 0
  BY DEF OrderInv
<1>4. FrontToBack'
  <2>1. SUFFICES ASSUME config = "known", NEW c \in first..made, NEW e \in first..made,
                        c < e, HadSlot(e)', ~HadSlot(c)'
                 PROVE  FALSE
    BY DEF FrontToBack, listVars
  <2>2. c \in Cards /\ e \in Cards /\ c <= made /\ e <= made
    <3>1. MaxCards \in Nat /\ made \in 0..MaxCards /\ first \in 1..(MaxCards + 1)
      BY LoadAssumption DEF IInv, TypeOK
    <3> QED BY <3>1 DEF Cards
  <2>3. ~HadSlot(c)
    BY <2>1, <2>2
  <2>4. ~HadSlot(e)
    BY <2>1, <2>3 DEF OrderInv, FrontToBack
  <2>5. queue # <<>> /\ e = queue[1]
    BY <2>1, <2>2, <2>4
  <2>6. Unserved(card, e) /\ Unserved(card, c)
    BY <2>1, <2>2, <2>3, <2>4, UnservedInLine
  <2>7. PICK i \in 1..Len(queue) : queue[i] = c
    BY <2>1, <2>2, <2>3, UnservedInLine
  <2>8. 1 \in 1..Len(queue) /\ 1 < i
    BY <2>1, <2>5, <2>7
  <2>9. queue[1] < queue[i]
    BY <2>5, <2>6, <2>7, <2>8 DEF OrderInv, Lined
  <2> QED BY <2>1, <2>2, <2>5, <2>7, <2>9 DEF Cards
<1> QED BY <1>1, <1>2, <1>3, <1>4 DEF OrderInv

\* A step that leaves the line alone.
LEMMA OrderStill ==
  ASSUME IInv, OrderInv, UNCHANGED listVars, UNCHANGED queue,
         \A c \in Cards : \/ card'[c] = card[c]
                          \/ HadSlot(c) /\ card'[c].pc \notin {"none", "config", "queued"}
  PROVE  OrderInv'
<1>1. queue \in Seq(Cards)
  BY DEF IInv, TypeOK
<1>2. \A c \in Cards : HadSlot(c) <=> HadSlot(c)'
  BY DEF HadSlot
<1>3. \A c \in Cards : Unserved(card', c) => Unserved(card, c)
  BY DEF Unserved
<1>4. \A i \in 1..Len(queue') : queue'[i] \in Cards
  BY <1>1
<1> QED BY <1>2, <1>3, <1>4, OrderFrame

\* A card gives its slot back.
LEMMA OrderRelease ==
  ASSUME IInv, OrderInv, UNCHANGED listVars,
         NEW c \in Cards, HadSlot(c), CardsOK(card'),
         NEW cs, cs \in [Cards -> CardStates], cs[c].pc \notin {"none", "config", "queued"},
         \A d \in Cards : d # c => cs[d] = card[d],
         Release(cs)
  PROVE  OrderInv'
<1>1. queue \in Seq(Cards) /\ \A d \in Cards : card[d] \in CardStates /\ cs[d] \in CardStates
  BY LineFacts DEF IInv, CardsOK
<1>2. CASE queue = <<>>
  <2>1. card' = cs /\ queue' = queue
    BY <1>2 DEF Release
  <2> QED BY <2>1, OrderStill
<1>3. CASE queue # <<>>
  <2>1. /\ queue' = Tail(queue) /\ Head(queue) = queue[1] /\ queue[1] \in Cards
        /\ Len(queue) \in Nat /\ Len(queue) >= 1
    BY <1>1, <1>3 DEF Release
  <2>2. card' = [cs EXCEPT ![queue[1]].pc = "granted"]
    BY <1>3, <2>1 DEF Release
  <2>3. /\ card'[queue[1]].pc = "granted"
        /\ \A d \in Cards : d # queue[1] => card'[d] = cs[d]
    BY <1>1, <2>1, <2>2 DEF CardStates
  <2>4. \A d \in Cards : \/ card'[d] = card[d]
                         \/ HadSlot(d) /\ card'[d].pc \notin {"none", "config", "queued"}
                         \/ d = queue[1] /\ card'[d].pc = "granted"
    BY <2>3
  <2>5. \A d \in Cards : Unserved(card', d) => Unserved(card, d)
    BY <2>4 DEF Unserved
  <2>6. /\ \A d \in Cards : HadSlot(d) => HadSlot(d)'
        /\ \A d \in Cards : HadSlot(d)' /\ ~HadSlot(d) => d = queue[1]
    BY <2>4 DEF HadSlot
  <2>7. \A i \in 1..Len(queue') : i + 1 \in 1..Len(queue) /\ queue'[i] = queue[i + 1]
    BY <1>1, <1>3, <2>1
  <2>8. \A i, j \in 1..Len(queue') : i < j =>
          \E k, m \in 1..Len(queue) : k < m /\ queue[k] = queue'[i] /\ queue[m] = queue'[j]
    <3>1. SUFFICES ASSUME NEW i \in 1..Len(queue'), NEW j \in 1..Len(queue'), i < j
                   PROVE  \E k, m \in 1..Len(queue) : k < m /\ queue[k] = queue'[i] /\ queue[m] = queue'[j]
      OBVIOUS
    <3>2. i + 1 < j + 1
      BY <3>1
    <3> QED BY <2>7, <3>2
  <2>9. \A i \in 1..Len(queue') : queue'[i] \in Cards
    BY <1>1, <2>7
  <2>10. /\ \A d \in Cards : card'[d].pc = "none" => card[d].pc = "none"
         /\ \A d \in Cards : card'[d].pc \in {"none", "config"} => card'[d] = card[d]
    BY <2>4
  <2> QED BY <1>3, <2>5, <2>6, <2>8, <2>9, <2>10, OrderFrame
<1> QED BY <1>2, <1>3

\* The first room of the cards s get slots, the others stand at the end of the line.
Placed(s, room, cs) ==
  /\ queue' = queue \o SubSeq(s, room + 1, Len(s))
  /\ \A i \in 1..Len(s) :
       \/ i <= room /\ card'[s[i]].pc = "granted"
       \/ ~(i <= room) /\ card'[s[i]].pc = "queued" /\ card'[s[i]].tries = cs[s[i]].tries
  /\ \A c \in Cards : (\A i \in 1..Len(s) : s[i] # c) => card'[c] = cs[c]

\* Where the cards s find themselves after asking for a slot.
LEMMA AcquirePlaces ==
  ASSUME IInv, NEW s \in Seq(Cards), \A i, j \in 1..Len(s) : s[i] = s[j] => i = j,
         NEW cs, cs \in [Cards -> CardStates], Acquire(s, cs)
  PROVE  \E room \in 0..Len(s) : Placed(s, room, cs)
<1>0. PICK room : room = IF Len(s) <= Limit - active THEN Len(s) ELSE Limit - active
  BY Zenon
<1>1. room \in 0..Len(s)
  BY <1>0, LineFacts DEF IInv
<1>2. PICK served, left : served = {s[i] : i \in 1..room} /\ left = {s[i] : i \in (room + 1)..Len(s)}
  BY Zenon
<1>3. /\ queue' = queue \o SubSeq(s, room + 1, Len(s))
      /\ card' = [c \in Cards |-> IF c \in served THEN [cs[c] EXCEPT !.pc = "granted"]
                                  ELSE IF c \in left THEN [cs[c] EXCEPT !.pc = "queued"]
                                  ELSE cs[c]]
  BY <1>0, <1>2 DEF Acquire
<1>4. ASSUME NEW i \in 1..Len(s)
      PROVE  IF i <= room THEN s[i] \in served ELSE s[i] \notin served /\ s[i] \in left
  <2>1. CASE i <= room
    BY <1>1, <1>2, <2>1
  <2>2. CASE ~(i <= room)
    <3>1. i \in (room + 1)..Len(s) /\ \A k \in 1..room : k \in 1..Len(s) /\ k # i
      BY <1>1, <2>2
    <3> QED BY <1>2, <2>2, <3>1
  <2> QED BY <2>1, <2>2
<1>5. ASSUME NEW c \in Cards, \A i \in 1..Len(s) : s[i] # c PROVE c \notin served \cup left
  BY <1>1, <1>2, <1>5
<1>6. \A i \in 1..Len(s) : IF i <= room THEN card'[s[i]].pc = "granted"
                           ELSE card'[s[i]].pc = "queued" /\ card'[s[i]].tries = cs[s[i]].tries
  BY <1>3, <1>4 DEF CardStates
<1>7. \A c \in Cards : (\A i \in 1..Len(s) : s[i] # c) => card'[c] = cs[c]
  BY <1>3, <1>5
<1> QED BY <1>1, <1>3, <1>6, <1>7 DEF Placed

\* Where the cards in the queue come from when some of s have joined it.
LEMMA QueueGrows ==
  ASSUME queue \in Seq(Cards), NEW s \in Seq(Cards), NEW room \in 0..Len(s),
         queue' = queue \o SubSeq(s, room + 1, Len(s))
  PROVE  /\ Len(queue) \in Nat /\ Len(queue') \in Nat
         /\ \A i \in 1..Len(queue') :
               \/ i \in 1..Len(queue) /\ queue'[i] = queue[i]
               \/ /\ i \notin 1..Len(queue)
                  /\ \E k \in 1..Len(s) : k = room + (i - Len(queue)) /\ ~(k <= room) /\ queue'[i] = s[k]
<1>1. PICK m : m = queue \o SubSeq(s, room + 1, Len(s))
  BY Zenon
<1>2. /\ m \in Seq(Cards)
      /\ \A i \in 1..Len(m) :
            \/ i \in 1..Len(queue) /\ m[i] = queue[i]
            \/ /\ i \notin 1..Len(queue)
               /\ room + (i - Len(queue)) \in 1..Len(s) /\ room + (i - Len(queue)) \notin 1..room
               /\ m[i] = s[room + (i - Len(queue))]
  BY <1>1, JoinPositions, SMTT(30)
<1>3. ASSUME NEW i \in 1..Len(m), i \notin 1..Len(queue)
      PROVE  \E k \in 1..Len(s) : k = room + (i - Len(queue)) /\ ~(k <= room) /\ m[i] = s[k]
  <2>1. PICK k : k = room + (i - Len(queue))
    BY Zenon
  <2>2. k \in 1..Len(s) /\ k \notin 1..room /\ m[i] = s[k]
    BY <1>2, <1>3, <2>1
  <2>3. room \in Nat
    OBVIOUS
  <2> QED BY <2>1, <2>2, <2>3
<1>4. Len(queue) \in Nat /\ Len(m) \in Nat
  BY <1>2
<1>5. queue' = m
  BY <1>1
<1> QED BY <1>2, <1>3, <1>4, <1>5, Zenon

\* The line new is the line old, of cards before lo, and behind it those of the
\* cards s, numbered from lo on, that come after the first room.
Grown(old, new, cards, cs, s, lo, room) ==
  /\ lo \in Int /\ room \in Int /\ Len(old) \in Nat /\ Len(new) \in Nat
  /\ \A i \in 1..Len(s) : s[i] = lo + i - 1
  /\ \A i \in 1..Len(old) : old[i] \in Nat /\ old[i] < lo /\ cs[old[i]] = cards[old[i]]
  /\ \A i \in 1..Len(new) :
        \/ i \in 1..Len(old) /\ new[i] = old[i]
        \/ /\ i \notin 1..Len(old)
           /\ \E k \in 1..Len(s) : k = room + (i - Len(old)) /\ ~(k <= room) /\ new[i] = s[k]

\* A line in order is still in order when it has grown by cards in order.
LEMMA GrownLined ==
  ASSUME NEW old, NEW new, NEW cards, NEW cs, NEW s, NEW lo, NEW room,
         Lined(old, cards), Grown(old, new, cards, cs, s, lo, room)
  PROVE  Lined(new, cs)
<1>0. /\ lo \in Int /\ room \in Int /\ Len(old) \in Nat /\ Len(new) \in Nat
      /\ \A i \in 1..Len(s) : s[i] = lo + i - 1
      /\ \A i \in 1..Len(old) : old[i] \in Nat /\ old[i] < lo /\ cs[old[i]] = cards[old[i]]
      /\ \A i \in 1..Len(new) :
            \/ i \in 1..Len(old) /\ new[i] = old[i]
            \/ /\ i \notin 1..Len(old)
               /\ \E k \in 1..Len(s) : k = room + (i - Len(old)) /\ ~(k <= room) /\ new[i] = s[k]
  BY DEF Grown
<1> SUFFICES ASSUME NEW i \in 1..Len(new), NEW j \in 1..Len(new), i < j,
                    Unserved(cs, new[i]), Unserved(cs, new[j])
             PROVE  new[i] < new[j]
  BY DEF Lined
<1>1. i \in Nat /\ j \in Nat
  BY <1>0
<1>2. CASE i \in 1..Len(old) /\ j \in 1..Len(old)
  <2>1. new[i] = old[i] /\ new[j] = old[j]
    BY <1>0, <1>2
  <2>2. Unserved(cards, old[i]) /\ Unserved(cards, old[j])
    BY <1>0, <1>2, <2>1 DEF Unserved
  <2> QED BY <1>2, <2>1, <2>2 DEF Lined
<1>3. CASE i \in 1..Len(old) /\ j \notin 1..Len(old)
  <2>1. new[i] = old[i] /\ old[i] \in Nat /\ old[i] < lo
    BY <1>0, <1>3
  <2>2. PICK k \in 1..Len(s) : new[j] = s[k]
    BY <1>0, <1>3
  <2>3. s[k] = lo + k - 1 /\ k \in Nat /\ k >= 1
    BY <1>0
  <2> QED BY <1>0, <2>1, <2>2, <2>3
<1>4. CASE i \notin 1..Len(old)
  <2>1. j \notin 1..Len(old)
    BY <1>0, <1>1, <1>4
  <2>2. PICK k \in 1..Len(s) : k = room + (i - Len(old)) /\ new[i] = s[k]
    BY <1>0, <1>4
  <2>3. PICK m \in 1..Len(s) : m = room + (j - Len(old)) /\ new[j] = s[m]
    BY <1>0, <2>1
  <2>4. s[k] = lo + k - 1 /\ s[m] = lo + m - 1 /\ k \in Int /\ m \in Int
    BY <1>0
  <2>5. k < m
    BY <1>0, <1>1, <2>2, <2>3
  <2> QED BY <1>0, <2>2, <2>3, <2>4, <2>5
<1> QED BY <1>2, <1>3, <1>4

\* The cards lo..hi come to the limiter, in order, and make the end of the list that
\* begins at lo or later.
LEMMA OrderArrive ==
  ASSUME IInv, OrderInv,
         NEW lo \in 1..(MaxCards + 1), NEW hi \in 0..MaxCards, lo <= hi + 1,
         \A c \in Cards : c \in lo..hi => card[c].pc \in {"none", "config"},
         \A c \in Cards : c < lo => card[c].pc # "none",
         \A c \in Cards : card[c].pc = "queued" => c < lo,
         Acquire(Numbers(lo, hi), card),
         made' = hi, first' \in Nat, lo <= first'
  PROVE  OrderInv'
<1>1. /\ MaxCards \in Nat /\ queue \in Seq(Cards) /\ card \in [Cards -> CardStates]
      /\ \A c \in Cards : card[c].pc = "queued" <=> \E i \in 1..Len(queue) : queue[i] = c
  BY LineFacts DEF IInv, TypeOK, LineInv
<1>2. PICK s : s = Numbers(lo, hi)
  BY Zenon
<1>3. /\ InOrder(s, lo, hi) /\ Len(s) = hi - lo + 1
      /\ \A i \in 1..Len(s) : s[i] = lo + i - 1
  BY <1>1, <1>2, NumbersInOrder DEF Numbers
<1>4. \A c \in Cards : c \in lo..hi <=> \E i \in 1..Len(s) : s[i] = c
  <2>1. ASSUME NEW c \in Cards, c \in lo..hi PROVE \E i \in 1..Len(s) : s[i] = c
    <3>1. c - lo + 1 \in 1..Len(s) /\ lo + (c - lo + 1) - 1 = c
      BY <1>3, <2>1
    <3> QED BY <1>3, <3>1
  <2>2. \A i \in 1..Len(s) : s[i] \in lo..hi
    BY <1>3 DEF InOrder
  <2> QED BY <2>1, <2>2
<1>5. PICK room \in 0..Len(s) : Placed(s, room, card)
  <2>1. Acquire(s, card) /\ s \in Seq(Cards) /\ \A i, j \in 1..Len(s) : s[i] = s[j] => i = j
    BY <1>2, <1>3 DEF InOrder
  <2> QED BY <1>1, <2>1, AcquirePlaces
<1>6. /\ \A c \in Cards : c \notin lo..hi => card'[c] = card[c]
      /\ \A i \in 1..Len(s) : s[i] \in Cards /\ card[s[i]].tries = 0
  <2>1. \A c \in Cards : c \notin lo..hi => \A i \in 1..Len(s) : s[i] # c
    BY <1>4
  <2>2. \A i \in 1..Len(s) : s[i] \in Cards /\ s[i] \in lo..hi
    BY <1>3 DEF InOrder
  <2>3. \A i \in 1..Len(s) : card[s[i]].tries = 0
    BY <2>2 DEF OrderInv
  <2> QED BY <1>5, <2>1, <2>2, <2>3 DEF Placed
<1>7. /\ Len(queue) \in Nat /\ Len(queue') \in Nat
      /\ \A i \in 1..Len(queue') :
            \/ i \in 1..Len(queue) /\ queue'[i] = queue[i]
            \/ /\ i \notin 1..Len(queue)
               /\ \E k \in 1..Len(s) : k = room + (i - Len(queue)) /\ ~(k <= room) /\ queue'[i] = s[k]
  <2>1. /\ s \in Seq(Cards) /\ queue \in Seq(Cards) /\ room \in 0..Len(s)
        /\ queue' = queue \o SubSeq(s, room + 1, Len(s))
    BY <1>1, <1>3, <1>5 DEF InOrder, Placed
  <2> QED BY <2>1, QueueGrows
<1>8. \A i \in 1..Len(queue) : queue[i] \in Cards /\ queue[i] \notin lo..hi /\ card'[queue[i]] = card[queue[i]]
  BY <1>1, <1>6
<1>9. \A i \in 1..Len(queue) : queue[i] \in Nat /\ queue[i] < lo
  BY <1>1, <1>8 DEF Cards
<1>10. Lined(queue', card')
  <2>1. Lined(queue, card) /\ lo \in Int /\ room \in Int
    BY <1>5 DEF OrderInv
  <2>2. Grown(queue, queue', card, card', s, lo, room)
    BY <1>3, <1>7, <1>8, <1>9, <2>1 DEF Grown
  <2> QED BY <2>1, <2>2, GrownLined
<1>11. config' = "known" => \A c \in Cards : c <= made' => card'[c].pc # "none"
  <2>1. SUFFICES ASSUME NEW c \in Cards, c <= hi PROVE card'[c].pc # "none"
    OBVIOUS
  <2>2. CASE c < lo
    <3>1. c \notin lo..hi
      BY <2>2 DEF Cards
    <3> QED BY <1>6, <2>2, <3>1
  <2>3. CASE ~(c < lo)
    <3>1. c \in lo..hi
      BY <2>1, <2>3 DEF Cards
    <3> QED BY <1>4, <1>5, <3>1 DEF Placed
  <2> QED BY <2>2, <2>3
<1>12. \A c \in Cards : card'[c].pc \in {"none", "config"} => card'[c].tries = 0
  <2>1. SUFFICES ASSUME NEW c \in Cards, card'[c].pc \in {"none", "config"} PROVE card'[c].tries = 0
    OBVIOUS
  <2>2. CASE c \notin lo..hi
    <3>1. card'[c] = card[c]
      BY <1>6, <2>2
    <3> QED BY <2>1, <3>1 DEF OrderInv
  <2>3. CASE c \in lo..hi
    <3>1. PICK i \in 1..Len(s) : s[i] = c
      BY <1>4, <2>3
    <3>2. card'[s[i]].pc = "granted" \/ card'[s[i]].pc = "queued"
      BY <1>5 DEF Placed
    <3> QED BY <2>1, <3>1, <3>2
  <2> QED BY <2>2, <2>3
<1>13. FrontToBack'
  <2>1. SUFFICES ASSUME NEW c \in first'..hi, NEW e \in first'..hi, c < e, HadSlot(e)'
                 PROVE  HadSlot(c)'
    BY DEF FrontToBack
  <2>2. c \in lo..hi /\ e \in lo..hi /\ c \in Cards /\ e \in Cards
    BY <1>1, <2>1 DEF Cards
  <2>3. PICK i \in 1..Len(s), j \in 1..Len(s) : s[i] = c /\ s[j] = e
    BY <1>4, <2>2
  <2>4. i < j
    <3>1. c = lo + i - 1 /\ e = lo + j - 1 /\ i \in Int /\ j \in Int
      BY <1>3, <2>3
    <3> QED BY <2>1, <3>1
  <2>5. j <= room
    <3>1. card[e].tries = 0 /\ (card'[e].tries > 0 \/ card'[e].pc \notin {"none", "queued"})
      BY <1>6, <2>1, <2>3 DEF HadSlot
    <3>2. ~(j <= room) => card'[e].pc = "queued" /\ card'[e].tries = card[e].tries
      BY <1>5, <2>3 DEF Placed
    <3>3. ~(j <= room) => card'[e].tries = 0 /\ ~(0 > 0)
      BY <3>1, <3>2
    <3> QED BY <3>1, <3>2, <3>3
  <2>6. card'[c].pc = "granted"
    <3>1. i <= room
      BY <2>4, <2>5
    <3> QED BY <1>5, <2>3, <3>1 DEF Placed
  <2> QED BY <2>6 DEF HadSlot
<1> QED BY <1>10, <1>11, <1>12, <1>13 DEF OrderInv

LEMMA RenderOrder ==
  ASSUME IInv, OrderInv, NEW n \in 0..MaxCards, Render(n)
  PROVE  OrderInv'
<1>1. /\ MaxCards \in Nat /\ made \in 0..MaxCards /\ card \in [Cards -> CardStates]
      /\ queue \in Seq(Cards)
      /\ \A c \in Cards : c > made => card[c].pc = "none"
  BY LineFacts DEF IInv, TypeOK, ListInv
<1>2. made + n <= MaxCards /\ made' = made + n /\ first' = made + 1 /\ config' = config
  BY DEF Render
<1>3. CASE config = "known"
  <2>1. PICK lo, hi : lo = made + 1 /\ hi = made + n
    BY Zenon
  <2>2. lo \in 1..(MaxCards + 1) /\ hi \in 0..MaxCards /\ lo <= hi + 1 /\ made' = hi
    BY <1>1, <1>2, <2>1
  <2>3. /\ \A c \in Cards : c \in lo..hi => card[c].pc \in {"none", "config"}
        /\ \A c \in Cards : c < lo => card[c].pc # "none"
        /\ \A c \in Cards : card[c].pc = "queued" => c < lo
    BY <1>1, <1>3, <2>1 DEF OrderInv, Cards
  <2>4. Acquire(Numbers(lo, hi), card) /\ first' \in Nat /\ lo <= first'
    BY <1>1, <1>2, <1>3, <2>1 DEF Render
  <2> QED BY <2>2, <2>3, <2>4, OrderArrive
<1>4. ASSUME NEW pc \in {"config", "over"}, UNCHANGED queue,
             card' = [c \in Cards |-> IF c \in (made + 1)..(made + n) THEN Fresh(pc) ELSE card[c]],
             config # "known"
      PROVE  OrderInv'
  <2>1. Fresh(pc).pc = pc /\ Fresh(pc).tries = 0
    BY DEF Fresh
  <2>2. \A c \in Cards : card'[c] = card[c] \/ card'[c] = Fresh(pc)
    BY <1>4
  <2>3. Lined(queue', card')
    <3>1. \A i \in 1..Len(queue) : Unserved(card', queue[i]) => Unserved(card, queue[i])
      BY <1>1, <2>1, <2>2 DEF Unserved
    <3> QED BY <1>4, <3>1 DEF OrderInv, Lined
  <2>4. \A c \in Cards : card'[c].pc \in {"none", "config"} => card'[c].tries = 0
    BY <2>1, <2>2 DEF OrderInv
  <2> QED BY <1>2, <1>4, <2>3, <2>4 DEF OrderInv, FrontToBack
<1> QED BY <1>3, <1>4 DEF Render, slotVars

LEMMA ConfigOrder ==
  ASSUME IInv, OrderInv, ConfigArrives \/ ConfigFails
  PROVE  OrderInv'
<1>1. /\ MaxCards \in Nat /\ made \in 0..MaxCards /\ card \in [Cards -> CardStates]
      /\ queue \in Seq(Cards) /\ first \in 1..(MaxCards + 1)
      /\ \A c \in Cards : card[c].pc \in {"none", "config"}
  BY LineFacts DEF IInv, TypeOK, ListInv, ConfigArrives, ConfigFails
<1>2. made' = made /\ first' = first
  BY DEF ConfigArrives, ConfigFails
<1>3. CASE ConfigArrives
  <2>1. /\ 1 \in 1..(MaxCards + 1) /\ 1 <= made + 1 /\ first' \in Nat /\ 1 <= first'
        /\ \A c \in Cards : ~(c < 1)
    BY <1>1, <1>2 DEF Cards
  <2>2. Acquire(Numbers(1, made), card)
    BY <1>3 DEF ConfigArrives
  <2> QED BY <1>1, <1>2, <2>1, <2>2, OrderArrive
<1>4. CASE ConfigFails
  <2>1. /\ card' = [c \in Cards |-> IF c <= made THEN Fresh("over") ELSE card[c]]
        /\ UNCHANGED queue /\ config' = "failed"
    BY <1>4 DEF ConfigFails, slotVars
  <2>2. \A c \in Cards : card'[c].pc # "queued" /\ (card'[c] = card[c] \/ card'[c].pc = "over")
    BY <1>1, <2>1 DEF Fresh
  <2>3. Lined(queue', card')
    BY <1>1, <2>1, <2>2 DEF Lined, Unserved
  <2>4. \A c \in Cards : card'[c].pc \in {"none", "config"} => card'[c].tries = 0
    BY <2>2 DEF OrderInv
  <2> QED BY <2>1, <2>3, <2>4 DEF OrderInv, FrontToBack
<1> QED BY <1>3, <1>4

\* The ends of a request, whatever becomes of the card.
LEMMA RequestEndOrder ==
  ASSUME IInv, IInv', OrderInv, NEW c \in Cards, card[c].pc \in InSlot, UNCHANGED listVars,
         NEW r \in CardStates, r.pc \notin {"none", "config", "queued"},
         Release([card EXCEPT ![c] = r])
  PROVE  OrderInv'
<1>1. PICK cs : cs = [card EXCEPT ![c] = r]
  BY Zenon
<1>2. /\ card \in [Cards -> CardStates] /\ CardsOK(card') /\ HadSlot(c)
  BY DEF IInv, TypeOK, CardsOK, HadSlot, InSlot
<1>3. /\ cs \in [Cards -> CardStates] /\ cs[c] = r /\ Release(cs)
      /\ \A d \in Cards : d # c => cs[d] = card[d]
  BY <1>1, <1>2
<1> QED BY <1>2, <1>3, OrderRelease

LEMMA CardOrder ==
  ASSUME IInv, IInv', OrderInv, NEW c \in Cards,
         \/ Resume(c) \/ StillPending(c) \/ StorageBreaks(c) \/ Ends(c)
         \/ ArrivesOpen(c) \/ ArrivesLocked(c) \/ Decrypted(c)
  PROVE  OrderInv'
<1>1. /\ card \in [Cards -> CardStates] /\ card[c] \in CardStates /\ UNCHANGED listVars
      /\ MaxPollRetry \in Nat /\ MaxStorageRetries \in Nat /\ None \notin Asks
  BY LoadAssumption DEF IInv, TypeOK, Resume, StillPending, StorageBreaks, Ends, ArrivesOpen,
     ArrivesLocked, Answered, Decrypted
<1>2. Fresh("over") \in CardStates /\ Fresh("over").pc = "over"
  BY <1>1 DEF Fresh, CardStates
<1>3. CASE Resume(c)
  <2>1. card[c].pc = "granted"
    BY <1>3 DEF Resume
  <2>2. CASE Stale(c)
    <3>1. Release([card EXCEPT ![c] = Fresh("over")])
      BY <1>3, <2>2 DEF Resume, Done
    <3> QED BY <1>1, <1>2, <2>1, <3>1, RequestEndOrder DEF InSlot
  <2>3. CASE ~Stale(c)
    <3>1. card' = [card EXCEPT ![c].pc = "fetching"] /\ UNCHANGED queue
      BY <1>3, <2>3 DEF Resume, Moved, slotVars
    <3>2. \A d \in Cards : \/ card'[d] = card[d]
                           \/ HadSlot(d) /\ card'[d].pc \notin {"none", "config", "queued"}
      BY <1>1, <2>1, <3>1 DEF HadSlot, CardStates
    <3> QED BY <1>1, <3>1, <3>2, OrderStill
  <2> QED BY <2>2, <2>3
<1>4. CASE Decrypted(c)
  <2>1. card' = [card EXCEPT ![c] = Fresh("over")] /\ UNCHANGED queue /\ card[c].pc = "decrypting"
    BY <1>4 DEF Decrypted, Done, slotVars
  <2>2. \A d \in Cards : \/ card'[d] = card[d]
                         \/ HadSlot(d) /\ card'[d].pc \notin {"none", "config", "queued"}
    BY <1>1, <1>2, <2>1 DEF HadSlot
  <2> QED BY <1>1, <2>1, <2>2, OrderStill
<1>5. CASE StillPending(c) \/ StorageBreaks(c) \/ Ends(c) \/ ArrivesOpen(c) \/ ArrivesLocked(c)
  <2>1. card[c].pc \in InSlot
    BY <1>5 DEF StillPending, StorageBreaks, Ends, ArrivesOpen, ArrivesLocked, Answered, InSlot
  <2>2. ASSUME NEW pc \in {"sleeping", "decrypting"}, Release(Moved(c, pc)) PROVE OrderInv'
    <3>1. PICK r : r = [card[c] EXCEPT !.pc = pc]
      BY Zenon
    <3>2. r \in CardStates /\ r.pc = pc /\ Release([card EXCEPT ![c] = r])
      BY <1>1, <2>2, <3>1 DEF CardStates, Moved
    <3> QED BY <1>1, <2>1, <3>2, RequestEndOrder
  <2>3. CASE StillPending(c)
    BY <2>2, <2>3 DEF StillPending, Answered
  <2>4. CASE ArrivesOpen(c)
    BY <2>2, <2>4 DEF ArrivesOpen, Answered
  <2>5. ASSUME Release(Done(c)) PROVE OrderInv'
    BY <1>1, <1>2, <2>1, <2>5, RequestEndOrder DEF Done
  <2>6. CASE Ends(c)
    BY <2>5, <2>6 DEF Ends, Answered
  <2>7. CASE StorageBreaks(c)
    <3>1. CASE card[c].breaks < MaxStorageRetries
      <4>1. PICK r : r = [card[c] EXCEPT !.pc = "sleeping", !.breaks = card[c].breaks + 1]
        BY Zenon
      <4>2. card[c].breaks + 1 \in 0..MaxStorageRetries
        BY <1>1, <3>1 DEF CardStates
      <4>3. r \in CardStates /\ r.pc = "sleeping"
        BY <1>1, <4>1, <4>2 DEF CardStates
      <4>4. Release([card EXCEPT ![c] = r])
        BY <2>7, <3>1, <4>1 DEF StorageBreaks, Answered
      <4> QED BY <1>1, <2>1, <4>3, <4>4, RequestEndOrder
    <3>2. CASE ~(card[c].breaks < MaxStorageRetries)
      BY <2>5, <2>7, <3>2 DEF StorageBreaks, Answered
    <3> QED BY <3>1, <3>2
  <2>8. CASE ArrivesLocked(c)
    <3>1. PICK a \in Asks : Release([card EXCEPT ![c] = [card[c] EXCEPT !.pc = "locked", !.on = a]])
      BY <2>8 DEF ArrivesLocked, Answered
    <3>2. PICK r : r = [card[c] EXCEPT !.pc = "locked", !.on = a]
      BY Zenon
    <3>3. r \in CardStates /\ r.pc = "locked" /\ Release([card EXCEPT ![c] = r])
      BY <1>1, <3>1, <3>2 DEF CardStates
    <3> QED BY <1>1, <2>1, <3>3, RequestEndOrder
  <2> QED BY <1>5, <2>3, <2>4, <2>6, <2>7, <2>8
<1> QED BY <1>3, <1>4, <1>5

\* A card that retries goes to the end of the line; it is not waiting for a first slot.
LEMMA SleepEndsOrder ==
  ASSUME IInv, IInv', OrderInv, NEW c \in Cards, SleepEnds(c)
  PROVE  OrderInv'
<1>1. /\ card \in [Cards -> CardStates] /\ card[c] \in CardStates /\ UNCHANGED listVars
      /\ queue \in Seq(Cards) /\ MaxPollRetry \in Nat /\ card[c].pc = "sleeping" /\ HadSlot(c)
  BY LoadAssumption DEF IInv, TypeOK, SleepEnds, HadSlot
<1>2. CASE ~Stale(c) /\ Left(c)
  <2>1. PICK s, r, cs : /\ s = <<c>> /\ r = [card[c] EXCEPT !.tries = card[c].tries + 1]
                        /\ cs = [card EXCEPT ![c] = r]
    BY Zenon
  <2>2. r \in CardStates /\ r.tries > 0
    <3>1. card[c].tries \in 0..MaxPollRetry /\ card[c].tries < MaxPollRetry
      BY <1>1, <1>2 DEF CardStates, Left
    <3>2. card[c].tries + 1 \in 0..MaxPollRetry /\ card[c].tries + 1 > 0
      BY <1>1, <3>1
    <3>3. r.tries = card[c].tries + 1 /\ r \in CardStates
      BY <1>1, <2>1, <3>2 DEF CardStates
    <3> QED BY <3>2, <3>3
  <2>3. /\ cs \in [Cards -> CardStates] /\ cs[c].tries > 0
        /\ \A d \in Cards : d # c => cs[d] = card[d]
    BY <1>1, <2>1, <2>2
  <2>4. Acquire(s, cs)
    BY <1>2, <2>1 DEF SleepEnds
  <2>5. /\ s \in Seq(Cards) /\ Len(s) = 1 /\ s[1] = c /\ 1 \in 1..Len(s)
        /\ \A i, j \in 1..Len(s) : s[i] = s[j] => i = j
        /\ \A i \in 1..Len(s) : s[i] = c
    BY <2>1
  <2>6. PICK room \in 0..Len(s) : Placed(s, room, cs)
    BY <2>3, <2>4, <2>5, AcquirePlaces
  <2>7. /\ card'[c].pc = "granted" \/ (card'[c].pc = "queued" /\ card'[c].tries > 0)
        /\ \A d \in Cards : d # c => card'[d] = card[d]
    BY <2>3, <2>5, <2>6 DEF Placed
  <2>8. /\ \A d \in Cards : Unserved(card', d) => d # c /\ Unserved(card, d)
        /\ \A d \in Cards : HadSlot(d) <=> HadSlot(d)'
    BY <1>1, <2>7 DEF Unserved, HadSlot
  <2>9. /\ Len(queue) \in Nat
        /\ \A i \in 1..Len(queue') : \/ i \in 1..Len(queue) /\ queue'[i] = queue[i]
                                     \/ i \notin 1..Len(queue) /\ queue'[i] = c
    <3>1. /\ queue' = queue \o SubSeq(s, room + 1, Len(s)) /\ Len(queue) \in Nat
      BY <1>1, <2>6 DEF Placed
    <3>2. queue \in Seq(Cards) /\ s \in Seq(Cards) /\ room \in 0..Len(s)
      BY <1>1, <2>5
    <3>3. \A i \in 1..Len(queue') :
            \/ i \in 1..Len(queue) /\ queue'[i] = queue[i]
            \/ i \notin 1..Len(queue) /\ \E k \in 1..Len(s) : queue'[i] = s[k]
      <4>1. queue' = queue \o SubSeq(s, room + 1, Len(s))
        BY <3>1
      <4>2. \A i \in 1..Len(queue') :
              \/ i \in 1..Len(queue) /\ queue'[i] = queue[i]
              \/ /\ i \notin 1..Len(queue)
                 /\ \E k \in 1..Len(s) : k = room + (i - Len(queue)) /\ ~(k <= room) /\ queue'[i] = s[k]
        BY <3>2, <4>1, QueueGrows
      <4> QED BY <4>2, Zenon
    <3> QED BY <2>5, <3>1, <3>3
  <2>10. \A i \in 1..Len(queue') : queue'[i] \in Cards
    BY <1>1, <2>9
  <2>11. \A i \in 1..Len(queue') : Unserved(card', queue'[i]) => i \in 1..Len(queue) /\ queue'[i] = queue[i]
    BY <2>8, <2>9, <2>10
  <2>12. /\ \A d \in Cards : card'[d].pc = "none" => card[d].pc = "none"
         /\ \A d \in Cards : card'[d].pc \in {"none", "config"} => card'[d] = card[d]
    BY <2>7
  <2> QED BY <1>1, <2>8, <2>10, <2>11, <2>12, OrderFrame
<1>3. CASE ~(~Stale(c) /\ Left(c))
  <2>1. card' = [card EXCEPT ![c] = Fresh("over")] /\ UNCHANGED queue
    BY <1>3 DEF SleepEnds, Done, slotVars
  <2>2. \A d \in Cards : \/ card'[d] = card[d]
                         \/ HadSlot(d) /\ card'[d].pc \notin {"none", "config", "queued"}
    BY <1>1, <2>1 DEF Fresh
  <2> QED BY <1>1, <2>1, <2>2, OrderStill
<1> QED BY <1>2, <1>3

\* The key and the user move no card that is in line.
LEMMA KeyOrder ==
  ASSUME IInv, OrderInv,
         \/ \E a \in Asks : AskStep(a)
         \/ Unlock \/ Submit \/ Forget \/ UNCHANGED vars
  PROVE  OrderInv'
<1>1. card \in [Cards -> CardStates]
  BY DEF IInv, TypeOK
<1>2. /\ UNCHANGED listVars /\ UNCHANGED queue
      /\ card' = card \/ \E a \in Asks \cup {None} : card' = Open(Locked(a))
  BY DEF AskStep, AskSucceeds, AskFails, Unlock, Submit, Forget, vars, slotVars, Opened, IInv, TypeOK
<1>3. ASSUME NEW a, card' = Open(Locked(a)), NEW d \in Cards
      PROVE  \/ card'[d] = card[d]
             \/ HadSlot(d) /\ card'[d].pc \notin {"none", "config", "queued"}
  <2>1. card[d] \in CardStates
    BY <1>1
  <2>2. CASE d \in Locked(a)
    <3>1. card[d].pc = "locked" /\ card'[d].pc = "decrypting"
      BY <1>3, <2>1, <2>2 DEF Open, Locked, CardStates
    <3> QED BY <3>1 DEF HadSlot
  <2>3. CASE d \notin Locked(a)
    BY <1>3, <2>3 DEF Open
  <2> QED BY <2>2, <2>3
<1>4. \A d \in Cards : \/ card'[d] = card[d]
                       \/ HadSlot(d) /\ card'[d].pc \notin {"none", "config", "queued"}
  BY <1>2, <1>3
<1> QED BY <1>2, <1>4, OrderStill

LEMMA OrderInit == Init => OrderInv
<1> SUFFICES ASSUME Init PROVE OrderInv
  OBVIOUS
<1>1. \A c \in Cards : card[c].pc = "none" /\ card[c].tries = 0
  BY DEF Init, Fresh
<1>2. Lined(queue, card)
  BY DEF Init, Lined
<1> QED BY <1>1, <1>2 DEF Init, OrderInv, FrontToBack

LEMMA OrderStep == IInv /\ IInv' /\ OrderInv /\ [Next]_vars => OrderInv'
<1> SUFFICES ASSUME IInv, IInv', OrderInv, [Next]_vars PROVE OrderInv'
  OBVIOUS
<1>1. ASSUME NEW n \in 0..MaxCards, Render(n) PROVE OrderInv'
  BY <1>1, RenderOrder
<1>2. CASE Configured
  BY <1>2, ConfigOrder DEF Configured
<1>3. ASSUME NEW c \in Cards, CardStep(c) PROVE OrderInv'
  BY <1>3, CardOrder, SleepEndsOrder DEF CardStep
<1>4. CASE (\E a \in Asks : AskStep(a)) \/ Unlock \/ Submit \/ Forget \/ UNCHANGED vars
  BY <1>4, KeyOrder
<1> QED BY <1>1, <1>2, <1>3, <1>4 DEF Next, UserStep

\* A list is downloaded front to back: no card of the current list gets a first slot
\* before a card in front of it, whatever is retried meanwhile and whatever is left
\* of older lists.
THEOREM ListsLoadInOrder == Spec => []FrontToBack
<1>1. OrderInv => FrontToBack
  BY DEF OrderInv
<1> QED BY OrderInit, Invariant, OrderStep, <1>1, PTL DEF Spec

-----------------------------------------------------------------------------
(***************************************************************************)
(* The unlock form opens everything, as long as the user does not press    *)
(* "forget": the page then asks for its key once, and the resolver the     *)
(* panel knows of is that of the ask that is parked.                       *)
(***************************************************************************)
AskedOnce ==
  /\ key = None => \A a \in Asks : ask[a] = None
  /\ \A a, b \in Asks : ask[a] # None /\ ask[b] # None => a = b
  /\ \A a \in Asks : ask[a] = "parked" => resolver = a

LEMMA AskedOnceStep ==
  ASSUME Forgets = FALSE, IInv, AskedOnce, [Next]_vars
  PROVE  AskedOnce'
<1>1. /\ ask \in [Asks -> {None, "good", "bad", "parked"}] /\ saved \in {None, "good", "bad"}
      /\ None \notin Asks \cup {"good", "bad", "parked"} /\ Known \notin Asks \cup {None}
  BY LoadAssumption DEF IInv, TypeOK
<1>2. ASSUME UNCHANGED <<key, ask, resolver>> PROVE AskedOnce'
  BY <1>2 DEF AskedOnce
<1>3. CASE (\E n \in 0..MaxCards : Render(n)) \/ Configured \/ Submit \/ UNCHANGED vars
  BY <1>2, <1>3 DEF Render, Configured, ConfigArrives, ConfigFails, Submit, vars, keyVars
<1>4. ASSUME NEW c \in Cards, CardStep(c) PROVE AskedOnce'
  <2>1. CASE UNCHANGED keyVars
    BY <1>2, <2>1 DEF keyVars
  <2>2. CASE ArrivesLocked(c)
    <3>1. PICK a \in Asks :
            \/ key = a /\ UNCHANGED keyVars
            \/ /\ key = None
               /\ key' = a
               /\ ask' = [ask EXCEPT ![a] = IF saved = None THEN "parked" ELSE saved]
               /\ resolver' = IF saved = None THEN a ELSE resolver
      BY <2>2 DEF ArrivesLocked
    <3>2. CASE UNCHANGED keyVars
      BY <1>2, <3>2 DEF keyVars
    <3>3. CASE /\ key = None
               /\ key' = a
               /\ ask' = [ask EXCEPT ![a] = IF saved = None THEN "parked" ELSE saved]
               /\ resolver' = IF saved = None THEN a ELSE resolver
      <4>1. /\ \A b \in Asks : b # a => ask'[b] = None
            /\ ask'[a] = "parked" => resolver' = a
            /\ key' # None
        BY <1>1, <3>3 DEF AskedOnce
      <4> QED BY <1>1, <4>1 DEF AskedOnce
    <3> QED BY <3>1, <3>2, <3>3
  <2> QED BY <1>4, <2>1, <2>2 DEF CardStep, Resume, StillPending, StorageBreaks, Ends, ArrivesOpen,
          SleepEnds, Decrypted
<1>5. ASSUME NEW a \in Asks, AskSucceeds(a) \/ AskFails(a) PROVE AskedOnce'
  <2>1. CASE AskSucceeds(a)
    BY <1>1, <2>1 DEF AskSucceeds, AskedOnce
  <2>2. CASE AskFails(a)
    BY <1>1, <2>2 DEF AskFails, AskedOnce
  <2> QED BY <1>5, <2>1, <2>2
<1>6. CASE Unlock
  BY <1>1, <1>6 DEF Unlock, AskedOnce
<1>7. ~Forget
  BY DEF Forget
<1> QED BY <1>3, <1>4, <1>5, <1>6, <1>7 DEF Next, UserStep, AskStep

\* "Unlocked.": unless the user has the page forget its key while images wait for
\* it, nobody waits for the user any more once the passphrase is accepted.
THEOREM UnlockOpensWhatWaits ==
  ASSUME Forgets = FALSE
  PROVE  Spec => UnlockOpensAll
<1>1. Init => AskedOnce
  BY LoadAssumption DEF Init, AskedOnce
<1>2. IInv /\ AskedOnce /\ [Next]_vars => AskedOnce'
  BY AskedOnceStep
<1>3. IInv /\ IInv' /\ AskedOnce /\ [Next]_vars =>
        [form /\ ~form' => \A c \in Cards : card'[c].pc = "locked" => ask'[card'[c].on] # "parked"]_vars
  <2>1. SUFFICES ASSUME IInv, IInv', AskedOnce, [Next]_vars, form, ~form', NEW c \in Cards,
                        card'[c].pc = "locked"
                 PROVE  ask'[card'[c].on] # "parked"
    OBVIOUS
  <2>2. Unlock
    BY <2>1 DEF Next, UserStep, Render, Submit, Forget, Configured, ConfigArrives, ConfigFails, CardStep,
       Resume, StillPending, StorageBreaks, Ends, ArrivesOpen, ArrivesLocked, Answered, SleepEnds,
       Decrypted, AskStep, AskSucceeds, AskFails, vars
  <2>3. card'[c].on \in Asks
    BY <2>1 DEF IInv, TypeOK, CardStates
  <2>4. /\ ask' = [a \in Asks |-> IF a = resolver THEN None ELSE ask[a]]
        /\ None # "parked" /\ None \notin Asks
    BY <2>2, LoadAssumption DEF Unlock
  <2> QED BY <2>1, <2>3, <2>4 DEF AskedOnce
<1> QED BY Invariant, <1>1, <1>2, <1>3, PTL DEF Spec, UnlockOpensAll
=============================================================================
