------------------------------ MODULE SlotLine ------------------------------
(***************************************************************************)
(* What createLimiter() of the browser page promises: a fixed number of    *)
(* slots, and a line in which those who find none wait in turn. A slot     *)
(* that is given back goes to the first in line in the same moment.        *)
(***************************************************************************)
EXTENDS Naturals, Sequences, FiniteSets

CONSTANTS
  Users,  \* a finite set
  Limit   \* the number of slots

VARIABLES holders, line

Waiting == {line[i] : i \in 1..Len(line)}

\* The orders in which users who neither hold nor wait may ask.
Orders ==
  {s \in UNION {[1..n -> Users \ (holders \cup Waiting)] : n \in 1..Cardinality(Users)} :
     \A i, j \in DOMAIN s : s[i] = s[j] => i = j}

Init == holders = {} /\ line = <<>>

\* Some users, one after the other, ask for a slot: the first ones get those that
\* are left, the others join the line.
Enter ==
  \E s \in Orders :
    LET room == IF Len(s) <= Limit - Cardinality(holders) THEN Len(s)
                                                          ELSE Limit - Cardinality(holders)
    IN  /\ holders' = holders \cup {s[i] : i \in 1..room}
        /\ line' = line \o SubSeq(s, room + 1, Len(s))

Leave(u) ==
  /\ u \in holders
  /\ IF line = <<>>
       THEN holders' = holders \ {u} /\ UNCHANGED line
       ELSE holders' = (holders \ {u}) \cup {Head(line)} /\ line' = Tail(line)

Next == Enter \/ \E u \in Users : Leave(u)

Spec == Init /\ [][Next]_<<holders, line>>

\* Never more users at work than slots, and nobody in line beside a free one.
SlotsKept ==
  /\ Cardinality(holders) <= Limit
  /\ line # <<>> => Cardinality(holders) = Limit
=============================================================================
