-------------------------- MODULE TcpServiceProofs --------------------------
(***************************************************************************)
(* Machine-checked proofs about TcpService, for any sockets, loops, growth *)
(* of the table and number of calls and restarts: a slot never holds a     *)
(* deleted socket; while the serial numbers of a loop have not wrapped, a  *)
(* fresh id reaches its own session or none; while the slots of a loop fit *)
(* into SessionId::index, every open session is reachable and no slot is   *)
(* lost.                                                                   *)
(***************************************************************************)
EXTENDS TcpService, SequenceTheorems, FiniteSetTheorems, TLAPS

(***************************************************************************)
(* TypeIDS.                                                                *)
(***************************************************************************)

\* A slot that is free is empty, and free once.
FreeIsEmpty(d) ==
    /\ \A i \in 1..Len(d.mIds) : d.mValues[d.mIds[i] + 1] = Null
    /\ \A i, j \in 1..Len(d.mIds) : d.mIds[i] = d.mIds[j] => i = j

\* A function on 1..n is a sequence of length n.
LEMMA SeqOfFun ==
    ASSUME NEW S, NEW n \in Nat, NEW f \in [1..n -> S]
    PROVE  f \in Seq(S) /\ Len(f) = n
  BY SeqDef, LenProperties

\* What increase appends to the table.
Nulls    == [i \in 1..GrowNum |-> Null]
Added(d) == [i \in 1..GrowNum |-> Len(d.mValues) + i - 1]

\* increase: empty slots at the end, all of them free.
LEMMA IncreaseProps ==
    ASSUME NEW d \in DataType, d.mIds = <<>>
    PROVE  /\ Increase(d) \in DataType
           /\ Increase(d).mValues = d.mValues \o Nulls /\ Increase(d).mIds = Added(d)
           /\ Increase(d).queue = d.queue /\ Increase(d).mNextId = d.mNextId
           /\ Len(Increase(d).mValues) = Len(d.mValues) + GrowNum
           /\ Len(Added(d)) = GrowNum
           /\ \A i \in 1..Len(Increase(d).mValues) : Increase(d).mValues[i] =
                 IF i <= Len(d.mValues) THEN d.mValues[i] ELSE Null
<1>1. Nulls \in Seq(Sockets \cup {Null}) /\ Len(Nulls) = GrowNum
  BY SeqOfFun, WidthsAssumption DEF Nulls
<1>2. /\ d.mValues \in Seq(Sockets \cup {Null})
      /\ Len(d.mValues) \in Nat /\ Added(d) \in [1..GrowNum -> Nat]
  BY WidthsAssumption DEF DataType, Added
<1>3. Added(d) \in Seq(Nat) /\ Len(Added(d)) = GrowNum
  BY <1>2, SeqOfFun, WidthsAssumption
<1>4. Increase(d) = [d EXCEPT !.mValues = @ \o Nulls, !.mIds = @ \o Added(d)]
  BY DEF Increase, Nulls, Added
<1>5. d.mIds \o Added(d) = Added(d)
  BY <1>3, ConcatEmptySeq
<1>6. /\ d.mValues \o Nulls \in Seq(Sockets \cup {Null})
      /\ Len(d.mValues \o Nulls) = Len(d.mValues) + GrowNum
      /\ \A i \in 1..Len(d.mValues \o Nulls) : (d.mValues \o Nulls)[i] =
              IF i <= Len(d.mValues) THEN d.mValues[i] ELSE Nulls[i - Len(d.mValues)]
  BY <1>1, <1>2, ConcatProperties
<1>7. \A i \in 1..Len(d.mValues \o Nulls) : (d.mValues \o Nulls)[i] =
              IF i <= Len(d.mValues) THEN d.mValues[i] ELSE Null
  BY <1>2, <1>6, WidthsAssumption DEF Nulls
<1> QED BY <1>3, <1>4, <1>5, <1>6, <1>7 DEF DataType

\* Making sure that there is a free slot changes no slot that exists.
LEMMA ClaimableProps ==
    ASSUME NEW d \in DataType, FreeInRange(d)
    PROVE  LET e == Claimable(d) IN
           /\ e \in DataType /\ FreeInRange(e) /\ e.mIds # <<>>
           /\ e.queue = d.queue /\ e.mNextId = d.mNextId
           /\ Len(e.mValues) >= Len(d.mValues)
           /\ Len(e.mValues) - Len(e.mIds) = Len(d.mValues) - Len(d.mIds)
           /\ \A i \in 1..Len(e.mValues) : e.mValues[i] =
                 IF i <= Len(d.mValues) THEN d.mValues[i] ELSE Null
           /\ FreeIsEmpty(d) => FreeIsEmpty(e)
<1>1. CASE d.mIds # <<>>
  BY <1>1 DEF Claimable, DataType
<1>2. CASE d.mIds = <<>>
  <2> DEFINE e == Increase(d)
  <2>1. Claimable(d) = e /\ Len(d.mIds) = 0
    BY <1>2 DEF Claimable
  <2>2. /\ e \in DataType /\ e.mIds = Added(d)
        /\ e.queue = d.queue /\ e.mNextId = d.mNextId
        /\ Len(e.mValues) = Len(d.mValues) + GrowNum /\ Len(Added(d)) = GrowNum
        /\ \A i \in 1..Len(e.mValues) : e.mValues[i] =
                 IF i <= Len(d.mValues) THEN d.mValues[i] ELSE Null
    BY <1>2, IncreaseProps
  <2>3. Len(d.mValues) \in Nat
    BY DEF DataType
  <2>4. \A i \in 1..GrowNum : e.mIds[i] = Len(d.mValues) + i - 1
    BY <2>2 DEF Added
  <2> HIDE DEF e
  <2>5. e.mIds # <<>>
    BY <2>2, WidthsAssumption
  <2>6. FreeInRange(e)
    BY <2>2, <2>3, <2>4, WidthsAssumption DEF FreeInRange
  <2>7. FreeIsEmpty(e)
    <3>1. ASSUME NEW i \in 1..GrowNum PROVE e.mValues[e.mIds[i] + 1] = Null
      <4>1. Len(d.mValues) + i \in 1..Len(e.mValues) /\ ~(Len(d.mValues) + i <= Len(d.mValues))
        BY <2>2, <2>3, WidthsAssumption
      <4>2. e.mIds[i] + 1 = Len(d.mValues) + i
        BY <2>3, <2>4
      <4> QED BY <2>2, <4>1, <4>2
    <3>2. \A i, j \in 1..GrowNum : e.mIds[i] = e.mIds[j] => i = j
      BY <2>3, <2>4
    <3> QED BY <2>2, <3>1, <3>2 DEF FreeIsEmpty
  <2> QED BY <2>1, <2>2, <2>3, <2>5, <2>6, <2>7, WidthsAssumption
<1> QED BY <1>1, <1>2

\* The last element of a stack and what is below it.
LEMMA FrontProps ==
    ASSUME NEW S, NEW q \in Seq(S), q # <<>>
    PROVE  /\ Len(q) \in Nat \ {0}
           /\ Front(q) \in Seq(S) /\ Len(Front(q)) = Len(q) - 1
           /\ \A i \in 1..(Len(q) - 1) : Front(q)[i] = q[i]
           /\ Last(q) = q[Len(q)] /\ Last(q) \in S
<1>1. Len(q) \in Nat \ {0}
  BY EmptySeq
<1>2. \A i \in 1..Len(q) : q[i] \in S
  BY ElementOfSeq
<1>3. /\ SubSeq(q, 1, Len(q) - 1) \in Seq(S)
      /\ Len(SubSeq(q, 1, Len(q) - 1)) = IF 1 <= Len(q) - 1 THEN (Len(q) - 1) - 1 + 1 ELSE 0
      /\ \A i \in 1..((Len(q) - 1) - 1 + 1) : SubSeq(q, 1, Len(q) - 1)[i] = q[1 + i - 1]
  <2>1. 1 \in Int /\ Len(q) - 1 \in Int /\ \A i \in 1..(Len(q) - 1) : q[i] \in S
    BY <1>1, <1>2
  <2> QED BY <2>1, SubSeqProperties
<1>4. Len(Front(q)) = Len(q) - 1
  <2>1. \A n \in Nat \ {0} : (1 <= n - 1 => (n - 1) - 1 + 1 = n - 1) /\ (~(1 <= n - 1) => 0 = n - 1)
    OBVIOUS
  <2>2. CASE 1 <= Len(q) - 1
    BY <1>1, <1>3, <2>1, <2>2 DEF Front
  <2>3. CASE ~(1 <= Len(q) - 1)
    BY <1>1, <1>3, <2>1, <2>3 DEF Front
  <2> QED BY <2>2, <2>3
<1>5. ASSUME NEW i \in 1..(Len(q) - 1) PROVE Front(q)[i] = q[i]
  <2>1. i \in 1..((Len(q) - 1) - 1 + 1) /\ 1 + i - 1 = i
    BY <1>1
  <2> QED BY <1>3, <2>1 DEF Front
<1> QED BY <1>1, <1>2, <1>3, <1>4, <1>5 DEF Front, Last

\* What onEnterEventLoop makes of the table d of its loop.
EnteredSlot(d)   == ClaimedSlot(d) % IndexMod
Entered(d, s)    == SetSlot([Claim(d) EXCEPT !.mNextId = @ + 1], EnteredSlot(d), s)

\* The claimed slot exists, and its number survives the cut to the width of
\* SessionId::index when the table is not larger than that.
LEMMA ClaimProps ==
    ASSUME NEW d \in DataType, FreeInRange(d)
    PROVE  LET e == Claimable(d) IN
           /\ Claim(d) = [e EXCEPT !.mIds = Front(@)]
           /\ Claim(d) \in DataType /\ FreeInRange(Claim(d))
           /\ Len(Claim(d).mIds) = Len(e.mIds) - 1
           /\ ClaimedSlot(d) \in 0..(Len(e.mValues) - 1)
           /\ EnteredSlot(d) \in 0..(Len(e.mValues) - 1) /\ EnteredSlot(d) < IndexMod
           /\ Len(e.mValues) <= IndexMod => EnteredSlot(d) = ClaimedSlot(d)
           /\ FreeIsEmpty(d) =>
                 /\ e.mValues[ClaimedSlot(d) + 1] = Null
                 /\ FreeIsEmpty(Claim(d))
                 /\ \A i \in 1..Len(Claim(d).mIds) : Claim(d).mIds[i] # ClaimedSlot(d)
<1> DEFINE e == Claimable(d)
           c == Claim(d)
<1>1. e \in DataType /\ FreeInRange(e) /\ e.mIds # <<>> /\ (FreeIsEmpty(d) => FreeIsEmpty(e))
  BY ClaimableProps
<1>2. c = [e EXCEPT !.mIds = Front(@)] /\ ClaimedSlot(d) = Last(e.mIds)
  BY DEF Claim, ClaimedSlot
<1> HIDE DEF e, c
<1>3. e.mIds \in Seq(Nat) /\ Len(e.mValues) \in Nat
  BY <1>1 DEF DataType
<1>4. /\ Len(e.mIds) \in Nat \ {0}
      /\ Front(e.mIds) \in Seq(Nat) /\ Len(Front(e.mIds)) = Len(e.mIds) - 1
      /\ \A i \in 1..(Len(e.mIds) - 1) : Front(e.mIds)[i] = e.mIds[i]
      /\ Last(e.mIds) = e.mIds[Len(e.mIds)] /\ Last(e.mIds) \in Nat
  BY <1>1, <1>3, FrontProps
<1>5. c \in DataType /\ c.mIds = Front(e.mIds) /\ c.mValues = e.mValues
  BY <1>1, <1>2, <1>4 DEF DataType
<1>6. ClaimedSlot(d) \in 0..(Len(e.mValues) - 1) /\ FreeInRange(c)
  <2>1. \A i \in 1..Len(e.mIds) : e.mIds[i] < Len(e.mValues)
    BY <1>1 DEF FreeInRange
  <2>2. e.mIds[Len(e.mIds)] < Len(e.mValues)
    BY <1>4, <2>1
  <2>3. \A i \in 1..Len(c.mIds) : c.mIds[i] < Len(c.mValues)
    BY <1>4, <1>5, <2>1
  <2> QED BY <1>2, <1>3, <1>4, <2>2, <2>3 DEF FreeInRange
<1>7. /\ EnteredSlot(d) \in 0..(Len(e.mValues) - 1) /\ EnteredSlot(d) < IndexMod
      /\ Len(e.mValues) <= IndexMod => EnteredSlot(d) = ClaimedSlot(d)
  <2>1. \A k \in Nat, m \in Nat \ {0} : k % m \in 0..(m - 1) /\ k % m <= k /\ (k < m => k % m = k)
    OBVIOUS
  <2>2. EnteredSlot(d) = ClaimedSlot(d) % IndexMod /\ ClaimedSlot(d) \in Nat
    BY <1>6 DEF EnteredSlot
  <2>3. /\ EnteredSlot(d) \in 0..(IndexMod - 1) /\ EnteredSlot(d) <= ClaimedSlot(d)
        /\ ClaimedSlot(d) < IndexMod => EnteredSlot(d) = ClaimedSlot(d)
    BY <2>1, <2>2, WidthsAssumption
  <2> QED BY <1>3, <1>6, <2>2, <2>3, WidthsAssumption
<1>8. ASSUME FreeIsEmpty(d)
      PROVE /\ e.mValues[ClaimedSlot(d) + 1] = Null
            /\ FreeIsEmpty(c)
            /\ \A i \in 1..Len(c.mIds) : c.mIds[i] # ClaimedSlot(d)
  <2>1. /\ \A i \in 1..Len(e.mIds) : e.mValues[e.mIds[i] + 1] = Null
        /\ \A i, j \in 1..Len(e.mIds) : e.mIds[i] = e.mIds[j] => i = j
    BY <1>1, <1>8 DEF FreeIsEmpty
  <2>2. e.mValues[ClaimedSlot(d) + 1] = Null
    <3>1. Len(e.mIds) \in 1..Len(e.mIds) /\ ClaimedSlot(d) = e.mIds[Len(e.mIds)]
      BY <1>2, <1>4
    <3>2. e.mValues[e.mIds[Len(e.mIds)] + 1] = Null
      BY <2>1, <3>1
    <3> QED BY <3>1, <3>2
  <2>3. ASSUME NEW i \in 1..Len(c.mIds)
        PROVE  i \in 1..Len(e.mIds) /\ i # Len(e.mIds) /\ c.mIds[i] = e.mIds[i]
    <3>1. i \in 1..(Len(e.mIds) - 1)
      BY <1>4, <1>5
    <3>2. c.mIds[i] = e.mIds[i]
      BY <1>4, <1>5, <3>1
    <3> QED BY <1>4, <3>1, <3>2
  <2>4. Len(e.mIds) \in 1..Len(e.mIds)
    BY <1>4
  <2>5. \A i \in 1..Len(c.mIds) : c.mIds[i] # ClaimedSlot(d)
    BY <1>2, <1>4, <2>1, <2>3, <2>4
  <2>6. FreeIsEmpty(c)
    BY <1>5, <2>1, <2>3 DEF FreeIsEmpty
  <2> QED BY <2>2, <2>5, <2>6
<1> QED BY <1>2, <1>4, <1>5, <1>6, <1>7, <1>8 DEF e, c

\* Storing a value in a slot that exists.
LEMMA SetSlotProps ==
    ASSUME NEW d \in DataType, FreeInRange(d), NEW j \in Nat, j < Len(d.mValues),
           NEW v \in Sockets \cup {Null}
    PROVE  LET e == SetSlot(d, j, v) IN
           /\ e \in DataType /\ FreeInRange(e)
           /\ e.mIds = d.mIds /\ e.mNextId = d.mNextId /\ e.queue = d.queue
           /\ Len(e.mValues) = Len(d.mValues) /\ e.mValues[j + 1] = v
           /\ \A i \in 1..Len(d.mValues) : i # j + 1 => e.mValues[i] = d.mValues[i]
<1> DEFINE e == SetSlot(d, j, v)
           w == [d.mValues EXCEPT ![j + 1] = v]
<1>1. e = [d EXCEPT !.mValues = w]
  BY DEF SetSlot, HasSlot
<1>2. d.mValues \in Seq(Sockets \cup {Null}) /\ Len(d.mValues) \in Nat
  BY DEF DataType
<1>3. j + 1 \in 1..Len(d.mValues)
  BY <1>2
<1>4. /\ w \in Seq(Sockets \cup {Null}) /\ Len(w) = Len(d.mValues) /\ w[j + 1] = v
      /\ \A i \in 1..Len(d.mValues) : i # j + 1 => w[i] = d.mValues[i]
  BY <1>2, <1>3, ExceptSeq
<1> HIDE DEF w
<1>5. e \in DataType /\ e.mValues = w /\ e.mIds = d.mIds /\ e.mNextId = d.mNextId /\ e.queue = d.queue
  BY <1>1, <1>4 DEF DataType
<1> HIDE DEF e
<1>6. FreeInRange(e)
  BY <1>4, <1>5 DEF FreeInRange
<1> QED BY <1>4, <1>5, <1>6 DEF e

\* A socket enters: it is in a slot that fits an id, and every other slot is as
\* it was.
LEMMA EnteredProps ==
    ASSUME NEW d \in DataType, FreeInRange(d), NEW s \in Sockets
    PROVE  LET e == Entered(d, s)
               j == EnteredSlot(d)
           IN
           /\ e \in DataType /\ FreeInRange(e)
           /\ e.queue = d.queue /\ e.mNextId = d.mNextId + 1
           /\ j \in 0..(IndexMod - 1) /\ j < Len(e.mValues)
           /\ Len(e.mValues) >= Len(d.mValues)
           /\ e.mValues[j + 1] = s
           /\ \A i \in 1..Len(e.mValues) : i # j + 1 =>
                 e.mValues[i] = IF i <= Len(d.mValues) THEN d.mValues[i] ELSE Null
           /\ FreeIsEmpty(d) /\ Len(e.mValues) <= IndexMod =>
                 /\ FreeIsEmpty(e)
                 /\ j < Len(d.mValues) => d.mValues[j + 1] = Null
                 /\ Len(e.mValues) - Len(e.mIds) = (Len(d.mValues) - Len(d.mIds)) + 1
<1> DEFINE b == Claimable(d)
           c == Claim(d)
           n == [c EXCEPT !.mNextId = @ + 1]
           e == Entered(d, s)
           j == EnteredSlot(d)
<1>1. /\ b \in DataType /\ b.queue = d.queue /\ b.mNextId = d.mNextId
      /\ Len(b.mValues) >= Len(d.mValues)
      /\ Len(b.mValues) - Len(b.mIds) = Len(d.mValues) - Len(d.mIds)
      /\ \A i \in 1..Len(b.mValues) : b.mValues[i] =
            IF i <= Len(d.mValues) THEN d.mValues[i] ELSE Null
  BY ClaimableProps
<1>2. /\ c = [b EXCEPT !.mIds = Front(@)] /\ c \in DataType /\ FreeInRange(c)
      /\ Len(c.mIds) = Len(b.mIds) - 1
      /\ j \in 0..(Len(b.mValues) - 1) /\ j < IndexMod
      /\ Len(b.mValues) <= IndexMod => j = ClaimedSlot(d)
      /\ FreeIsEmpty(d) =>
            /\ b.mValues[ClaimedSlot(d) + 1] = Null
            /\ FreeIsEmpty(c)
            /\ \A i \in 1..Len(c.mIds) : c.mIds[i] # ClaimedSlot(d)
  BY ClaimProps
<1>3. e = SetSlot(n, j, s)
  BY DEF Entered
<1> HIDE DEF b, c, e, j
<1>4. c.mValues = b.mValues /\ c.queue = b.queue /\ c.mNextId = b.mNextId /\ c.mNextId \in Nat
  BY <1>1, <1>2 DEF DataType
<1>5. /\ n \in DataType /\ n.mValues = b.mValues /\ n.mIds = c.mIds
      /\ n.queue = d.queue /\ n.mNextId = d.mNextId + 1
  <2>1. c \in DataType /\ c.mNextId + 1 \in Nat
    BY <1>2, <1>4
  <2>2. /\ n \in DataType /\ n.mValues = c.mValues /\ n.mIds = c.mIds
        /\ n.queue = c.queue /\ n.mNextId = c.mNextId + 1
    BY <2>1 DEF DataType
  <2> QED BY <1>1, <1>4, <2>2
<1> HIDE DEF n
<1>6. /\ FreeInRange(n) /\ j \in Nat /\ j < Len(b.mValues) /\ Len(b.mValues) \in Nat
      /\ Len(d.mValues) \in Nat /\ Len(d.mIds) \in Nat /\ Len(b.mIds) \in Nat /\ s \in Sockets \cup {Null}
  <2>1. /\ Len(b.mValues) \in Nat /\ Len(b.mIds) \in Nat /\ Len(d.mValues) \in Nat
        /\ Len(d.mIds) \in Nat
    BY <1>1 DEF DataType
  <2>2. FreeInRange(n)
    BY <1>2, <1>4, <1>5 DEF FreeInRange
  <2>3. j \in Nat /\ j < Len(b.mValues)
    BY <1>2, <2>1
  <2> QED BY <2>1, <2>2, <2>3
<1>7. /\ e \in DataType /\ FreeInRange(e)
      /\ e.mIds = n.mIds /\ e.mNextId = n.mNextId /\ e.queue = n.queue
      /\ Len(e.mValues) = Len(n.mValues) /\ e.mValues[j + 1] = s
      /\ \A i \in 1..Len(n.mValues) : i # j + 1 => e.mValues[i] = n.mValues[i]
  BY <1>3, <1>5, <1>6, SetSlotProps
<1>8. /\ e.queue = d.queue /\ e.mNextId = d.mNextId + 1 /\ e.mIds = c.mIds
      /\ Len(e.mValues) = Len(b.mValues)
      /\ \A i \in 1..Len(b.mValues) : i # j + 1 => e.mValues[i] = b.mValues[i]
  BY <1>5, <1>7
<1>9. \A i \in 1..Len(e.mValues) : i # j + 1 =>
         e.mValues[i] = IF i <= Len(d.mValues) THEN d.mValues[i] ELSE Null
  BY <1>1, <1>8
<1>10. ASSUME FreeIsEmpty(d), Len(e.mValues) <= IndexMod
       PROVE  /\ FreeIsEmpty(e)
              /\ j < Len(d.mValues) => d.mValues[j + 1] = Null
              /\ Len(e.mValues) - Len(e.mIds) = (Len(d.mValues) - Len(d.mIds)) + 1
  <2>1. j = ClaimedSlot(d) /\ b.mValues[j + 1] = Null /\ \A i \in 1..Len(c.mIds) : c.mIds[i] # j
    BY <1>2, <1>8, <1>10
  <2>2. ASSUME j < Len(d.mValues) PROVE d.mValues[j + 1] = Null
    <3>1. j + 1 \in 1..Len(b.mValues) /\ j + 1 <= Len(d.mValues)
      BY <1>6, <2>2
    <3> QED BY <1>1, <2>1, <3>1
  <2>3. Len(e.mValues) - Len(e.mIds) = (Len(d.mValues) - Len(d.mIds)) + 1
    <3> DEFINE x == Len(b.mValues)
               y == Len(b.mIds)
               u == Len(d.mValues)
               w == Len(d.mIds)
    <3>1. x \in Nat /\ y \in Nat /\ u \in Nat /\ w \in Nat
      BY <1>6
    <3>2. x - y = u - w
      BY <1>1
    <3>3. Len(e.mValues) = x /\ Len(e.mIds) = y - 1
      BY <1>2, <1>8
    <3> HIDE DEF x, y, u, w
    <3>4. x - (y - 1) = (u - w) + 1
      BY <3>1, <3>2
    <3> QED BY <3>3, <3>4 DEF u, w
  <2>4. ASSUME NEW i \in 1..Len(e.mIds) PROVE e.mValues[e.mIds[i] + 1] = Null
    <3>1. /\ i \in 1..Len(c.mIds) /\ e.mIds[i] = c.mIds[i] /\ c.mIds[i] # j
          /\ c.mIds[i] < Len(b.mValues) /\ c.mValues[c.mIds[i] + 1] = Null /\ c.mIds[i] \in Nat
      <4>1. i \in 1..Len(c.mIds) /\ e.mIds[i] = c.mIds[i]
        BY <1>8
      <4>2. c.mIds[i] # j
        BY <2>1, <4>1
      <4>3. c.mIds[i] < Len(b.mValues)
        BY <1>2, <1>4, <4>1 DEF FreeInRange
      <4>4. c.mValues[c.mIds[i] + 1] = Null
        BY <1>2, <1>10, <4>1 DEF FreeIsEmpty
      <4>5. c.mIds \in Seq(Nat)
        BY <1>2 DEF DataType
      <4>6. c.mIds[i] \in Nat
        BY <4>1, <4>5, ElementOfSeq
      <4> QED BY <4>1, <4>2, <4>3, <4>4, <4>6
    <3>2. c.mIds[i] + 1 \in 1..Len(b.mValues) /\ c.mIds[i] + 1 # j + 1
      BY <1>6, <3>1
    <3> QED BY <1>4, <1>8, <3>1, <3>2
  <2>5. \A i, k \in 1..Len(e.mIds) : e.mIds[i] = e.mIds[k] => i = k
    BY <1>2, <1>8, <1>10 DEF FreeIsEmpty
  <2> QED BY <2>2, <2>3, <2>4, <2>5 DEF FreeIsEmpty
<1>11. j \in 0..(IndexMod - 1)
  BY <1>2, <1>6, WidthsAssumption
<1>12. j < Len(e.mValues) /\ Len(e.mValues) >= Len(d.mValues) /\ e.mValues[j + 1] = s
  BY <1>1, <1>6, <1>7, <1>8
<1> QED BY <1>7, <1>8, <1>9, <1>10, <1>11, <1>12 DEF e, j

\* A socket leaves: its slot is empty and free, every other slot is as it was.
LEMMA ClosedProps ==
    ASSUME NEW d \in DataType, FreeInRange(d), NEW j \in Nat, j < Len(d.mValues)
    PROVE  LET e == Closed(d, j) IN
           /\ e \in DataType /\ FreeInRange(e)
           /\ e.queue = d.queue /\ e.mNextId = d.mNextId
           /\ Len(e.mValues) = Len(d.mValues) /\ Len(e.mIds) = Len(d.mIds) + 1
           /\ e.mValues[j + 1] = Null
           /\ \A i \in 1..Len(d.mValues) : i # j + 1 => e.mValues[i] = d.mValues[i]
           /\ FreeIsEmpty(d) /\ d.mValues[j + 1] # Null =>
                 FreeIsEmpty(e) /\ ~Contains(d.mIds, j)
<1> DEFINE c == SetSlot(d, j, Null)
           e == Closed(d, j)
<1>1. /\ c \in DataType /\ FreeInRange(c)
      /\ c.mIds = d.mIds /\ c.mNextId = d.mNextId /\ c.queue = d.queue
      /\ Len(c.mValues) = Len(d.mValues) /\ c.mValues[j + 1] = Null
      /\ \A i \in 1..Len(d.mValues) : i # j + 1 => c.mValues[i] = d.mValues[i]
  BY SetSlotProps
<1>2. e = [c EXCEPT !.mIds = Append(@, j)]
  BY DEF Closed, Reclaim
<1>3. d.mIds \in Seq(Nat) /\ Len(d.mIds) \in Nat /\ Len(d.mValues) \in Nat
  BY DEF DataType
<1>4. /\ Append(d.mIds, j) \in Seq(Nat) /\ Len(Append(d.mIds, j)) = Len(d.mIds) + 1
      /\ \A i \in 1..Len(d.mIds) : Append(d.mIds, j)[i] = d.mIds[i]
      /\ Append(d.mIds, j)[Len(d.mIds) + 1] = j
  BY <1>3, AppendProperties
<1> HIDE DEF c
<1>5. /\ e \in DataType /\ e.mIds = Append(d.mIds, j) /\ e.mValues = c.mValues
      /\ e.mNextId = d.mNextId /\ e.queue = d.queue
  BY <1>1, <1>2, <1>4 DEF DataType
<1> HIDE DEF e
<1>6. /\ Len(e.mIds) = Len(d.mIds) + 1 /\ e.mIds[Len(d.mIds) + 1] = j
      /\ \A i \in 1..Len(d.mIds) : e.mIds[i] = d.mIds[i]
  BY <1>4, <1>5
<1>7. \A i \in 1..Len(e.mIds) : i \in 1..Len(d.mIds) \/ i = Len(d.mIds) + 1
  BY <1>3, <1>6
<1>8. FreeInRange(e)
  BY <1>1, <1>5, <1>6, <1>7 DEF FreeInRange
<1>9. ASSUME FreeIsEmpty(d), d.mValues[j + 1] # Null
      PROVE  FreeIsEmpty(e) /\ ~Contains(d.mIds, j)
  <2>1. \A i \in 1..Len(d.mIds) : d.mIds[i] # j
    BY <1>9 DEF FreeIsEmpty
  <2>2. ~Contains(d.mIds, j)
    BY <2>1 DEF Contains
  <2>3. ASSUME NEW i \in 1..Len(d.mIds) PROVE e.mValues[d.mIds[i] + 1] = Null
    <3>1. d.mIds[i] \in Nat
      BY <1>3, ElementOfSeq
    <3>2. d.mIds[i] < Len(d.mValues) /\ d.mValues[d.mIds[i] + 1] = Null /\ d.mIds[i] # j
      BY <1>9, <2>1 DEF FreeIsEmpty, FreeInRange
    <3>3. d.mIds[i] + 1 \in 1..Len(d.mValues) /\ d.mIds[i] + 1 # j + 1
      <4> DEFINE x == d.mIds[i]
                 m == Len(d.mValues)
      <4>1. x \in Nat /\ m \in Nat /\ j \in Nat /\ x < m /\ x # j
        BY <1>1, <1>3, <3>1, <3>2
      <4> HIDE DEF x, m
      <4>2. x + 1 \in 1..m /\ x + 1 # j + 1
        BY <4>1
      <4> QED BY <4>2 DEF x, m
    <3> QED BY <1>1, <1>5, <3>2, <3>3
  <2>4. \A i \in 1..Len(e.mIds) : e.mValues[e.mIds[i] + 1] = Null
    BY <1>1, <1>5, <1>6, <1>7, <2>3
  <2>5. \A i, k \in 1..Len(e.mIds) : e.mIds[i] = e.mIds[k] => i = k
    BY <1>6, <1>7, <1>9, <2>1 DEF FreeIsEmpty
  <2> QED BY <2>2, <2>4, <2>5 DEF FreeIsEmpty
<1> QED BY <1>1, <1>5, <1>6, <1>8, <1>9 DEF e

(***************************************************************************)
(* The queue of a loop.                                                    *)
(***************************************************************************)

Pushed(d, p) == [d EXCEPT !.queue = Append(@, p)]
Popped(d)    == [d EXCEPT !.queue = Tail(@)]

\* Queueing a proc leaves the table of the loop alone.
LEMMA PushedProps ==
    ASSUME NEW d \in DataType, FreeInRange(d), NEW p \in ProcType
    PROVE  LET e == Pushed(d, p) IN
           /\ e \in DataType /\ FreeInRange(e)
           /\ e.mValues = d.mValues /\ e.mIds = d.mIds /\ e.mNextId = d.mNextId
           /\ Len(e.queue) = Len(d.queue) + 1 /\ e.queue[Len(d.queue) + 1] = p
           /\ \A i \in 1..Len(d.queue) : e.queue[i] = d.queue[i]
<1> DEFINE e == Pushed(d, p)
           q == Append(d.queue, p)
<1>1. e = [d EXCEPT !.queue = q]
  BY DEF Pushed
<1>2. d.queue \in Seq(ProcType)
  BY DEF DataType
<1>3. /\ q \in Seq(ProcType) /\ Len(q) = Len(d.queue) + 1 /\ q[Len(d.queue) + 1] = p
      /\ \A i \in 1..Len(d.queue) : q[i] = d.queue[i]
  BY <1>2, AppendProperties
<1> HIDE DEF q
<1>4. /\ e \in DataType /\ e.queue = q
      /\ e.mValues = d.mValues /\ e.mIds = d.mIds /\ e.mNextId = d.mNextId
  BY <1>1, <1>3 DEF DataType
<1> HIDE DEF e
<1>5. FreeInRange(e)
  BY <1>4 DEF FreeInRange
<1> QED BY <1>3, <1>4, <1>5 DEF e

\* So does taking one.
LEMMA PoppedProps ==
    ASSUME NEW d \in DataType, FreeInRange(d), d.queue # <<>>
    PROVE  LET e == Popped(d) IN
           /\ e \in DataType /\ FreeInRange(e)
           /\ e.mValues = d.mValues /\ e.mIds = d.mIds /\ e.mNextId = d.mNextId
           /\ Head(d.queue) = d.queue[1] /\ Head(d.queue) \in ProcType
           /\ Len(d.queue) \in Nat \ {0} /\ Len(e.queue) = Len(d.queue) - 1
           /\ \A i \in 1..Len(e.queue) : e.queue[i] = d.queue[i + 1]
<1> DEFINE e == Popped(d)
           q == Tail(d.queue)
<1>1. e = [d EXCEPT !.queue = q]
  BY DEF Popped
<1>2. d.queue \in Seq(ProcType)
  BY DEF DataType
<1>3. /\ q \in Seq(ProcType) /\ Len(q) = Len(d.queue) - 1
      /\ \A i \in 1..Len(q) : q[i] = d.queue[i + 1]
      /\ Head(d.queue) \in ProcType /\ Head(d.queue) = d.queue[1]
  BY <1>2, HeadTailProperties
<1>4. Len(d.queue) \in Nat \ {0}
  BY <1>2, EmptySeq
<1> HIDE DEF q
<1>5. /\ e \in DataType /\ e.queue = q
      /\ e.mValues = d.mValues /\ e.mIds = d.mIds /\ e.mNextId = d.mNextId
  BY <1>1, <1>3 DEF DataType
<1> HIDE DEF e
<1>6. FreeInRange(e)
  BY <1>5 DEF FreeInRange
<1> QED BY <1>3, <1>4, <1>5, <1>6 DEF e

(***************************************************************************)
(* What holds of the tables and the queues without any assumption.         *)
(***************************************************************************)

\* A socket in a slot is open, lives on this loop and carries the slot's
\* number in its id.
SlotInv ==
    \A l \in Loops : \A i \in 1..Len(loopData[l].mValues) :
        LET v == loopData[l].mValues[i] IN
        v # Null => status[v] = "open" /\ home[v] = l /\ ud[v].index = i - 1

\* An open socket carries an id of its loop whose slot exists.
OpenInv ==
    \A s \in Sockets : status[s] = "open" =>
        /\ ud[s] \in IdType /\ ud[s].loopIndex = home[s]
        /\ ud[s].index < Len(loopData[home[s]].mValues)

\* A proc that is queued on loop l.
ProcInv(l, p) ==
    /\ p.op = "enter" => status[p.sock] = "queued" /\ home[p.sock] = l
    /\ p.op = "call" => /\ p.id \in IdType /\ p.id.loopIndex = l
                        /\ [id |-> p.id, sock |-> p.sock, gen |-> p.gen] \in known

\* A socket waits in one queue, once; calls carry ids that were given out.
LoopQueueInv(l) ==
    LET q == loopData[l].queue IN
    /\ \A i \in 1..Len(q) : ProcInv(l, q[i])
    /\ \A i, j \in 1..Len(q) :
          q[i].op = "enter" /\ q[j].op = "enter" /\ q[i].sock = q[j].sock => i = j

QueueInv == \A l \in Loops : LoopQueueInv(l)

TableInv == TypeOK /\ SlotInv /\ OpenInv /\ QueueInv

\* One loop's data changes.
LEMMA DataUpdate ==
    ASSUME TypeOK, NEW l \in Loops, NEW D \in DataType, FreeInRange(D),
           loopData' = [loopData EXCEPT ![l] = D]
    PROVE  /\ loopData' \in [Loops -> DataType]
           /\ \A m \in Loops : FreeInRange(loopData'[m])
           /\ loopData'[l] = D /\ \A m \in Loops : m # l => loopData'[m] = loopData[m]
  BY DEF TypeOK

\* What a lookup returns: nothing, or a socket in the slot that carries the id.
LEMMA LookupProps ==
    ASSUME NEW d \in DataType, NEW id \in IdType
    PROVE  /\ Lookup(d, id) \in Sockets \cup {Null}
           /\ Lookup(d, id) # Null =>
                 /\ id.index + 1 \in 1..Len(d.mValues)
                 /\ d.mValues[id.index + 1] = Lookup(d, id)
                 /\ ud[Lookup(d, id)] = id
<1>1. /\ id.index \in Nat /\ Len(d.mValues) \in Nat /\ d.mValues \in Seq(Sockets \cup {Null})
  BY WidthsAssumption DEF IdType, DataType
<1>2. CASE HasSlot(d, id.index)
  <2>1. id.index + 1 \in 1..Len(d.mValues)
    BY <1>1, <1>2 DEF HasSlot
  <2>2. d.mValues[id.index + 1] \in Sockets \cup {Null}
    BY <1>1, <2>1, ElementOfSeq
  <2> QED BY <1>2, <2>1, <2>2 DEF Lookup
<1>3. CASE ~HasSlot(d, id.index)
  BY <1>3 DEF Lookup
<1> QED BY <1>2, <1>3

\* A lookup on behalf of a call keeps the types of the history.
LEMMA ReachType ==
    ASSUME TypeOK, NEW d \in DataType, NEW c, c.sock \in Sockets, c.id \in IdType, Reach(d, c)
    PROVE  /\ reached' \subseteq [meant : Sockets, called : Sockets, fresh : BOOLEAN]
           /\ asserted' \subseteq {"reclaimID", "loopIndex", "get"}
<1>1. Lookup(d, c.id) \in Sockets \cup {Null}
  BY LookupProps
<1>2. (c.gen = gen) \in BOOLEAN
  OBVIOUS
<1> DEFINE b == (c.gen = gen)
           r(s) == [meant |-> c.sock, called |-> s, fresh |-> b]
<1>3. reached' = reached \cup {r(s) : s \in {Lookup(d, c.id)} \ {Null}}
  BY DEF Reach
<1>4. b \in BOOLEAN
  BY <1>2
<1> HIDE DEF b
<1>5. \A s \in {Lookup(d, c.id)} \ {Null} : r(s) \in [meant : Sockets, called : Sockets, fresh : BOOLEAN]
  BY <1>1, <1>4
<1>6. reached' \subseteq [meant : Sockets, called : Sockets, fresh : BOOLEAN]
  BY <1>3, <1>5 DEF TypeOK
<1>7. asserted' \subseteq {"reclaimID", "loopIndex", "get"}
  BY DEF Reach, TypeOK
<1> QED BY <1>6, <1>7

\* What entering does to the variables: s becomes open on loop l, whose table
\* is d but for the queue.
Entering(l, d, s) ==
    /\ d \in DataType /\ FreeInRange(d)
    /\ d.mValues = loopData[l].mValues /\ d.mIds = loopData[l].mIds
    /\ d.mNextId = loopData[l].mNextId
    /\ status[s] \in {"new", "queued"}
    /\ home' = [home EXCEPT ![s] = l]
    /\ OnEnterEventLoop(l, d, s)

\* The variables after entering.
LEMMA EnteringProps ==
    ASSUME TypeOK, NEW l \in Loops, NEW s \in Sockets, NEW d, Entering(l, d, s)
    PROVE  LET e  == Entered(d, s)
               id == MakeID(l, d)
           IN
           /\ loopData'[l] = e /\ \A m \in Loops : m # l => loopData'[m] = loopData[m]
           /\ loopData' \in [Loops -> DataType] /\ \A m \in Loops : FreeInRange(loopData'[m])
           /\ id \in IdType /\ id.loopIndex = l /\ id.index = EnteredSlot(d)
           /\ id.iid = d.mNextId % IidMod
           /\ ud'[s] = id /\ status'[s] = "open" /\ home'[s] = l
           /\ \A t \in Sockets : t # s => ud'[t] = ud[t] /\ status'[t] = status[t] /\ home'[t] = home[t]
           /\ ud' \in [Sockets -> IdType \cup {Null}] /\ home' \in [Sockets -> Loops]
           /\ status' \in [Sockets -> {"new", "queued", "open", "failed", "deleted", "abandoned"}]
           /\ known' = known \cup {[id |-> id, sock |-> s, gen |-> gen]}
<1> DEFINE e  == Entered(d, s)
           id == MakeID(l, d)
<1>1. d \in DataType /\ FreeInRange(d) /\ OnEnterEventLoop(l, d, s)
  BY DEF Entering
<1>2. e \in DataType /\ FreeInRange(e) /\ EnteredSlot(d) \in 0..(IndexMod - 1)
  BY <1>1, EnteredProps
<1>3. d.mNextId % IidMod \in 0..(IidMod - 1)
  <2>1. d.mNextId \in Nat
    BY <1>1 DEF DataType
  <2> QED BY <2>1, WidthsAssumption
<1>4. /\ id = [loopIndex |-> l, index |-> EnteredSlot(d), iid |-> d.mNextId % IidMod]
      /\ id \in IdType
  BY <1>2, <1>3 DEF MakeID, EnteredSlot, IdType
<1>5. loopData' = [loopData EXCEPT ![l] = e]
  BY <1>1, <1>4 DEF OnEnterEventLoop, Entered
<1> HIDE DEF e
<1>6. /\ loopData'[l] = e /\ \A m \in Loops : m # l => loopData'[m] = loopData[m]
      /\ loopData' \in [Loops -> DataType] /\ \A m \in Loops : FreeInRange(loopData'[m])
  BY <1>2, <1>5, DataUpdate
<1>7. /\ ud' = [ud EXCEPT ![s] = id] /\ status' = [status EXCEPT ![s] = "open"]
      /\ home' = [home EXCEPT ![s] = l]
      /\ known' = known \cup {[id |-> id, sock |-> s, gen |-> gen]}
  BY <1>1 DEF OnEnterEventLoop, Entering
<1>8. id.loopIndex = l /\ id.index = EnteredSlot(d) /\ id.iid = d.mNextId % IidMod
  BY <1>4
<1> HIDE DEF id
<1>9. /\ ud'[s] = id /\ status'[s] = "open" /\ home'[s] = l
      /\ \A t \in Sockets : t # s => ud'[t] = ud[t] /\ status'[t] = status[t] /\ home'[t] = home[t]
  BY <1>7 DEF TypeOK
<1>10. /\ ud' \in [Sockets -> IdType \cup {Null}] /\ home' \in [Sockets -> Loops]
       /\ status' \in [Sockets -> {"new", "queued", "open", "failed", "deleted", "abandoned"}]
  BY <1>4, <1>7 DEF TypeOK
<1> QED BY <1>4, <1>6, <1>7, <1>8, <1>9, <1>10 DEF e, id

\* A value in a slot is a socket or nothing.
LEMMA SlotType ==
    ASSUME NEW d \in DataType, NEW i \in 1..Len(d.mValues)
    PROVE  d.mValues[i] \in Sockets \cup {Null}
<1>1. d.mValues \in Seq(Sockets \cup {Null})
  BY DEF DataType
<1> QED BY <1>1, ElementOfSeq

\* Entering keeps the tables in order.
LEMMA EnteringTable ==
    ASSUME TypeOK, SlotInv, OpenInv, NEW l \in Loops, NEW s \in Sockets, NEW d, Entering(l, d, s)
    PROVE  SlotInv' /\ OpenInv'
<1> DEFINE e == Entered(d, s)
           j == EnteredSlot(d)
<1>1. /\ d \in DataType /\ FreeInRange(d) /\ d.mValues = loopData[l].mValues
      /\ status[s] \in {"new", "queued"}
  BY DEF Entering
<1>2. /\ loopData'[l] = e /\ \A m \in Loops : m # l => loopData'[m] = loopData[m]
      /\ loopData' \in [Loops -> DataType]
      /\ ud'[s] \in IdType /\ ud'[s].loopIndex = l /\ ud'[s].index = j
      /\ status'[s] = "open" /\ home'[s] = l
      /\ \A t \in Sockets : t # s => ud'[t] = ud[t] /\ status'[t] = status[t] /\ home'[t] = home[t]
  BY EnteringProps
<1>3. /\ j \in 0..(IndexMod - 1) /\ j < Len(e.mValues)
      /\ Len(e.mValues) >= Len(d.mValues) /\ e.mValues[j + 1] = s
      /\ \A i \in 1..Len(e.mValues) : i # j + 1 =>
            e.mValues[i] = IF i <= Len(d.mValues) THEN d.mValues[i] ELSE Null
  <2>1. d \in DataType /\ FreeInRange(d)
    BY <1>1
  <2>2. j \in 0..(IndexMod - 1) /\ j < Len(e.mValues) /\ Len(e.mValues) >= Len(d.mValues)
    BY <2>1, EnteredProps
  <2>3. j + 1 \in Nat
    BY <2>2
  <2>4. e.mValues[j + 1] = s
    BY <2>1, <2>2, <2>3, EnteredProps
  <2>5. \A i \in 1..Len(e.mValues) : i # j + 1 =>
            e.mValues[i] = IF i <= Len(d.mValues) THEN d.mValues[i] ELSE Null
    BY <2>1, <2>2, <2>3, EnteredProps
  <2> QED BY <2>2, <2>4, <2>5
<1>4. /\ Len(d.mValues) \in Nat /\ \A m \in Loops : Len(loopData[m].mValues) \in Nat
      /\ Len(e.mValues) \in Nat
  <2>1. d \in DataType /\ e \in DataType /\ \A m \in Loops : loopData[m] \in DataType
    BY <1>1, <1>2 DEF TypeOK
  <2> QED BY <2>1 DEF DataType
<1> HIDE DEF e, j
<1>5. ASSUME NEW m \in Loops, NEW i \in 1..Len(loopData[m].mValues), loopData[m].mValues[i] # Null
      PROVE  LET v == loopData[m].mValues[i] IN
             status'[v] = "open" /\ home'[v] = m /\ ud'[v].index = i - 1
  <2> DEFINE v == loopData[m].mValues[i]
  <2>1. status[v] = "open" /\ home[v] = m /\ ud[v].index = i - 1
    BY <1>5 DEF SlotInv
  <2>2. v \in Sockets
    BY <1>5, SlotType DEF TypeOK
  <2>3. v # s
    BY <1>1, <2>1
  <2> QED BY <1>2, <2>1, <2>2, <2>3
<1>6. SlotInv'
  <2> SUFFICES ASSUME NEW m \in Loops, NEW i \in 1..Len(loopData'[m].mValues),
                      loopData'[m].mValues[i] # Null
               PROVE  LET v == loopData'[m].mValues[i] IN
                      status'[v] = "open" /\ home'[v] = m /\ ud'[v].index = i - 1
    BY DEF SlotInv
  <2>1. CASE m # l
    BY <1>2, <1>5, <2>1
  <2>2. CASE m = l /\ i = j + 1
    BY <1>2, <1>3, <2>2
  <2>3. CASE m = l /\ i # j + 1
    <3>1. e.mValues[i] = IF i <= Len(d.mValues) THEN d.mValues[i] ELSE Null
      BY <1>2, <1>3, <2>3
    <3>2. i \in 1..Len(loopData[l].mValues) /\ loopData'[l].mValues[i] = loopData[l].mValues[i]
      BY <1>1, <1>2, <1>4, <2>3, <3>1
    <3> QED BY <1>5, <2>3, <3>2
  <2> QED BY <2>1, <2>2, <2>3
<1>7. OpenInv'
  <2> SUFFICES ASSUME NEW t \in Sockets, status'[t] = "open"
               PROVE  /\ ud'[t] \in IdType /\ ud'[t].loopIndex = home'[t]
                      /\ ud'[t].index < Len(loopData'[home'[t]].mValues)
    BY DEF OpenInv
  <2>1. CASE t = s
    BY <1>2, <1>3, <2>1
  <2>2. CASE t # s
    <3>1. /\ status[t] = "open" /\ ud'[t] = ud[t] /\ home'[t] = home[t]
          /\ ud[t] \in IdType /\ ud[t].loopIndex = home[t]
          /\ ud[t].index < Len(loopData[home[t]].mValues) /\ home[t] \in Loops
      BY <1>2, <2>2 DEF OpenInv, TypeOK
    <3>2. ud[t].index \in Nat
      BY <3>1, WidthsAssumption DEF IdType
    <3>3. Len(loopData'[home[t]].mValues) >= Len(loopData[home[t]].mValues)
      BY <1>1, <1>2, <1>3, <1>4, <3>1
    <3>4. Len(loopData'[home[t]].mValues) \in Nat /\ Len(loopData[home[t]].mValues) \in Nat
      BY <1>2, <1>4, <3>1
    <3> QED BY <3>1, <3>2, <3>3, <3>4
  <2> QED BY <2>1, <2>2
<1> QED BY <1>6, <1>7

\* A queue that lost its first n procs, and no socket in it has changed.
LEMMA QueueShift ==
    ASSUME NEW l \in Loops, LoopQueueInv(l), NEW n \in Nat, known \subseteq known',
           Len(loopData[l].queue) \in Nat,
           Len(loopData'[l].queue) = Len(loopData[l].queue) - n,
           \A i \in 1..Len(loopData'[l].queue) : loopData'[l].queue[i] = loopData[l].queue[i + n],
           \A i \in 1..Len(loopData'[l].queue) :
              LET p == loopData'[l].queue[i] IN
              p.op = "enter" => status'[p.sock] = status[p.sock] /\ home'[p.sock] = home[p.sock]
    PROVE  LoopQueueInv(l)'
<1> DEFINE q == loopData[l].queue
           r == loopData'[l].queue
<1>1. ASSUME NEW i \in 1..Len(r) PROVE i + n \in 1..Len(q) /\ r[i] = q[i + n] /\ i \in Int
  OBVIOUS
<1>2. /\ \A i \in 1..Len(q) : ProcInv(l, q[i])
      /\ \A i, j \in 1..Len(q) :
            q[i].op = "enter" /\ q[j].op = "enter" /\ q[i].sock = q[j].sock => i = j
  BY DEF LoopQueueInv
<1>3. \A i \in 1..Len(r) : r[i].op = "enter" =>
         status'[r[i].sock] = status[r[i].sock] /\ home'[r[i].sock] = home[r[i].sock]
  OBVIOUS
<1> HIDE DEF q, r
<1>4. ASSUME NEW i \in 1..Len(r)
      PROVE  LET p == r[i] IN
             /\ p.op = "enter" => status'[p.sock] = "queued" /\ home'[p.sock] = l
             /\ p.op = "call" => /\ p.id \in IdType /\ p.id.loopIndex = l
                                 /\ [id |-> p.id, sock |-> p.sock, gen |-> p.gen] \in known'
  <2>1. ProcInv(l, r[i])
    BY <1>1, <1>2
  <2>2. r[i].op = "enter" => status'[r[i].sock] = status[r[i].sock] /\ home'[r[i].sock] = home[r[i].sock]
    BY <1>3
  <2> DEFINE p == r[i]
  <2>3. ProcInv(l, p) /\ (p.op = "enter" => status'[p.sock] = status[p.sock] /\ home'[p.sock] = home[p.sock])
    BY <2>1, <2>2
  <2> HIDE DEF p
  <2>4. p.op = "enter" => status'[p.sock] = "queued" /\ home'[p.sock] = l
    BY <2>3 DEF ProcInv
  <2>5. p.op = "call" => /\ p.id \in IdType /\ p.id.loopIndex = l
                         /\ [id |-> p.id, sock |-> p.sock, gen |-> p.gen] \in known'
    BY <2>3 DEF ProcInv
  <2> QED BY <2>4, <2>5 DEF p
<1>5. ASSUME NEW i \in 1..Len(r), NEW j \in 1..Len(r),
             r[i].op = "enter", r[j].op = "enter", r[i].sock = r[j].sock
      PROVE  i = j
  <2>1. i + n \in 1..Len(q) /\ j + n \in 1..Len(q) /\ r[i] = q[i + n] /\ r[j] = q[j + n]
    BY <1>1
  <2>2. q[i + n].op = "enter" /\ q[j + n].op = "enter" /\ q[i + n].sock = q[j + n].sock
    BY <1>5, <2>1
  <2>3. i + n = j + n
    BY <1>2, <2>1, <2>2
  <2>4. i \in Int /\ j \in Int
    BY <1>1
  <2> QED BY <2>3, <2>4
<1> QED BY <1>4, <1>5 DEF LoopQueueInv, ProcInv, r

\* Both ways in are a case of entering.
LEMMA EnterIsEntering ==
    ASSUME TypeOK, QueueInv, NEW l \in Loops, Enter(l)
    PROVE  LET p == Head(loopData[l].queue) IN
           p.sock \in Sockets /\ p.op = "enter" /\ Entering(l, Popped(loopData[l]), p.sock)
<1> DEFINE d == loopData[l]
           p == Head(d.queue)
<1>1. d \in DataType /\ FreeInRange(d) /\ d.queue # <<>> /\ p.op = "enter"
  BY DEF TypeOK, Enter, NextIsEnter
<1>2. /\ Popped(d) \in DataType /\ FreeInRange(Popped(d))
      /\ Popped(d).mValues = d.mValues /\ Popped(d).mIds = d.mIds /\ Popped(d).mNextId = d.mNextId
      /\ p = d.queue[1] /\ p \in ProcType /\ Len(d.queue) \in Nat \ {0}
  BY <1>1, PoppedProps
<1>3. ProcInv(l, p)
  BY <1>2 DEF QueueInv, LoopQueueInv
<1>4. p.sock \in Sockets /\ status[p.sock] = "queued" /\ home[p.sock] = l
  BY <1>1, <1>2, <1>3 DEF ProcInv, ProcType
<1>5. home' = [home EXCEPT ![p.sock] = l]
  BY <1>4 DEF Enter, TypeOK
<1>6. OnEnterEventLoop(l, Popped(d), p.sock)
  BY DEF Enter, Popped
<1> QED BY <1>1, <1>2, <1>4, <1>5, <1>6 DEF Entering

\* addDataSocket on the loop's own thread runs the same code inline.
LEMMA EnterAtOnceIsEntering ==
    ASSUME TypeOK, NEW l \in Loops, NEW s \in Sockets, EnterAtOnce(s, l)
    PROVE  Entering(l, loopData[l], s)
  BY DEF TypeOK, EnterAtOnce, Entering

\* A table entry is not touched and no socket opens, closes or moves.
LEMMA KeptTable ==
    ASSUME TypeOK, SlotInv, OpenInv,
           \A l \in Loops : loopData'[l].mValues = loopData[l].mValues,
           \A s \in Sockets : status'[s] = "open" <=> status[s] = "open",
           \A s \in Sockets : status[s] = "open" => home'[s] = home[s] /\ ud'[s] = ud[s]
    PROVE  SlotInv' /\ OpenInv'
<1>1. SlotInv'
  <2> SUFFICES ASSUME NEW l \in Loops, NEW i \in 1..Len(loopData[l].mValues),
                      loopData[l].mValues[i] # Null
               PROVE  LET v == loopData[l].mValues[i] IN
                      status'[v] = "open" /\ home'[v] = l /\ ud'[v].index = i - 1
    BY DEF SlotInv
  <2> DEFINE v == loopData[l].mValues[i]
  <2>1. v \in Sockets
    BY SlotType DEF TypeOK
  <2>2. status[v] = "open" /\ home[v] = l /\ ud[v].index = i - 1
    BY DEF SlotInv
  <2> QED BY <2>1, <2>2
<1>2. OpenInv'
  BY DEF OpenInv, TypeOK
<1> QED BY <1>1, <1>2

\* The variables after closing.
LEMMA ClosingProps ==
    ASSUME TypeOK, OpenInv, NEW s \in Sockets, CloseSocket(s)
    PROVE  LET d == loopData[home[s]]
               e == Closed(d, ud[s].index)
           IN
           /\ home[s] \in Loops /\ d \in DataType /\ FreeInRange(d)
           /\ ud[s] \in IdType /\ ud[s].index \in Nat /\ ud[s].index < Len(d.mValues)
           /\ loopData'[home[s]] = e /\ \A m \in Loops : m # home[s] => loopData'[m] = loopData[m]
           /\ loopData' \in [Loops -> DataType] /\ \A m \in Loops : FreeInRange(loopData'[m])
           /\ status[s] = "open" /\ status'[s] = "deleted"
           /\ \A t \in Sockets : t # s => status'[t] = status[t]
           /\ home' = home /\ ud' = ud
<1> DEFINE d == loopData[home[s]]
           e == Closed(d, ud[s].index)
<1>1. home[s] \in Loops /\ d \in DataType /\ FreeInRange(d) /\ status[s] = "open"
  BY DEF TypeOK, CloseSocket
<1>2. ud[s] \in IdType /\ ud[s].index < Len(d.mValues)
  BY <1>1 DEF OpenInv
<1>3. ud[s].index \in Nat
  BY <1>2, WidthsAssumption DEF IdType
<1>4. e \in DataType /\ FreeInRange(e)
  BY <1>1, <1>2, <1>3, ClosedProps
<1>5. loopData' = [loopData EXCEPT ![home[s]] = e]
  BY DEF CloseSocket
<1> HIDE DEF e
<1>6. /\ loopData'[home[s]] = e /\ \A m \in Loops : m # home[s] => loopData'[m] = loopData[m]
      /\ loopData' \in [Loops -> DataType] /\ \A m \in Loops : FreeInRange(loopData'[m])
  BY <1>1, <1>4, <1>5, DataUpdate
<1>7. /\ status'[s] = "deleted" /\ \A t \in Sockets : t # s => status'[t] = status[t]
      /\ home' = home /\ ud' = ud
  BY DEF CloseSocket, TypeOK
<1> QED BY <1>1, <1>2, <1>3, <1>6, <1>7 DEF e

\* Closing keeps the tables in order.
LEMMA ClosingTable ==
    ASSUME TypeOK, SlotInv, OpenInv, NEW s \in Sockets, CloseSocket(s)
    PROVE  SlotInv' /\ OpenInv'
<1> DEFINE h == home[s]
           d == loopData[h]
           j == ud[s].index
           e == Closed(d, j)
<1>1. /\ h \in Loops /\ d \in DataType /\ FreeInRange(d) /\ j \in Nat /\ j < Len(d.mValues)
      /\ loopData'[h] = e /\ \A m \in Loops : m # h => loopData'[m] = loopData[m]
      /\ status'[s] = "deleted" /\ \A t \in Sockets : t # s => status'[t] = status[t]
      /\ home' = home /\ ud' = ud
  BY ClosingProps
<1>2. /\ Len(e.mValues) = Len(d.mValues) /\ e.mValues[j + 1] = Null
      /\ \A i \in 1..Len(d.mValues) : i # j + 1 => e.mValues[i] = d.mValues[i]
  BY <1>1, ClosedProps
<1>3. Len(d.mValues) \in Nat
  BY <1>1 DEF DataType
<1> HIDE DEF e
<1>4. ASSUME NEW m \in Loops, NEW i \in 1..Len(loopData[m].mValues), loopData[m].mValues[i] # Null,
             loopData[m].mValues[i] # s
      PROVE  LET v == loopData[m].mValues[i] IN
             status'[v] = "open" /\ home'[v] = m /\ ud'[v].index = i - 1
  <2> DEFINE v == loopData[m].mValues[i]
  <2>1. v \in Sockets
    BY <1>4, SlotType DEF TypeOK
  <2>2. status[v] = "open" /\ home[v] = m /\ ud[v].index = i - 1
    BY <1>4 DEF SlotInv
  <2> QED BY <1>1, <1>4, <2>1, <2>2
<1>5. ASSUME NEW m \in Loops, NEW i \in 1..Len(loopData[m].mValues), loopData[m].mValues[i] = s
      PROVE  m = h /\ i = j + 1
  <2>1. home[s] = m /\ ud[s].index = i - 1
    BY <1>5, SocketsAssumption DEF SlotInv
  <2> QED BY <2>1
<1>6. SlotInv'
  <2> SUFFICES ASSUME NEW m \in Loops, NEW i \in 1..Len(loopData'[m].mValues),
                      loopData'[m].mValues[i] # Null
               PROVE  LET v == loopData'[m].mValues[i] IN
                      status'[v] = "open" /\ home'[v] = m /\ ud'[v].index = i - 1
    BY DEF SlotInv
  <2>1. CASE m # h
    <3>1. loopData'[m] = loopData[m]
      BY <1>1, <2>1
    <3>2. loopData[m].mValues[i] # s
      BY <1>5, <2>1, <3>1
    <3> QED BY <1>4, <3>1, <3>2
  <2>2. CASE m = h
    <3>1. i \in 1..Len(d.mValues) /\ i # j + 1
      BY <1>1, <1>2, <2>2
    <3>2. loopData'[m].mValues[i] = loopData[m].mValues[i] /\ i \in 1..Len(loopData[m].mValues)
      BY <1>1, <1>2, <2>2, <3>1
    <3>3. loopData[m].mValues[i] # s
      BY <1>5, <3>1, <3>2
    <3> QED BY <1>4, <3>2, <3>3
  <2> QED BY <2>1, <2>2
<1>7. \A m \in Loops : Len(loopData'[m].mValues) = Len(loopData[m].mValues)
  BY <1>1, <1>2
<1>8. OpenInv'
  <2> SUFFICES ASSUME NEW t \in Sockets, status'[t] = "open"
               PROVE  /\ ud[t] \in IdType /\ ud[t].loopIndex = home[t]
                      /\ ud[t].index < Len(loopData'[home[t]].mValues)
    BY <1>1 DEF OpenInv
  <2>1. status[t] = "open" /\ home[t] \in Loops
    BY <1>1 DEF TypeOK
  <2> QED BY <1>7, <2>1 DEF OpenInv
<1> QED BY <1>6, <1>8

\* The procs that the actions queue are procs.
LEMMA PushedByAdd ==
    ASSUME TypeOK, NEW l \in Loops, NEW s \in Sockets, AddDataSocket(s, l)
    PROVE  LET p == [op |-> "enter", sock |-> s, id |-> Null, gen |-> gen] IN
           p \in ProcType /\ loopData' = [loopData EXCEPT ![l] = Pushed(loopData[l], p)]
<1>1. gen \in Nat
  BY DEF TypeOK
<1> QED BY <1>1 DEF AddDataSocket, ProcType, Pushed

\* A call by id is queued on the loop that the id names.
LEMMA PushedByCall ==
    ASSUME TypeOK, NEW k \in known, CallById(k), running
    PROVE  LET p == [op |-> "call", sock |-> k.sock, id |-> k.id, gen |-> k.gen] IN
           /\ k.id.loopIndex \in Loops /\ p \in ProcType
           /\ loopData' = [loopData EXCEPT ![k.id.loopIndex] = Pushed(loopData[k.id.loopIndex], p)]
<1>1. k \in [id : IdType, sock : Sockets, gen : Nat]
  BY DEF TypeOK
<1>2. k.id \in IdType /\ k.sock \in Sockets /\ k.gen \in Nat
  BY <1>1
<1>3. k.id.loopIndex \in Loops
  BY <1>2 DEF IdType
<1> QED BY <1>2, <1>3 DEF CallById, ProcType, Pushed

\* Every step keeps the types.
LEMMA TypeStep ==
    ASSUME TableInv, [Next]_vars
    PROVE  TypeOK'
<1> USE DEF TableInv
<1>1. ASSUME NEW s \in Sockets, NEW l \in Loops, AddDataSocket(s, l) PROVE TypeOK'
  <2> DEFINE p == [op |-> "enter", sock |-> s, id |-> Null, gen |-> gen]
  <2>1. p \in ProcType /\ loopData' = [loopData EXCEPT ![l] = Pushed(loopData[l], p)]
    BY <1>1, PushedByAdd
  <2>2. Pushed(loopData[l], p) \in DataType /\ FreeInRange(Pushed(loopData[l], p))
    BY <2>1, PushedProps DEF TypeOK
  <2>3. loopData' \in [Loops -> DataType] /\ \A m \in Loops : FreeInRange(loopData'[m])
    BY <2>1, <2>2, DataUpdate
  <2>4. running' \in BOOLEAN
    BY <1>1 DEF TypeOK, AddDataSocket
  <2> QED BY <1>1, <2>3, <2>4 DEF TypeOK, AddDataSocket
<1>2. ASSUME NEW s \in Sockets, NEW l \in Loops, NEW d, Entering(l, d, s),
             UNCHANGED <<gen, running, reached, asserted, calls, stops>>
      PROVE  TypeOK'
  <2>1. /\ loopData' \in [Loops -> DataType] /\ \A m \in Loops : FreeInRange(loopData'[m])
        /\ MakeID(l, d) \in IdType
        /\ ud' \in [Sockets -> IdType \cup {Null}] /\ home' \in [Sockets -> Loops]
        /\ status' \in [Sockets -> {"new", "queued", "open", "failed", "deleted", "abandoned"}]
        /\ known' = known \cup {[id |-> MakeID(l, d), sock |-> s, gen |-> gen]}
    BY <1>2, EnteringProps
  <2>2. known' \subseteq [id : IdType, sock : Sockets, gen : Nat]
    BY <2>1 DEF TypeOK
  <2>3. running' \in BOOLEAN
    BY <1>2 DEF TypeOK
  <2> QED BY <1>2, <2>1, <2>2, <2>3 DEF TypeOK
<1>3. ASSUME NEW s \in Sockets, CloseSocket(s) PROVE TypeOK'
  <2>1. loopData' \in [Loops -> DataType] /\ \A m \in Loops : FreeInRange(loopData'[m])
    BY <1>3, ClosingProps
  <2>2. running' \in BOOLEAN
    BY <1>3 DEF TypeOK, CloseSocket
  <2>3. asserted' \subseteq {"reclaimID", "loopIndex", "get"}
    BY <1>3 DEF TypeOK, CloseSocket
  <2>4. status' \in [Sockets -> {"new", "queued", "open", "failed", "deleted", "abandoned"}]
    BY <1>3 DEF TypeOK, CloseSocket
  <2> QED BY <1>3, <2>1, <2>2, <2>3, <2>4 DEF TypeOK, CloseSocket
<1>4. ASSUME NEW l \in Loops, EnterFails(l) PROVE TypeOK'
  <2>1. /\ loopData[l] \in DataType /\ FreeInRange(loopData[l]) /\ loopData[l].queue # <<>>
    BY <1>4 DEF TypeOK, EnterFails, NextIsEnter
  <2>2. /\ Popped(loopData[l]) \in DataType /\ FreeInRange(Popped(loopData[l]))
        /\ Head(loopData[l].queue) \in ProcType
    BY <2>1, PoppedProps
  <2>3. loopData' = [loopData EXCEPT ![l] = Popped(loopData[l])]
    BY <1>4 DEF EnterFails, Popped
  <2>4. loopData' \in [Loops -> DataType] /\ \A m \in Loops : FreeInRange(loopData'[m])
    BY <2>2, <2>3, DataUpdate
  <2>5. running' \in BOOLEAN
    BY <1>4 DEF TypeOK, EnterFails
  <2>6. status' \in [Sockets -> {"new", "queued", "open", "failed", "deleted", "abandoned"}]
    BY <1>4 DEF TypeOK, EnterFails
  <2> QED BY <1>4, <2>4, <2>5, <2>6 DEF TypeOK, EnterFails
<1>5. ASSUME NEW l \in Loops, RunCall(l) PROVE TypeOK'
  <2> DEFINE c == Head(loopData[l].queue)
  <2>1. /\ loopData[l] \in DataType /\ FreeInRange(loopData[l]) /\ loopData[l].queue # <<>>
        /\ c.op = "call" /\ Reach(loopData[l], c)
    BY <1>5 DEF TypeOK, RunCall
  <2>2. /\ Popped(loopData[l]) \in DataType /\ FreeInRange(Popped(loopData[l]))
        /\ c \in ProcType /\ c = loopData[l].queue[1] /\ Len(loopData[l].queue) \in Nat \ {0}
    BY <2>1, PoppedProps
  <2>3. loopData' = [loopData EXCEPT ![l] = Popped(loopData[l])]
    BY <1>5 DEF RunCall, Popped
  <2>4. loopData' \in [Loops -> DataType] /\ \A m \in Loops : FreeInRange(loopData'[m])
    BY <2>2, <2>3, DataUpdate
  <2>5. ProcInv(l, c)
    BY <2>2 DEF QueueInv, LoopQueueInv
  <2>6. c.id \in IdType /\ c.sock \in Sockets
    BY <2>1, <2>2, <2>5 DEF ProcInv, ProcType
  <2>7. /\ reached' \subseteq [meant : Sockets, called : Sockets, fresh : BOOLEAN]
        /\ asserted' \subseteq {"reclaimID", "loopIndex", "get"}
    BY <2>1, <2>6, ReachType
  <2>8. running' \in BOOLEAN
    BY <1>5 DEF TypeOK, RunCall
  <2> QED BY <1>5, <2>4, <2>7, <2>8 DEF TypeOK, RunCall
<1>6. ASSUME NEW k \in known, CallById(k) PROVE TypeOK'
  <2>1. loopData' \in [Loops -> DataType] /\ \A m \in Loops : FreeInRange(loopData'[m])
    <3>1. CASE ~running
      BY <1>6, <3>1 DEF CallById, TypeOK
    <3>2. CASE running
      <4> DEFINE p == [op |-> "call", sock |-> k.sock, id |-> k.id, gen |-> k.gen]
                 l == k.id.loopIndex
      <4>1. l \in Loops /\ p \in ProcType /\ loopData' = [loopData EXCEPT ![l] = Pushed(loopData[l], p)]
        BY <1>6, <3>2, PushedByCall
      <4>2. Pushed(loopData[l], p) \in DataType /\ FreeInRange(Pushed(loopData[l], p))
        BY <4>1, PushedProps DEF TypeOK
      <4> QED BY <4>1, <4>2, DataUpdate
    <3> QED BY <3>1, <3>2
  <2>2. asserted' \subseteq {"reclaimID", "loopIndex", "get"}
    BY <1>6 DEF TypeOK, CallById
  <2>3. running' \in BOOLEAN
    BY <1>6 DEF TypeOK, CallById
  <2>4. calls' \in 0..MaxCalls
    BY <1>6, WidthsAssumption DEF TypeOK, CallById
  <2> QED BY <1>6, <2>1, <2>2, <2>3, <2>4 DEF TypeOK, CallById
<1>7. ASSUME NEW k \in known, CallInLoop(k) PROVE TypeOK'
  <2>1. k \in [id : IdType, sock : Sockets, gen : Nat]
    BY DEF TypeOK
  <2>2. k.id \in IdType /\ k.sock \in Sockets
    BY <2>1
  <2>3. k.id.loopIndex \in Loops
    BY <2>2 DEF IdType
  <2>4. loopData[k.id.loopIndex] \in DataType /\ Reach(loopData[k.id.loopIndex], k)
    BY <1>7, <2>3 DEF TypeOK, CallInLoop
  <2>5. /\ reached' \subseteq [meant : Sockets, called : Sockets, fresh : BOOLEAN]
        /\ asserted' \subseteq {"reclaimID", "loopIndex", "get"}
    BY <2>2, <2>4, ReachType
  <2>6. running' \in BOOLEAN
    BY <1>7 DEF TypeOK, CallInLoop
  <2>7. calls' \in 0..MaxCalls
    BY <1>7, WidthsAssumption DEF TypeOK, CallInLoop
  <2> QED BY <1>7, <2>5, <2>6, <2>7 DEF TypeOK, CallInLoop
<1>8. CASE StopWorkerThread
  <2>1. running' \in BOOLEAN
    BY <1>8 DEF StopWorkerThread
  <2>2. stops' \in 0..MaxStops
    BY <1>8, WidthsAssumption DEF TypeOK, StopWorkerThread
  <2> QED BY <1>8, <2>1, <2>2 DEF TypeOK, StopWorkerThread
<1>9. CASE StartWorkerThread
  <2>1. NewLoopData \in DataType /\ FreeInRange(NewLoopData)
    BY DEF NewLoopData, DataType, FreeInRange
  <2>2. loopData' \in [Loops -> DataType] /\ \A m \in Loops : FreeInRange(loopData'[m])
    BY <1>9, <2>1 DEF StartWorkerThread
  <2>3. running' \in BOOLEAN
    BY <1>9 DEF StartWorkerThread
  <2>4. status' \in [Sockets -> {"new", "queued", "open", "failed", "deleted", "abandoned"}]
    BY <1>9 DEF TypeOK, StartWorkerThread
  <2> QED BY <1>9, <2>2, <2>3, <2>4 DEF TypeOK, StartWorkerThread
<1>10. ASSUME NEW s \in Sockets, AddDataSocketFails(s) PROVE TypeOK'
  <2>1. running' \in BOOLEAN
    BY <1>10 DEF TypeOK, AddDataSocketFails
  <2> QED BY <1>10, <2>1 DEF TypeOK, AddDataSocketFails
<1>11. CASE UNCHANGED vars
  <2>1. running' \in BOOLEAN
    BY <1>11 DEF TypeOK, vars
  <2> QED BY <1>11, <2>1 DEF TypeOK, vars
<1>12. ASSUME NEW l \in Loops, Enter(l) PROVE TypeOK'
  BY <1>2, <1>12, EnterIsEntering DEF Enter
<1>13. ASSUME NEW s \in Sockets, NEW l \in Loops, EnterAtOnce(s, l) PROVE TypeOK'
  BY <1>2, <1>13, EnterAtOnceIsEntering DEF EnterAtOnce
<1> QED BY <1>1, <1>3, <1>4, <1>5, <1>6, <1>7, <1>8, <1>9, <1>10, <1>11, <1>12, <1>13 DEF Next

\* A loop's queue stays, and no socket that waits in it has changed.
LEMMA QueueKept ==
    ASSUME TypeOK, NEW l \in Loops, LoopQueueInv(l), known \subseteq known',
           loopData'[l].queue = loopData[l].queue,
           \A s \in Sockets : status[s] = "queued" /\ home[s] = l =>
               status'[s] = status[s] /\ home'[s] = home[s]
    PROVE  LoopQueueInv(l)'
<1> DEFINE q == loopData[l].queue
<1>1. q \in Seq(ProcType) /\ Len(q) \in Nat
  BY DEF TypeOK, DataType
<1>2. ASSUME NEW i \in 1..Len(q) PROVE q[i] \in ProcType /\ ProcInv(l, q[i]) /\ q[i] = q[i + 0]
  BY <1>1, ElementOfSeq DEF LoopQueueInv
<1>3. \A i \in 1..Len(q) : q[i].op = "enter" =>
         status'[q[i].sock] = status[q[i].sock] /\ home'[q[i].sock] = home[q[i].sock]
  BY <1>2 DEF ProcInv, ProcType
<1>4. /\ Len(loopData'[l].queue) = Len(q) - 0 /\ 0 \in Nat
      /\ \A i \in 1..Len(loopData'[l].queue) : loopData'[l].queue[i] = q[i + 0]
  BY <1>1, <1>2
<1>5. \A i \in 1..Len(loopData'[l].queue) :
         LET p == loopData'[l].queue[i] IN
         p.op = "enter" => status'[p.sock] = status[p.sock] /\ home'[p.sock] = home[p.sock]
  BY <1>3
<1> QED BY <1>1, <1>4, <1>5, QueueShift

\* A loop takes the first proc; only its socket may change.
LEMMA QueuePopped ==
    ASSUME TypeOK, NEW l \in Loops, LoopQueueInv(l), known \subseteq known',
           loopData[l].queue # <<>>,
           loopData'[l].queue = Popped(loopData[l]).queue,
           \A s \in Sockets : status[s] = "queued" /\ home[s] = l =>
               \/ status'[s] = status[s] /\ home'[s] = home[s]
               \/ Head(loopData[l].queue).op = "enter" /\ Head(loopData[l].queue).sock = s
    PROVE  LoopQueueInv(l)'
<1> DEFINE q == loopData[l].queue
           r == loopData'[l].queue
<1>1. q \in Seq(ProcType) /\ loopData[l] \in DataType /\ FreeInRange(loopData[l])
  BY DEF TypeOK, DataType
<1>2. /\ Len(q) \in Nat \ {0} /\ Len(r) = Len(q) - 1 /\ Head(q) = q[1]
      /\ \A i \in 1..Len(r) : r[i] = q[i + 1]
  BY <1>1, PoppedProps
<1>3. ASSUME NEW i \in 1..Len(q) PROVE q[i] \in ProcType /\ ProcInv(l, q[i])
  BY <1>1, ElementOfSeq DEF LoopQueueInv
<1>4. \A i, j \in 1..Len(q) :
         q[i].op = "enter" /\ q[j].op = "enter" /\ q[i].sock = q[j].sock => i = j
  BY DEF LoopQueueInv
<1>5. ASSUME NEW i \in 1..Len(r), r[i].op = "enter"
      PROVE  status'[r[i].sock] = status[r[i].sock] /\ home'[r[i].sock] = home[r[i].sock]
  <2>1. i + 1 \in 1..Len(q) /\ 1 \in 1..Len(q) /\ i + 1 # 1
    BY <1>2
  <2>2. r[i] = q[i + 1]
    BY <1>2
  <2>3. r[i].sock \in Sockets /\ status[r[i].sock] = "queued" /\ home[r[i].sock] = l
    BY <1>3, <1>5, <2>1, <2>2 DEF ProcInv, ProcType
  <2>4. ~(q[1].op = "enter" /\ q[1].sock = r[i].sock)
    BY <1>4, <1>5, <2>1, <2>2
  <2> QED BY <1>2, <2>3, <2>4
<1>6. Len(q) \in Nat /\ 1 \in Nat
  BY <1>2
<1> QED BY <1>2, <1>5, <1>6, QueueShift

\* A proc is queued; no socket that waits in the queue has changed.
LEMMA QueuePushed ==
    ASSUME TypeOK, NEW l \in Loops, LoopQueueInv(l), known \subseteq known', NEW p \in ProcType,
           loopData'[l].queue = Pushed(loopData[l], p).queue,
           \A s \in Sockets : status[s] = "queued" /\ home[s] = l =>
               status'[s] = status[s] /\ home'[s] = home[s],
           p.op = "enter" => status'[p.sock] = "queued" /\ home'[p.sock] = l
                             /\ status[p.sock] # "queued",
           p.op = "call" => /\ p.id \in IdType /\ p.id.loopIndex = l
                            /\ [id |-> p.id, sock |-> p.sock, gen |-> p.gen] \in known'
    PROVE  LoopQueueInv(l)'
<1> DEFINE q == loopData[l].queue
           r == loopData'[l].queue
<1>1. q \in Seq(ProcType) /\ Len(q) \in Nat /\ loopData[l] \in DataType /\ FreeInRange(loopData[l])
  BY DEF TypeOK, DataType
<1>2. Len(r) = Len(q) + 1 /\ r[Len(q) + 1] = p /\ \A i \in 1..Len(q) : r[i] = q[i]
  <2>1. r = Append(q, p)
    BY <1>1 DEF Pushed, DataType
  <2> QED BY <1>1, <2>1, AppendProperties
<1>3. ASSUME NEW i \in 1..Len(q) PROVE q[i] \in ProcType /\ ProcInv(l, q[i])
  BY <1>1, ElementOfSeq DEF LoopQueueInv
<1>4. \A i, j \in 1..Len(q) :
         q[i].op = "enter" /\ q[j].op = "enter" /\ q[i].sock = q[j].sock => i = j
  BY DEF LoopQueueInv
<1>5. ASSUME NEW i \in 1..Len(r) PROVE i \in 1..Len(q) \/ i = Len(q) + 1
  BY <1>1, <1>2
<1> HIDE DEF q, r
<1>6. ASSUME NEW i \in 1..Len(r)
      PROVE  LET x == r[i] IN
             /\ x.op = "enter" => status'[x.sock] = "queued" /\ home'[x.sock] = l
             /\ x.op = "call" => /\ x.id \in IdType /\ x.id.loopIndex = l
                                 /\ [id |-> x.id, sock |-> x.sock, gen |-> x.gen] \in known'
  <2>1. CASE i \in 1..Len(q)
    <3>1. r[i] \in ProcType /\ ProcInv(l, r[i])
      BY <1>2, <1>3, <2>1
    <3> QED BY <3>1 DEF ProcInv, ProcType
  <2>2. CASE i = Len(q) + 1
    BY <1>2, <2>2
  <2> QED BY <1>5, <2>1, <2>2
<1>7. ASSUME NEW i \in 1..Len(q), r[i].op = "enter", p.op = "enter" PROVE r[i].sock # p.sock
  <2>1. r[i] = q[i] /\ ProcInv(l, q[i])
    BY <1>2, <1>3
  <2> QED BY <1>7, <2>1 DEF ProcInv
<1>8. ASSUME NEW i \in 1..Len(r), NEW j \in 1..Len(r),
             r[i].op = "enter", r[j].op = "enter", r[i].sock = r[j].sock
      PROVE  i = j
  <2>1. CASE i \in 1..Len(q) /\ j \in 1..Len(q)
    BY <1>2, <1>4, <1>8, <2>1
  <2>2. CASE i \in 1..Len(q) /\ j = Len(q) + 1
    BY <1>2, <1>7, <1>8, <2>2
  <2>3. CASE j \in 1..Len(q) /\ i = Len(q) + 1
    BY <1>2, <1>7, <1>8, <2>3
  <2> QED BY <1>5, <2>1, <2>2, <2>3
<1> QED BY <1>6, <1>8 DEF LoopQueueInv, ProcInv, r

\* Every step keeps the queues in order.
LEMMA QueueStep ==
    ASSUME TableInv, [Next]_vars
    PROVE  QueueInv'
<1> USE DEF TableInv
<1>1. ASSUME NEW s \in Sockets, NEW l \in Loops, AddDataSocket(s, l) PROVE QueueInv'
  <2> DEFINE p == [op |-> "enter", sock |-> s, id |-> Null, gen |-> gen]
  <2>1. p \in ProcType /\ loopData' = [loopData EXCEPT ![l] = Pushed(loopData[l], p)]
    BY <1>1, PushedByAdd
  <2>2. /\ status[s] = "new" /\ status'[s] = "queued" /\ home'[s] = l /\ known' = known
        /\ \A t \in Sockets : t # s => status'[t] = status[t] /\ home'[t] = home[t]
    BY <1>1 DEF AddDataSocket, TypeOK
  <2>3. loopData'[l] = Pushed(loopData[l], p) /\ \A m \in Loops : m # l => loopData'[m] = loopData[m]
    BY <2>1 DEF TypeOK
  <2>4. p.op = "enter" /\ p.sock = s
    OBVIOUS
  <2> HIDE DEF p
  <2>5. LoopQueueInv(l)'
    BY <2>1, <2>2, <2>3, <2>4, QueuePushed DEF QueueInv
  <2>6. ASSUME NEW m \in Loops, m # l PROVE LoopQueueInv(m)'
    BY <2>2, <2>3, <2>6, QueueKept DEF QueueInv
  <2> QED BY <2>5, <2>6 DEF QueueInv
<1>2. ASSUME NEW s \in Sockets, NEW l \in Loops, EnterAtOnce(s, l) PROVE QueueInv'
  <2>1. Entering(l, loopData[l], s) /\ status[s] = "new"
    BY <1>2, EnterAtOnceIsEntering DEF EnterAtOnce
  <2>2. /\ loopData'[l] = Entered(loopData[l], s) /\ \A m \in Loops : m # l => loopData'[m] = loopData[m]
        /\ \A t \in Sockets : t # s => status'[t] = status[t] /\ home'[t] = home[t]
        /\ known \subseteq known'
    BY <2>1, EnteringProps
  <2>3. loopData'[l].queue = loopData[l].queue
    <3>1. loopData[l] \in DataType /\ FreeInRange(loopData[l])
      BY DEF TypeOK
    <3>2. Entered(loopData[l], s).queue = loopData[l].queue
      BY <3>1, EnteredProps
    <3> QED BY <2>2, <3>2
  <2>4. ASSUME NEW m \in Loops PROVE LoopQueueInv(m)'
    <3>1. loopData'[m].queue = loopData[m].queue
      BY <2>2, <2>3
    <3> QED BY <2>1, <2>2, <3>1, QueueKept DEF QueueInv
  <2> QED BY <2>4 DEF QueueInv
<1>3. ASSUME NEW l \in Loops, Enter(l) PROVE QueueInv'
  <2> DEFINE p == Head(loopData[l].queue)
             d == Popped(loopData[l])
  <2>1. p.sock \in Sockets /\ p.op = "enter" /\ Entering(l, d, p.sock)
    BY <1>3, EnterIsEntering
  <2>2. /\ loopData'[l] = Entered(d, p.sock) /\ \A m \in Loops : m # l => loopData'[m] = loopData[m]
        /\ \A t \in Sockets : t # p.sock => status'[t] = status[t] /\ home'[t] = home[t]
        /\ home'[p.sock] = l /\ known \subseteq known'
    BY <2>1, EnteringProps
  <2>3. home[p.sock] = l
    BY <1>3, <2>1, <2>2 DEF Enter
  <2>4. loopData'[l].queue = d.queue
    <3>1. d \in DataType /\ FreeInRange(d)
      BY <2>1 DEF Entering
    <3>2. Entered(d, p.sock).queue = d.queue
      BY <2>1, <3>1, EnteredProps
    <3> QED BY <2>2, <3>2
  <2>5. loopData[l].queue # <<>>
    BY <1>3 DEF Enter, NextIsEnter
  <2> HIDE DEF d
  <2>6. LoopQueueInv(l)'
    BY <2>1, <2>2, <2>4, <2>5, QueuePopped DEF QueueInv, d
  <2>7. ASSUME NEW m \in Loops, m # l PROVE LoopQueueInv(m)'
    <3>1. loopData'[m].queue = loopData[m].queue
      BY <2>2, <2>7
    <3>2. \A t \in Sockets : status[t] = "queued" /\ home[t] = m => t # p.sock
      BY <2>3, <2>7
    <3> QED BY <2>2, <3>1, <3>2, QueueKept DEF QueueInv
  <2> QED BY <2>6, <2>7 DEF QueueInv
<1>4. ASSUME NEW l \in Loops, EnterFails(l) PROVE QueueInv'
  <2> DEFINE p == Head(loopData[l].queue)
  <2>1. /\ loopData[l] \in DataType /\ FreeInRange(loopData[l]) /\ loopData[l].queue # <<>>
        /\ p.op = "enter"
    BY <1>4 DEF TypeOK, EnterFails, NextIsEnter
  <2>2. p \in ProcType /\ p = loopData[l].queue[1] /\ Len(loopData[l].queue) \in Nat \ {0}
    BY <2>1, PoppedProps
  <2>3. ProcInv(l, p)
    BY <2>2 DEF QueueInv, LoopQueueInv
  <2>4. p.sock \in Sockets /\ home[p.sock] = l
    BY <2>1, <2>2, <2>3 DEF ProcInv, ProcType
  <2>5. loopData' = [loopData EXCEPT ![l] = Popped(loopData[l])]
    BY <1>4 DEF EnterFails, Popped
  <2>6. loopData'[l] = Popped(loopData[l]) /\ \A m \in Loops : m # l => loopData'[m] = loopData[m]
    BY <2>5 DEF TypeOK
  <2>7. /\ \A t \in Sockets : t # p.sock => status'[t] = status[t]
        /\ home' = home /\ known' = known
    BY <1>4 DEF EnterFails, TypeOK
  <2> HIDE DEF p
  <2>8. LoopQueueInv(l)'
    BY <2>1, <2>6, <2>7, QueuePopped DEF QueueInv, p
  <2>9. ASSUME NEW m \in Loops, m # l PROVE LoopQueueInv(m)'
    <3>1. loopData'[m].queue = loopData[m].queue
      BY <2>6, <2>9
    <3>2. \A t \in Sockets : status[t] = "queued" /\ home[t] = m => t # p.sock
      BY <2>4, <2>9
    <3> QED BY <2>7, <3>1, <3>2, QueueKept DEF QueueInv
  <2> QED BY <2>8, <2>9 DEF QueueInv
<1>5. ASSUME NEW l \in Loops, RunCall(l) PROVE QueueInv'
  <2>1. /\ loopData[l].queue # <<>> /\ loopData' = [loopData EXCEPT ![l] = Popped(loopData[l])]
        /\ status' = status /\ home' = home /\ known' = known
    BY <1>5 DEF RunCall, Popped
  <2>2. loopData'[l] = Popped(loopData[l]) /\ \A m \in Loops : m # l => loopData'[m] = loopData[m]
    BY <2>1 DEF TypeOK
  <2>3. LoopQueueInv(l)'
    BY <2>1, <2>2, QueuePopped DEF QueueInv
  <2>4. ASSUME NEW m \in Loops, m # l PROVE LoopQueueInv(m)'
    BY <2>1, <2>2, <2>4, QueueKept DEF QueueInv
  <2> QED BY <2>3, <2>4 DEF QueueInv
<1>6. ASSUME NEW k \in known, CallById(k), running PROVE QueueInv'
  <2> DEFINE p == [op |-> "call", sock |-> k.sock, id |-> k.id, gen |-> k.gen]
             l == k.id.loopIndex
  <2>1. l \in Loops /\ p \in ProcType /\ loopData' = [loopData EXCEPT ![l] = Pushed(loopData[l], p)]
    BY <1>6, PushedByCall
  <2>2. loopData'[l] = Pushed(loopData[l], p) /\ \A m \in Loops : m # l => loopData'[m] = loopData[m]
    BY <2>1 DEF TypeOK
  <2>3. status' = status /\ home' = home /\ known' = known
    BY <1>6 DEF CallById
  <2>4. k \in [id : IdType, sock : Sockets, gen : Nat]
    BY DEF TypeOK
  <2>5. k = [id |-> k.id, sock |-> k.sock, gen |-> k.gen] /\ k.id \in IdType
    BY <2>4
  <2>6. p.op = "call" /\ p.sock = k.sock /\ p.id = k.id /\ p.gen = k.gen
    OBVIOUS
  <2> HIDE DEF p
  <2>7. /\ p.id \in IdType /\ p.id.loopIndex = l
        /\ [id |-> p.id, sock |-> p.sock, gen |-> p.gen] \in known'
    BY <2>3, <2>5, <2>6
  <2> HIDE DEF l
  <2>8. LoopQueueInv(l)'
    BY <2>1, <2>2, <2>3, <2>6, <2>7, QueuePushed DEF QueueInv
  <2>9. ASSUME NEW m \in Loops, m # l PROVE LoopQueueInv(m)'
    BY <2>2, <2>3, <2>9, QueueKept DEF QueueInv
  <2> QED BY <2>8, <2>9 DEF QueueInv
<1>7. ASSUME \A m \in Loops : loopData'[m].queue = loopData[m].queue, known' = known, home' = home,
             \A t \in Sockets : status[t] = "queued" => status'[t] = "queued"
      PROVE  QueueInv'
  BY <1>7, QueueKept DEF QueueInv
<1>8. ASSUME NEW s \in Sockets, CloseSocket(s) PROVE QueueInv'
  <2> DEFINE e == Closed(loopData[home[s]], ud[s].index)
  <2>1. /\ home[s] \in Loops /\ loopData[home[s]] \in DataType /\ FreeInRange(loopData[home[s]])
        /\ ud[s].index \in Nat /\ ud[s].index < Len(loopData[home[s]].mValues)
        /\ loopData'[home[s]] = e /\ \A m \in Loops : m # home[s] => loopData'[m] = loopData[m]
        /\ status[s] = "open" /\ \A t \in Sockets : t # s => status'[t] = status[t]
        /\ home' = home
    BY <1>8, ClosingProps
  <2>2. e.queue = loopData[home[s]].queue
    BY <2>1, ClosedProps
  <2>3. known' = known
    BY <1>8 DEF CloseSocket
  <2> QED BY <1>7, <2>1, <2>2, <2>3
<1>9. CASE StartWorkerThread
  BY <1>9 DEF StartWorkerThread, NewLoopData, QueueInv, LoopQueueInv
<1>10. CASE StopWorkerThread
  BY <1>7, <1>10 DEF StopWorkerThread
<1>11. ASSUME NEW s \in Sockets, AddDataSocketFails(s) PROVE QueueInv'
  BY <1>7, <1>11 DEF AddDataSocketFails, TypeOK
<1>12. ASSUME NEW k \in known, CallById(k), ~running PROVE QueueInv'
  BY <1>7, <1>12 DEF CallById
<1>13. ASSUME NEW k \in known, CallInLoop(k) PROVE QueueInv'
  BY <1>7, <1>13 DEF CallInLoop
<1>14. CASE UNCHANGED vars
  BY <1>7, <1>14 DEF vars
<1> QED BY <1>1, <1>2, <1>3, <1>4, <1>5, <1>6, <1>8, <1>9, <1>10, <1>11, <1>12, <1>13, <1>14 DEF Next

\* A step that touches no table: no session opens, closes, moves or gets an id.
Quiet ==
    /\ \A l \in Loops : /\ loopData'[l].mValues = loopData[l].mValues
                        /\ loopData'[l].mIds = loopData[l].mIds
                        /\ loopData'[l].mNextId = loopData[l].mNextId
    /\ \A s \in Sockets : status'[s] = "open" <=> status[s] = "open"
    /\ \A s \in Sockets : status[s] = "open" => home'[s] = home[s]
    /\ ud' = ud /\ known' = known /\ gen' = gen
    /\ asserted' \subseteq asserted \cup {"loopIndex", "get"}

\* One loop's queue changes and nothing else of its data.
LEMMA QuietData ==
    ASSUME TypeOK, NEW l \in Loops, NEW D, loopData' = [loopData EXCEPT ![l] = D],
           D.mValues = loopData[l].mValues, D.mIds = loopData[l].mIds, D.mNextId = loopData[l].mNextId
    PROVE  \A m \in Loops : /\ loopData'[m].mValues = loopData[m].mValues
                            /\ loopData'[m].mIds = loopData[m].mIds
                            /\ loopData'[m].mNextId = loopData[m].mNextId
  BY DEF TypeOK

\* Only entering, closing and restarting touch the tables.
LEMMA QuietStep ==
    ASSUME TableInv, [Next]_vars
    PROVE  \/ \E s \in Sockets, l \in Loops : EnterAtOnce(s, l)
           \/ \E l \in Loops : Enter(l)
           \/ \E s \in Sockets : CloseSocket(s)
           \/ StartWorkerThread
           \/ Quiet
<1> USE DEF TableInv
<1>1. ASSUME NEW s \in Sockets, NEW l \in Loops, AddDataSocket(s, l) PROVE Quiet
  <2> DEFINE p == [op |-> "enter", sock |-> s, id |-> Null, gen |-> gen]
  <2>1. p \in ProcType /\ loopData' = [loopData EXCEPT ![l] = Pushed(loopData[l], p)]
    BY <1>1, PushedByAdd
  <2>2. loopData[l] \in DataType /\ FreeInRange(loopData[l])
    BY DEF TypeOK
  <2> HIDE DEF p
  <2>3. \A m \in Loops : /\ loopData'[m].mValues = loopData[m].mValues
                         /\ loopData'[m].mIds = loopData[m].mIds
                         /\ loopData'[m].mNextId = loopData[m].mNextId
    BY <2>1, <2>2, PushedProps, QuietData
  <2> QED BY <1>1, <2>3 DEF AddDataSocket, TypeOK, Quiet
<1>2. ASSUME NEW s \in Sockets, AddDataSocketFails(s) PROVE Quiet
  BY <1>2 DEF AddDataSocketFails, TypeOK, Quiet
<1>3. ASSUME NEW l \in Loops, loopData[l].queue # <<>>,
             loopData' = [loopData EXCEPT ![l].queue = Tail(@)]
      PROVE  \A m \in Loops : /\ loopData'[m].mValues = loopData[m].mValues
                              /\ loopData'[m].mIds = loopData[m].mIds
                              /\ loopData'[m].mNextId = loopData[m].mNextId
  <2>1. loopData[l] \in DataType /\ FreeInRange(loopData[l])
    BY DEF TypeOK
  <2>2. loopData' = [loopData EXCEPT ![l] = Popped(loopData[l])]
    BY <1>3 DEF Popped
  <2> QED BY <1>3, <2>1, <2>2, PoppedProps, QuietData
<1>4. ASSUME NEW l \in Loops, EnterFails(l) PROVE Quiet
  <2> DEFINE p == Head(loopData[l].queue)
  <2>1. /\ loopData[l] \in DataType /\ FreeInRange(loopData[l]) /\ loopData[l].queue # <<>>
        /\ p.op = "enter"
    BY <1>4 DEF TypeOK, EnterFails, NextIsEnter
  <2>2. p = loopData[l].queue[1] /\ Len(loopData[l].queue) \in Nat \ {0}
    BY <2>1, PoppedProps
  <2>3. ProcInv(l, p)
    BY <2>2 DEF QueueInv, LoopQueueInv
  <2>4. status[p.sock] = "queued"
    BY <2>1, <2>3 DEF ProcInv
  <2>5. /\ \A t \in Sockets : status'[t] = IF t = p.sock THEN "failed" ELSE status[t]
        /\ loopData' = [loopData EXCEPT ![l].queue = Tail(@)]
        /\ ud' = ud /\ home' = home /\ known' = known /\ gen' = gen /\ asserted' = asserted
    BY <1>4 DEF EnterFails, TypeOK
  <2> HIDE DEF p
  <2> QED BY <1>3, <2>1, <2>4, <2>5 DEF Quiet
<1>5. ASSUME NEW l \in Loops, RunCall(l) PROVE Quiet
  <2>1. /\ loopData[l].queue # <<>> /\ loopData' = [loopData EXCEPT ![l].queue = Tail(@)]
        /\ asserted' \subseteq asserted \cup {"loopIndex", "get"}
        /\ status' = status /\ ud' = ud /\ home' = home /\ known' = known /\ gen' = gen
    BY <1>5 DEF RunCall, Reach
  <2> QED BY <1>3, <2>1 DEF Quiet
<1>6. ASSUME NEW k \in known, CallById(k) PROVE Quiet
  <2>1. \A m \in Loops : /\ loopData'[m].mValues = loopData[m].mValues
                         /\ loopData'[m].mIds = loopData[m].mIds
                         /\ loopData'[m].mNextId = loopData[m].mNextId
    <3>1. CASE running
      <4> DEFINE p == [op |-> "call", sock |-> k.sock, id |-> k.id, gen |-> k.gen]
                 l == k.id.loopIndex
      <4>1. l \in Loops /\ p \in ProcType /\ loopData' = [loopData EXCEPT ![l] = Pushed(loopData[l], p)]
        BY <1>6, <3>1, PushedByCall
      <4>2. loopData[l] \in DataType /\ FreeInRange(loopData[l])
        BY <4>1 DEF TypeOK
      <4> HIDE DEF p, l
      <4> QED BY <4>1, <4>2, PushedProps, QuietData
    <3>2. CASE ~running
      BY <1>6, <3>2 DEF CallById
    <3> QED BY <3>1, <3>2
  <2> QED BY <1>6, <2>1 DEF CallById, Quiet
<1>7. ASSUME NEW k \in known, CallInLoop(k) PROVE Quiet
  BY <1>7 DEF CallInLoop, Reach, Quiet
<1>8. CASE StopWorkerThread
  BY <1>8 DEF StopWorkerThread, Quiet
<1>9. CASE UNCHANGED vars
  BY <1>9 DEF vars, Quiet
<1> QED BY <1>1, <1>2, <1>4, <1>5, <1>6, <1>7, <1>8, <1>9 DEF Next

\* Every step keeps the tables in order.
LEMMA SlotStep ==
    ASSUME TableInv, [Next]_vars
    PROVE  SlotInv' /\ OpenInv'
<1> USE DEF TableInv
<1>1. ASSUME NEW s \in Sockets, NEW l \in Loops, EnterAtOnce(s, l) PROVE SlotInv' /\ OpenInv'
  BY <1>1, EnterAtOnceIsEntering, EnteringTable
<1>2. ASSUME NEW l \in Loops, Enter(l) PROVE SlotInv' /\ OpenInv'
  BY <1>2, EnterIsEntering, EnteringTable
<1>3. ASSUME NEW s \in Sockets, CloseSocket(s) PROVE SlotInv' /\ OpenInv'
  BY <1>3, ClosingTable
<1>4. CASE StartWorkerThread
  BY <1>4 DEF StartWorkerThread, NewLoopData, SlotInv, OpenInv, TypeOK
<1>5. CASE Quiet
  BY <1>5, KeptTable DEF Quiet
<1> QED BY <1>1, <1>2, <1>3, <1>4, <1>5, QuietStep

\* A service that starts has empty tables.
LEMMA InitTable == Init => TableInv
<1> SUFFICES ASSUME Init PROVE TableInv
  OBVIOUS
<1>1. NewLoopData \in DataType /\ FreeInRange(NewLoopData) /\ NewLoopData.mValues = <<>> /\ NewLoopData.queue = <<>>
  BY DEF NewLoopData, DataType, FreeInRange
<1>2. /\ loopData \in [Loops -> DataType]
      /\ \A l \in Loops : /\ FreeInRange(loopData[l]) /\ loopData[l].mValues = <<>>
                          /\ loopData[l].queue = <<>>
  BY <1>1 DEF Init
<1>3. running \in BOOLEAN /\ 0 \in Loops
  BY WidthsAssumption DEF Init, Loops
<1>4. TypeOK
  BY <1>2, <1>3, WidthsAssumption DEF Init, TypeOK
<1>5. SlotInv /\ OpenInv /\ QueueInv
  BY <1>2 DEF Init, SlotInv, OpenInv, QueueInv, LoopQueueInv
<1> QED BY <1>4, <1>5 DEF TableInv

\* The tables and queues are always in order, whatever the widths of the
\* fields of an id: a slot that wraps overwrites a session, but what the slot
\* then holds is still an open session that carries the slot's number.
THEOREM TableInvariant == Spec => []TableInv
<1>1. TableInv /\ [Next]_vars => TableInv'
  BY TypeStep, QueueStep, SlotStep DEF TableInv
<1> QED BY <1>1, InitTable, PTL DEF Spec

\* The table of a loop never holds the pointer of a deleted DataSocket: the
\* disconnect callback clears the slot before procDataSocketClose's socket is
\* freed, whichever thread added it and however often the workers restart.
THEOREM SlotsHoldOpenSockets == Spec => []NoDanglingSlot
<1>1. TableInv => NoDanglingSlot
  BY DEF TableInv, SlotInv, NoDanglingSlot
<1> QED BY <1>1, TableInvariant, PTL

(***************************************************************************)
(* What holds while the serial numbers fit.                                *)
(***************************************************************************)

\* No loop has given out more serial numbers than SessionId::iid can hold.
SerialsFit == \A l \in Loops : loopData[l].mNextId <= IidMod

\* Ids of the running workers carry serial numbers below the next one, and
\* no open session carries the id of another session of these workers.
FreshInv ==
    /\ \A k \in known : /\ k.gen <= gen
                        /\ k.gen = gen => k.id.iid < loopData[k.id.loopIndex].mNextId
    /\ \A s \in Sockets : status[s] = "open" => ud[s].iid < loopData[home[s]].mNextId
    /\ \A s \in Sockets : \A k \in known :
          status[s] = "open" /\ k.gen = gen /\ ud[s] = k.id => s = k.sock
    /\ NoFreshMisdelivery

\* A call with an id of the running workers finds its own session or none.
LEMMA ReachFresh ==
    ASSUME TableInv, FreshInv, NEW l \in Loops, NEW c, Reach(loopData[l], c), c.id \in IdType,
           [id |-> c.id, sock |-> c.sock, gen |-> c.gen] \in known
    PROVE  NoFreshMisdelivery'
<1> USE DEF TableInv
<1> DEFINE s == Lookup(loopData[l], c.id)
<1>1. ASSUME s # Null, c.gen = gen PROVE c.sock = s
  <2>1. /\ s \in Sockets /\ c.id.index + 1 \in 1..Len(loopData[l].mValues)
        /\ loopData[l].mValues[c.id.index + 1] = s /\ ud[s] = c.id
    BY <1>1, LookupProps DEF TypeOK
  <2>2. status[s] = "open"
    BY <1>1, <2>1 DEF SlotInv
  <2> HIDE DEF s
  <2>3. LET k == [id |-> c.id, sock |-> c.sock, gen |-> c.gen] IN
        status[s] = "open" /\ k.gen = gen /\ ud[s] = k.id => s = k.sock
    BY <2>1 DEF FreshInv
  <2> QED BY <1>1, <2>1, <2>2, <2>3
<1> HIDE DEF s
<1>2. ASSUME NEW r \in reached', r \notin reached, r.fresh PROVE r.meant = r.called
  <2>1. r = [meant |-> c.sock, called |-> s, fresh |-> c.gen = gen] /\ s # Null
    BY <1>2 DEF Reach, s
  <2>2. r.meant = c.sock /\ r.called = s /\ c.gen = gen
    BY <1>2, <2>1
  <2> QED BY <1>1, <2>1, <2>2
<1>3. ASSUME NEW r \in reached, r.fresh PROVE r.meant = r.called
  BY <1>3 DEF FreshInv, NoFreshMisdelivery
<1> QED BY <1>2, <1>3 DEF NoFreshMisdelivery

\* Entering gives out an id that none of the running workers has given out.
LEMMA EnteringFresh ==
    ASSUME TableInv, FreshInv, SerialsFit', NEW l \in Loops, NEW s \in Sockets, NEW d,
           Entering(l, d, s), gen' = gen, reached' = reached
    PROVE  FreshInv'
<1> USE DEF TableInv
<1> DEFINE id == MakeID(l, d)
           n  == loopData[l].mNextId
<1>1. d \in DataType /\ FreeInRange(d) /\ d.mNextId = n /\ status[s] \in {"new", "queued"}
  BY DEF Entering
<1>2. /\ loopData'[l] = Entered(d, s) /\ \A m \in Loops : m # l => loopData'[m] = loopData[m]
      /\ id \in IdType /\ id.loopIndex = l /\ id.iid = d.mNextId % IidMod
      /\ ud'[s] = id /\ status'[s] = "open" /\ home'[s] = l
      /\ \A t \in Sockets : t # s => ud'[t] = ud[t] /\ status'[t] = status[t] /\ home'[t] = home[t]
      /\ known' = known \cup {[id |-> id, sock |-> s, gen |-> gen]}
  BY EnteringProps
<1>3. Entered(d, s).mNextId = d.mNextId + 1
  BY <1>1, EnteredProps
<1>4. n \in Nat /\ \A m \in Loops : loopData[m].mNextId \in Nat
  BY DEF TypeOK, DataType
<1>5. loopData'[l].mNextId = n + 1 /\ id.iid = n
  <2>1. loopData'[l].mNextId = n + 1
    BY <1>1, <1>2, <1>3
  <2>2. n + 1 <= IidMod
    BY <2>1 DEF SerialsFit
  <2>3. \A a \in Nat, b \in Nat \ {0} : a + 1 <= b => a % b = a
    OBVIOUS
  <2> QED BY <1>1, <1>2, <1>4, <2>1, <2>2, <2>3, WidthsAssumption
<1> HIDE DEF id, n
<1>6. ASSUME NEW m \in Loops, NEW i \in Nat, i < loopData[m].mNextId PROVE i < loopData'[m].mNextId
  BY <1>2, <1>4, <1>5, <1>6 DEF n
<1>7. ASSUME NEW k \in known
      PROVE  /\ k.id \in IdType /\ k.id.loopIndex \in Loops /\ k.id.iid \in Nat /\ k.sock \in Sockets
             /\ k.gen <= gen /\ (k.gen = gen => k.id.iid < loopData[k.id.loopIndex].mNextId)
  <2>1. k \in [id : IdType, sock : Sockets, gen : Nat]
    BY DEF TypeOK
  <2>2. k.id \in IdType /\ k.sock \in Sockets
    BY <2>1
  <2>3. k.id.loopIndex \in Loops /\ k.id.iid \in Nat
    BY <2>2, WidthsAssumption DEF IdType
  <2> QED BY <2>2, <2>3 DEF FreshInv
<1>8. ASSUME NEW t \in Sockets, t # s, status'[t] = "open"
      PROVE  /\ status[t] = "open" /\ home[t] \in Loops /\ ud[t] \in IdType
             /\ ud[t].loopIndex = home[t] /\ ud[t].iid \in Nat
             /\ ud[t].iid < loopData[home[t]].mNextId
  <2>1. status[t] = "open" /\ home[t] \in Loops
    BY <1>2, <1>8 DEF TypeOK
  <2>2. ud[t] \in IdType /\ ud[t].loopIndex = home[t] /\ ud[t].iid < loopData[home[t]].mNextId
    BY <2>1 DEF OpenInv, FreshInv
  <2>3. ud[t].iid \in Nat
    BY <2>2, WidthsAssumption DEF IdType
  <2> QED BY <2>1, <2>2, <2>3
<1> DEFINE new == [id |-> id, sock |-> s, gen |-> gen]
<1>9. new.id = id /\ new.sock = s /\ new.gen = gen
  OBVIOUS
<1>10. known' = known \cup {new}
  BY <1>2
<1> HIDE DEF new
<1>11. ASSUME NEW k \in known'
       PROVE  k.gen <= gen /\ (k.gen = gen => k.id.iid < loopData'[k.id.loopIndex].mNextId)
  <2>1. CASE k = new
    <3>1. gen \in Nat
      BY DEF TypeOK
    <3> QED BY <1>2, <1>4, <1>5, <1>9, <2>1, <3>1
  <2>2. CASE k \in known
    BY <1>6, <1>7, <2>2
  <2> QED BY <1>10, <2>1, <2>2
<1>12. ASSUME NEW t \in Sockets, status'[t] = "open" PROVE ud'[t].iid < loopData'[home'[t]].mNextId
  <2>1. CASE t = s
    BY <1>2, <1>4, <1>5, <2>1
  <2>2. CASE t # s
    <3>1. ud'[t] = ud[t] /\ home'[t] = home[t]
      BY <1>2, <2>2
    <3> QED BY <1>6, <1>8, <1>12, <2>2, <3>1
  <2> QED BY <2>1, <2>2
<1>13. ASSUME NEW t \in Sockets, NEW k \in known', status'[t] = "open", k.gen = gen, ud'[t] = k.id
       PROVE  t = k.sock
  <2>1. CASE k = new /\ t = s
    BY <1>9, <2>1
  <2>2. CASE k = new /\ t # s
    <3>1. ud[t] = id /\ ud[t].loopIndex = l /\ home[t] = l
      BY <1>2, <1>8, <1>9, <1>13, <2>2
    <3>2. id.iid < n /\ id.iid = n
      BY <1>5, <1>8, <1>13, <2>2, <3>1 DEF n
    <3> QED BY <1>4, <3>2
  <2>3. CASE k \in known /\ t = s
    <3>1. k.id = id /\ k.id.iid < loopData[l].mNextId
      BY <1>2, <1>7, <1>13, <2>3
    <3>2. id.iid < n /\ id.iid = n
      BY <1>5, <3>1 DEF n
    <3> QED BY <1>4, <3>2
  <2>4. CASE k \in known /\ t # s
    <3>1. status[t] = "open" /\ ud[t] = k.id
      BY <1>2, <1>13, <2>4
    <3> QED BY <1>13, <2>4, <3>1 DEF FreshInv
  <2> QED BY <1>10, <2>1, <2>2, <2>3, <2>4
<1>14. NoFreshMisdelivery'
  BY DEF FreshInv, NoFreshMisdelivery
<1> QED BY <1>11, <1>12, <1>13, <1>14 DEF FreshInv

\* Every step keeps FreshInv while the serial numbers fit.
LEMMA FreshStep ==
    ASSUME TableInv, FreshInv, SerialsFit', [Next]_vars
    PROVE  FreshInv'
<1> USE DEF TableInv
<1>1. ASSUME NEW s \in Sockets, NEW l \in Loops, EnterAtOnce(s, l) PROVE FreshInv'
  BY <1>1, EnterAtOnceIsEntering, EnteringFresh DEF EnterAtOnce
<1>2. ASSUME NEW l \in Loops, Enter(l) PROVE FreshInv'
  BY <1>2, EnterIsEntering, EnteringFresh DEF Enter
<1>3. ASSUME gen' = gen, known' = known, ud' = ud,
             \A t \in Sockets : status'[t] = "open" => status[t] = "open" /\ home'[t] = home[t],
             \A m \in Loops : loopData'[m].mNextId = loopData[m].mNextId,
             NoFreshMisdelivery'
      PROVE  FreshInv'
  <2>1. ASSUME NEW k \in known PROVE k.id.loopIndex \in Loops
    <3>1. k \in [id : IdType, sock : Sockets, gen : Nat]
      BY DEF TypeOK
    <3>2. k.id \in IdType
      BY <3>1
    <3> QED BY <3>2 DEF IdType
  <2>2. \A t \in Sockets : home[t] \in Loops
    BY DEF TypeOK
  <2> QED BY <1>3, <2>1, <2>2 DEF FreshInv
<1>4. ASSUME NEW s \in Sockets, CloseSocket(s) PROVE FreshInv'
  <2> DEFINE e == Closed(loopData[home[s]], ud[s].index)
  <2>1. /\ home[s] \in Loops /\ loopData[home[s]] \in DataType /\ FreeInRange(loopData[home[s]])
        /\ ud[s].index \in Nat /\ ud[s].index < Len(loopData[home[s]].mValues)
        /\ loopData'[home[s]] = e /\ \A m \in Loops : m # home[s] => loopData'[m] = loopData[m]
        /\ status'[s] = "deleted" /\ \A t \in Sockets : t # s => status'[t] = status[t]
        /\ home' = home /\ ud' = ud
    BY <1>4, ClosingProps
  <2>2. e.mNextId = loopData[home[s]].mNextId
    BY <2>1, ClosedProps
  <2>3. known' = known /\ gen' = gen /\ reached' = reached
    BY <1>4 DEF CloseSocket
  <2>4. NoFreshMisdelivery'
    BY <2>3 DEF FreshInv, NoFreshMisdelivery
  <2> QED BY <1>3, <2>1, <2>2, <2>3, <2>4
<1>5. CASE StartWorkerThread
  <2>1. gen' = gen + 1 /\ gen \in Nat /\ known' = known /\ reached' = reached
    BY <1>5 DEF StartWorkerThread, TypeOK
  <2>2. \A t \in Sockets : status'[t] # "open"
    BY <1>5 DEF StartWorkerThread, TypeOK
  <2>3. ASSUME NEW k \in known PROVE k.gen <= gen' /\ k.gen # gen'
    <3>1. k \in [id : IdType, sock : Sockets, gen : Nat]
      BY DEF TypeOK
    <3>2. k.gen \in Nat /\ k.gen <= gen
      BY <3>1 DEF FreshInv
    <3> QED BY <2>1, <3>2
  <2>4. NoFreshMisdelivery'
    BY <2>1 DEF FreshInv, NoFreshMisdelivery
  <2> QED BY <2>1, <2>2, <2>3, <2>4 DEF FreshInv
<1>6. CASE Quiet
  <2>1. ASSUME NEW l \in Loops, RunCall(l) PROVE NoFreshMisdelivery'
    <3> DEFINE c == Head(loopData[l].queue)
    <3>1. /\ loopData[l] \in DataType /\ FreeInRange(loopData[l]) /\ loopData[l].queue # <<>>
          /\ c.op = "call" /\ Reach(loopData[l], c)
      BY <2>1 DEF TypeOK, RunCall
    <3>2. c = loopData[l].queue[1] /\ Len(loopData[l].queue) \in Nat \ {0}
      BY <3>1, PoppedProps
    <3>3. ProcInv(l, c)
      BY <3>2 DEF QueueInv, LoopQueueInv
    <3> QED BY <3>1, <3>3, ReachFresh DEF ProcInv
  <2>2. ASSUME NEW k \in known, CallInLoop(k) PROVE NoFreshMisdelivery'
    <3>1. k \in [id : IdType, sock : Sockets, gen : Nat]
      BY DEF TypeOK
    <3>2. k.id \in IdType /\ k = [id |-> k.id, sock |-> k.sock, gen |-> k.gen]
      BY <3>1
    <3>3. k.id.loopIndex \in Loops
      BY <3>2 DEF IdType
    <3>4. Reach(loopData[k.id.loopIndex], k)
      BY <2>2 DEF CallInLoop
    <3> QED BY <3>2, <3>3, <3>4, ReachFresh
  <2>3. ASSUME reached' = reached PROVE NoFreshMisdelivery'
    BY <2>3 DEF FreshInv, NoFreshMisdelivery
  <2>4. \/ reached' = reached
        \/ \E l \in Loops : RunCall(l)
        \/ \E k \in known : CallInLoop(k)
    BY DEF Next, vars, AddDataSocket, EnterAtOnce, AddDataSocketFails, CloseSocket, Enter,
           EnterFails, CallById, StopWorkerThread, StartWorkerThread
  <2>5. NoFreshMisdelivery'
    BY <2>1, <2>2, <2>3, <2>4
  <2> QED BY <1>3, <1>6, <2>5 DEF Quiet
<1> QED BY <1>1, <1>2, <1>4, <1>5, <1>6, QuietStep

\* A call made with an id that the running workers gave out reaches the session
\* it was given for or none, as long as no loop has counted its 32-bit serial
\* number (incID, TCPService.cpp:301) round: an id that outlives its session
\* is not mistaken for that of the session which took its slot.
THEOREM FreshIdsReachTheirSession == Spec /\ []SerialsFit => []NoFreshMisdelivery
<1>1. Init => FreshInv
  BY DEF Init, FreshInv, NoFreshMisdelivery
<1>2. TableInv /\ FreshInv /\ SerialsFit' /\ [Next]_vars => FreshInv'
  BY FreshStep
<1>3. FreshInv => NoFreshMisdelivery
  BY DEF FreshInv
<1> QED BY <1>1, <1>2, <1>3, TableInvariant, PTL DEF Spec

(***************************************************************************)
(* What holds while the slots fit.                                         *)
(***************************************************************************)

\* No table is larger than SessionId::index can tell apart.
SlotsFit == \A l \in Loops : Len(loopData[l].mValues) <= IndexMod

Taken(l) == {s \in Sockets : status[s] = "open" /\ home[s] = l}

\* Every open session is in its slot; every other slot is free, once.
FitInv ==
    /\ \A s \in Sockets : status[s] = "open" => loopData[home[s]].mValues[ud[s].index + 1] = s
    /\ \A l \in Loops :
          /\ FreeIsEmpty(loopData[l]) /\ IsFiniteSet(Taken(l))
          /\ Len(loopData[l].mIds) + Cardinality(Taken(l)) = Len(loopData[l].mValues)
    /\ "reclaimID" \notin asserted

\* Entering takes a free slot.
LEMMA EnteringFit ==
    ASSUME TableInv, FitInv, SlotsFit', NEW l \in Loops, NEW s \in Sockets, NEW d,
           Entering(l, d, s), asserted' = asserted
    PROVE  FitInv'
<1> USE DEF TableInv
<1> DEFINE e == Entered(d, s)
           j == EnteredSlot(d)
<1>1. /\ d \in DataType /\ FreeInRange(d) /\ status[s] \in {"new", "queued"}
      /\ d.mValues = loopData[l].mValues /\ d.mIds = loopData[l].mIds
  BY DEF Entering
<1>2. /\ loopData'[l] = e /\ \A m \in Loops : m # l => loopData'[m] = loopData[m]
      /\ e \in DataType /\ ud'[s].index = j /\ status'[s] = "open" /\ home'[s] = l
      /\ \A t \in Sockets : t # s => ud'[t] = ud[t] /\ status'[t] = status[t] /\ home'[t] = home[t]
  BY EnteringProps
<1>3. Len(e.mValues) <= IndexMod
  BY <1>2 DEF SlotsFit
<1>4. FreeIsEmpty(d)
  BY <1>1 DEF FitInv, FreeIsEmpty
<1>5. j \in 0..(IndexMod - 1) /\ j < Len(e.mValues) /\ Len(e.mValues) >= Len(d.mValues)
  <2>1. d \in DataType /\ FreeInRange(d)
    BY <1>1
  <2> QED BY <2>1, EnteredProps
<1>6. j + 1 \in Nat /\ Len(d.mValues) \in Nat /\ Len(e.mValues) \in Nat /\ Len(d.mIds) \in Nat
      /\ Len(e.mIds) \in Nat
  BY <1>1, <1>2, <1>5 DEF DataType
<1>7. /\ e.mValues[j + 1] = s
      /\ \A i \in 1..Len(e.mValues) : i # j + 1 =>
            e.mValues[i] = IF i <= Len(d.mValues) THEN d.mValues[i] ELSE Null
  <2>1. d \in DataType /\ FreeInRange(d)
    BY <1>1
  <2>2. e.mValues[j + 1] = s
    BY <1>5, <1>6, <2>1, EnteredProps
  <2>3. \A i \in 1..Len(e.mValues) : i # j + 1 =>
            e.mValues[i] = IF i <= Len(d.mValues) THEN d.mValues[i] ELSE Null
    BY <1>5, <1>6, <2>1, EnteredProps
  <2> QED BY <2>2, <2>3
<1>8. /\ FreeIsEmpty(e) /\ (j < Len(d.mValues) => d.mValues[j + 1] = Null)
      /\ Len(e.mValues) - Len(e.mIds) = (Len(d.mValues) - Len(d.mIds)) + 1
  BY <1>1, <1>3, <1>4, <1>5, <1>6, EnteredProps
<1> HIDE DEF e, j
<1>9. ASSUME NEW t \in Sockets, status'[t] = "open"
      PROVE  loopData'[home'[t]].mValues[ud'[t].index + 1] = t
  <2>1. CASE t = s
    BY <1>2, <1>7, <2>1
  <2>2. CASE t # s
    <3>1. status[t] = "open" /\ ud'[t] = ud[t] /\ home'[t] = home[t] /\ home[t] \in Loops
      BY <1>2, <1>9, <2>2 DEF TypeOK
    <3>2. /\ ud[t] \in IdType /\ ud[t].index < Len(loopData[home[t]].mValues)
          /\ loopData[home[t]].mValues[ud[t].index + 1] = t
      BY <3>1 DEF OpenInv, FitInv
    <3>3. ud[t].index \in Nat
      BY <3>2, WidthsAssumption DEF IdType
    <3>4. CASE home[t] # l
      BY <1>2, <3>1, <3>2, <3>4
    <3>5. CASE home[t] = l
      <4> DEFINE i == ud[t].index + 1
      <4>1. i \in 1..Len(d.mValues) /\ i \in 1..Len(e.mValues) /\ d.mValues[i] = t
        <5> DEFINE x == ud[t].index
                   a == Len(d.mValues)
                   b == Len(e.mValues)
        <5>1. x \in Nat /\ a \in Nat /\ b \in Nat /\ x < a /\ a <= b
          BY <1>1, <1>5, <1>6, <3>2, <3>3, <3>5
        <5> HIDE DEF x, a, b
        <5>2. x + 1 \in 1..a /\ x + 1 \in 1..b
          BY <5>1
        <5>3. d.mValues[i] = t
          BY <1>1, <3>2, <3>5
        <5> QED BY <5>2, <5>3 DEF x, a, b
      <4>2. i # j + 1
        <5>1. ASSUME i = j + 1 PROVE FALSE
          <6>1. j + 1 \in 1..Len(d.mValues) /\ d.mValues[j + 1] = t
            BY <4>1, <5>1
          <6>2. j < Len(d.mValues)
            BY <1>5, <1>6, <6>1
          <6>3. t = Null
            BY <1>8, <6>1, <6>2
          <6> QED BY <6>3, SocketsAssumption
        <5> QED BY <5>1
      <4>3. e.mValues[i] = t
        BY <1>7, <4>1, <4>2
      <4> QED BY <1>2, <3>1, <3>5, <4>3
    <3> QED BY <3>4, <3>5
  <2> QED BY <2>1, <2>2
<1> DEFINE T(m) == {t \in Sockets : status'[t] = "open" /\ home'[t] = m}
<1>10. ASSUME NEW m \in Loops
       PROVE  /\ FreeIsEmpty(loopData[m]) /\ IsFiniteSet(Taken(m))
              /\ Len(loopData[m].mIds) + Cardinality(Taken(m)) = Len(loopData[m].mValues)
  BY DEF FitInv
<1>11. ASSUME NEW m \in Loops, m # l
       PROVE  /\ FreeIsEmpty(loopData'[m]) /\ IsFiniteSet(T(m))
              /\ Len(loopData'[m].mIds) + Cardinality(T(m)) = Len(loopData'[m].mValues)
  <2>1. T(m) = Taken(m)
    BY <1>1, <1>2, <1>11 DEF Taken
  <2>2. loopData'[m] = loopData[m]
    BY <1>2, <1>11
  <2> HIDE DEF T
  <2> QED BY <1>10, <2>1, <2>2
<1>12. /\ FreeIsEmpty(loopData'[l]) /\ IsFiniteSet(T(l))
       /\ Len(loopData'[l].mIds) + Cardinality(T(l)) = Len(loopData'[l].mValues)
  <2>1. T(l) = Taken(l) \cup {s} /\ s \notin Taken(l)
    BY <1>1, <1>2 DEF Taken
  <2> HIDE DEF T
  <2>2. /\ IsFiniteSet(Taken(l)) /\ Cardinality(Taken(l)) \in Nat
        /\ Len(d.mIds) + Cardinality(Taken(l)) = Len(d.mValues)
    BY <1>1, <1>10, FS_CardinalityType
  <2>3. IsFiniteSet(T(l)) /\ Cardinality(T(l)) = Cardinality(Taken(l)) + 1
    BY <2>1, <2>2, FS_AddElement
  <2>5. Len(e.mIds) + (Cardinality(Taken(l)) + 1) = Len(e.mValues)
    <3> DEFINE a == Len(e.mIds)
               b == Len(e.mValues)
               x == Len(d.mIds)
               y == Len(d.mValues)
               n == Cardinality(Taken(l))
    <3>1. a \in Nat /\ b \in Nat /\ x \in Nat /\ y \in Nat /\ n \in Nat
      BY <1>6, <2>2
    <3>2. x + n = y /\ b - a = (y - x) + 1
      BY <1>8, <2>2
    <3> HIDE DEF a, b, x, y, n
    <3>3. a + (n + 1) = b
      BY <3>1, <3>2
    <3> QED BY <3>3 DEF a, b, n
  <2> QED BY <1>2, <1>8, <2>3, <2>5
<1> QED BY <1>9, <1>11, <1>12 DEF FitInv, Taken

\* Closing gives back a slot that is not free.
LEMMA ClosingFit ==
    ASSUME TableInv, FitInv, NEW s \in Sockets, CloseSocket(s)
    PROVE  FitInv'
<1> USE DEF TableInv
<1> DEFINE h == home[s]
           d == loopData[h]
           j == ud[s].index
           e == Closed(d, j)
<1>1. /\ h \in Loops /\ d \in DataType /\ FreeInRange(d) /\ j \in Nat /\ j < Len(d.mValues)
      /\ loopData'[h] = e /\ \A m \in Loops : m # h => loopData'[m] = loopData[m]
      /\ status[s] = "open" /\ status'[s] = "deleted"
      /\ \A t \in Sockets : t # s => status'[t] = status[t]
      /\ home' = home /\ ud' = ud
  BY ClosingProps
<1>2. d.mValues[j + 1] = s /\ d.mValues[j + 1] # Null /\ FreeIsEmpty(d)
  BY <1>1, SocketsAssumption DEF FitInv
<1>3. /\ Len(e.mValues) = Len(d.mValues) /\ Len(e.mIds) = Len(d.mIds) + 1
      /\ \A i \in 1..Len(d.mValues) : i # j + 1 => e.mValues[i] = d.mValues[i]
      /\ FreeIsEmpty(e) /\ ~Contains(d.mIds, j)
  BY <1>1, <1>2, ClosedProps
<1>4. Len(d.mValues) \in Nat /\ Len(d.mIds) \in Nat
  BY <1>1 DEF DataType
<1>5. "reclaimID" \notin asserted'
  <2>1. asserted' = asserted \cup (IF Contains(d.mIds, j) THEN {"reclaimID"} ELSE {})
    BY DEF CloseSocket
  <2> QED BY <1>3, <2>1 DEF FitInv
<1> HIDE DEF e
<1>6. ASSUME NEW t \in Sockets, status'[t] = "open"
      PROVE  loopData'[home'[t]].mValues[ud'[t].index + 1] = t
  <2>1. t # s /\ status[t] = "open" /\ home[t] \in Loops
    BY <1>1, <1>6 DEF TypeOK
  <2>2. /\ ud[t] \in IdType /\ ud[t].index < Len(loopData[home[t]].mValues)
        /\ loopData[home[t]].mValues[ud[t].index + 1] = t
    BY <2>1 DEF OpenInv, FitInv
  <2>3. ud[t].index \in Nat
    BY <2>2, WidthsAssumption DEF IdType
  <2>4. CASE home[t] # h
    BY <1>1, <2>1, <2>2, <2>4
  <2>5. CASE home[t] = h
    <3> DEFINE i == ud[t].index + 1
    <3>1. i \in 1..Len(d.mValues) /\ d.mValues[i] = t
      BY <1>4, <2>2, <2>3, <2>5
    <3>2. i # j + 1
      BY <1>2, <2>1, <3>1
    <3>3. e.mValues[i] = t
      BY <1>3, <3>1, <3>2
    <3> QED BY <1>1, <2>5, <3>3
  <2> QED BY <2>4, <2>5
<1> DEFINE T(m) == {t \in Sockets : status'[t] = "open" /\ home'[t] = m}
<1>7. ASSUME NEW m \in Loops
      PROVE  /\ FreeIsEmpty(loopData[m]) /\ IsFiniteSet(Taken(m))
             /\ Len(loopData[m].mIds) + Cardinality(Taken(m)) = Len(loopData[m].mValues)
  BY DEF FitInv
<1>8. ASSUME NEW m \in Loops, m # h
      PROVE  /\ FreeIsEmpty(loopData'[m]) /\ IsFiniteSet(T(m))
             /\ Len(loopData'[m].mIds) + Cardinality(T(m)) = Len(loopData'[m].mValues)
  <2>1. T(m) = Taken(m)
    BY <1>1, <1>8 DEF Taken
  <2>2. loopData'[m] = loopData[m]
    BY <1>1, <1>8
  <2> HIDE DEF T
  <2> QED BY <1>7, <2>1, <2>2
<1>9. /\ FreeIsEmpty(loopData'[h]) /\ IsFiniteSet(T(h))
      /\ Len(loopData'[h].mIds) + Cardinality(T(h)) = Len(loopData'[h].mValues)
  <2>1. T(h) = Taken(h) \ {s} /\ s \in Taken(h)
    BY <1>1 DEF Taken
  <2> HIDE DEF T
  <2>2. /\ IsFiniteSet(Taken(h)) /\ Cardinality(Taken(h)) \in Nat
        /\ Len(d.mIds) + Cardinality(Taken(h)) = Len(d.mValues)
    BY <1>1, <1>7, FS_CardinalityType
  <2>3. IsFiniteSet(T(h)) /\ Cardinality(T(h)) = Cardinality(Taken(h)) - 1
    BY <2>1, <2>2, FS_RemoveElement
  <2>5. (Len(d.mIds) + 1) + (Cardinality(Taken(h)) - 1) = Len(d.mValues)
    <3> DEFINE x == Len(d.mIds)
               y == Len(d.mValues)
               n == Cardinality(Taken(h))
    <3>1. x \in Nat /\ y \in Nat /\ n \in Nat /\ x + n = y
      BY <1>4, <2>2
    <3> HIDE DEF x, y, n
    <3>2. (x + 1) + (n - 1) = y
      BY <3>1
    <3> QED BY <3>2 DEF x, y, n
  <2>6. loopData'[h] = e
    BY <1>1
  <2>7. Len(e.mIds) + Cardinality(T(h)) = Len(e.mValues)
    BY <1>3, <2>3, <2>5
  <2> QED BY <1>3, <2>3, <2>6, <2>7
<1>10. \A m \in Loops : /\ FreeIsEmpty(loopData'[m]) /\ IsFiniteSet(T(m))
                         /\ Len(loopData'[m].mIds) + Cardinality(T(m)) = Len(loopData'[m].mValues)
  BY <1>8, <1>9
<1> QED BY <1>5, <1>6, <1>10 DEF FitInv, Taken

\* New tables are empty, with nobody in them.
LEMMA EmptyFit ==
    ASSUME NEW l \in Loops, loopData[l] = NewLoopData, \A s \in Sockets : status[s] # "open"
    PROVE  /\ FreeIsEmpty(loopData[l]) /\ IsFiniteSet(Taken(l))
           /\ Len(loopData[l].mIds) + Cardinality(Taken(l)) = Len(loopData[l].mValues)
<1>1. Taken(l) = {}
  BY DEF Taken
<1>2. IsFiniteSet(Taken(l)) /\ Cardinality(Taken(l)) = 0
  BY <1>1, FS_EmptySet
<1>3. Len(loopData[l].mIds) = 0 /\ Len(loopData[l].mValues) = 0
  BY DEF NewLoopData
<1> QED BY <1>2, <1>3 DEF FreeIsEmpty

\* Every step keeps FitInv while the slots fit.
LEMMA FitStep ==
    ASSUME TableInv, FitInv, SlotsFit', [Next]_vars
    PROVE  FitInv'
<1> USE DEF TableInv
<1>1. ASSUME NEW s \in Sockets, NEW l \in Loops, EnterAtOnce(s, l) PROVE FitInv'
  BY <1>1, EnterAtOnceIsEntering, EnteringFit DEF EnterAtOnce
<1>2. ASSUME NEW l \in Loops, Enter(l) PROVE FitInv'
  BY <1>2, EnterIsEntering, EnteringFit DEF Enter
<1>3. ASSUME NEW s \in Sockets, CloseSocket(s) PROVE FitInv'
  BY <1>3, ClosingFit
<1>4. CASE StartWorkerThread
  <2>1. /\ \A s \in Sockets : status'[s] # "open"
        /\ \A l \in Loops : loopData'[l] = NewLoopData
        /\ asserted' = asserted
    BY <1>4 DEF StartWorkerThread, TypeOK
  <2>2. ASSUME NEW l \in Loops
        PROVE  /\ FreeIsEmpty(loopData'[l]) /\ IsFiniteSet(Taken(l)')
               /\ Len(loopData'[l].mIds) + Cardinality(Taken(l)') = Len(loopData'[l].mValues)
    <3>1. Taken(l)' = {}
      BY <2>1 DEF Taken
    <3>2. IsFiniteSet(Taken(l)') /\ Cardinality(Taken(l)') = 0
      BY <3>1, FS_EmptySet
    <3>3. Len(loopData'[l].mIds) = 0 /\ Len(loopData'[l].mValues) = 0
      BY <2>1 DEF NewLoopData
    <3> QED BY <3>2, <3>3 DEF FreeIsEmpty
  <2> QED BY <2>1, <2>2 DEF FitInv
<1>5. CASE Quiet
  <2>1. ASSUME NEW l \in Loops PROVE Taken(l)' = Taken(l)
    BY <1>5 DEF Quiet, Taken
  <2>2. /\ \A l \in Loops : /\ loopData'[l].mValues = loopData[l].mValues
                            /\ loopData'[l].mIds = loopData[l].mIds
        /\ \A s \in Sockets : status'[s] = "open" =>
              status[s] = "open" /\ home'[s] = home[s] /\ home[s] \in Loops
        /\ ud' = ud /\ "reclaimID" \notin asserted'
    BY <1>5 DEF Quiet, TypeOK, FitInv
  <2>3. ASSUME NEW l \in Loops
        PROVE  /\ FreeIsEmpty(loopData'[l]) /\ IsFiniteSet(Taken(l)')
               /\ Len(loopData'[l].mIds) + Cardinality(Taken(l)') = Len(loopData'[l].mValues)
    BY <2>1, <2>2 DEF FitInv, FreeIsEmpty
  <2>4. \A s \in Sockets : status'[s] = "open" => loopData'[home'[s]].mValues[ud'[s].index + 1] = s
    BY <2>2 DEF FitInv
  <2> QED BY <2>2, <2>3, <2>4 DEF FitInv
<1> QED BY <1>1, <1>2, <1>3, <1>4, <1>5, QuietStep

\* While no table outgrows the 16 bits of SessionId::index, sessions and free
\* slots divide the table of a loop between them.
THEOREM FitInvariant == Spec /\ []SlotsFit => []FitInv
<1>1. Init => FitInv
  BY EmptyFit DEF Init, FitInv
<1>2. TableInv /\ FitInv /\ SlotsFit' /\ [Next]_vars => FitInv'
  BY FitStep
<1> QED BY <1>1, <1>2, TableInvariant, PTL DEF Spec

\* Then every open session is found by the id that its enter callback was
\* given (TCPService.cpp:143-152, 541, 561) until its disconnect callback runs.
THEOREM OpenSessionsAreReachable == Spec /\ []SlotsFit => []OpenIsReachable
<1>1. TableInv /\ FitInv => OpenIsReachable
  <2> SUFFICES ASSUME TableInv, FitInv, NEW s \in Sockets, status[s] = "open"
               PROVE  Lookup(loopData[home[s]], ud[s]) = s
    BY DEF OpenIsReachable
  <2>1. /\ loopData[home[s]].mValues[ud[s].index + 1] = s
        /\ ud[s].index < Len(loopData[home[s]].mValues)
    BY DEF TableInv, FitInv, OpenInv
  <2> QED BY <2>1, SocketsAssumption DEF Lookup, HasSlot
<1> QED BY <1>1, TableInvariant, FitInvariant, PTL

\* And claimID and reclaimID lose no slot and give none out twice, so that
\* the assertion of reclaimID (Typeids.h:39) holds.
THEOREM SlotsAreConserved == Spec /\ []SlotsFit => [](SlotsConserved /\ "reclaimID" \notin asserted)
<1>1. FitInv => SlotsConserved /\ "reclaimID" \notin asserted
  <2> SUFFICES ASSUME FitInv, NEW l \in Loops
               PROVE  /\ FreeIsEmpty(loopData[l])
                      /\ Len(loopData[l].mIds) + Cardinality(Taken(l)) = Len(loopData[l].mValues)
                      /\ "reclaimID" \notin asserted
    BY DEF SlotsConserved, FreeIsEmpty, Taken, FitInv
  <2> QED BY DEF FitInv
<1> QED BY <1>1, FitInvariant, PTL
=============================================================================
