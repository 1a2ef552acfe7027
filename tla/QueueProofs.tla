----------------------------- MODULE QueueProofs -----------------------------
(***************************************************************************)
(* That the linked lists and the rings of IoQueues hold what was put into  *)
(* them, and that every command is in one place, for any number of         *)
(* commands, keys and buffers and any ring size the commands fit in.       *)
(***************************************************************************)
EXTENDS IoQueues, FiniteSetTheorems, SequenceTheorems, TLAPS

-----------------------------------------------------------------------------
(* Sequences without duplicates.                                           *)

\* Appending an element to a sequence adds it to the range, and keeps the
\* sequence without duplicates if the element is new.
LEMMA AppendFacts ==
  ASSUME NEW S, NEW s \in Seq(S), NEW x \in S
  PROVE  /\ Append(s, x) \in Seq(S) /\ Len(Append(s, x)) = Len(s) + 1
         /\ \A i \in 1 .. Len(s) : Append(s, x)[i] = s[i]
         /\ Append(s, x)[Len(s) + 1] = x /\ Append(s, x) # <<>>
         /\ Range(Append(s, x)) = Range(s) \cup {x}
         /\ IsInjective(s) /\ x \notin Range(s) => IsInjective(Append(s, x))
<1> DEFINE t == Append(s, x)
<1>1. t \in Seq(S) /\ Len(t) = Len(s) + 1 /\ t # <<>>
  BY AppendProperties, Zenon
<1>2. (\A i \in 1 .. Len(s) : t[i] = s[i]) /\ t[Len(s) + 1] = x
  <2>1. \A i \in 1 .. Len(s) : t[i] = s[i]
    OBVIOUS
  <2>2. t[Len(s) + 1] = x
    OBVIOUS
  <2> QED BY <2>1, <2>2
<1> HIDE DEF t
<1>3. DOMAIN s = 1 .. Len(s) /\ Len(s) \in Nat
  BY LenProperties
<1>4. DOMAIN t = 1 .. Len(s) + 1
  BY <1>1, LenProperties, Zenon
<1>5. Range(t) = Range(s) \cup {x}
  BY <1>2, <1>3, <1>4 DEF Range
<1>6. IsInjective(s) /\ x \notin Range(s) => IsInjective(t)
  BY <1>2, <1>3, <1>4 DEF Range, IsInjective
<1> QED BY <1>1, <1>2, <1>5, <1>6 DEF t

\* Taking the head off removes it from the range of such a sequence.
LEMMA TailFacts ==
  ASSUME NEW S, NEW s \in Seq(S), s # <<>>
  PROVE  /\ Tail(s) \in Seq(S) /\ Len(Tail(s)) = Len(s) - 1 /\ Len(s) > 0
         /\ \A i \in 1 .. Len(s) - 1 : Tail(s)[i] = s[i + 1]
         /\ s[1] \in S /\ s[1] \in Range(s)
         /\ IsInjective(s) => IsInjective(Tail(s)) /\ Range(Tail(s)) = Range(s) \ {s[1]}
<1> DEFINE t == Tail(s)
<1>1. t \in Seq(S) /\ Len(t) = Len(s) - 1 /\ Len(s) > 0 /\ s[1] \in S
  OBVIOUS
<1>2. \A i \in 1 .. Len(s) - 1 : t[i] = s[i + 1]
  OBVIOUS
<1>3. DOMAIN s = 1 .. Len(s) /\ DOMAIN t = 1 .. Len(s) - 1 /\ Len(s) \in Nat
  BY <1>1
<1> HIDE DEF t
<1>4. s[1] \in Range(s)
  BY <1>1, <1>3 DEF Range
<1>5. ASSUME IsInjective(s) PROVE IsInjective(t)
  BY <1>1, <1>2, <1>3, <1>5 DEF IsInjective
<1>6. ASSUME IsInjective(s) PROVE Range(t) = Range(s) \ {s[1]}
  <2>1. \A y \in Range(t) : y \in Range(s) /\ y # s[1]
    BY <1>1, <1>2, <1>3, <1>6 DEF Range, IsInjective
  <2>2. ASSUME NEW y \in Range(s), y # s[1] PROVE y \in Range(t)
    <3>1. PICK i \in 1 .. Len(s) : y = s[i]
      BY <1>3 DEF Range
    <3>2. i - 1 \in 1 .. Len(s) - 1 /\ t[i - 1] = s[i]
      BY <1>1, <1>2, <2>2, <3>1
    <3> QED BY <1>3, <3>1, <3>2 DEF Range
  <2> QED BY <2>1, <2>2
<1> QED BY <1>1, <1>2, <1>4, <1>5, <1>6 DEF t

\* Pigeonhole: a sequence of numbers below n without duplicates is not longer
\* than n, and if it is as long it has them all.
LEMMA NoDuplicates ==
  ASSUME NEW n \in Nat, NEW s \in Seq(0 .. n - 1), IsInjective(s)
  PROVE  Len(s) <= n /\ (Len(s) = n => Range(s) = 0 .. n - 1)
<1> DEFINE D == 1 .. Len(s)
           T == 0 .. n - 1
<1>1. Len(s) \in Nat /\ s \in [D -> T] /\ DOMAIN s = D
  OBVIOUS
<1>2. IsFiniteSet(D) /\ Cardinality(D) = Len(s) /\ IsFiniteSet(T) /\ Cardinality(T) = n
  <2>1. \A m \in Nat : IsFiniteSet(1 .. m) /\ Cardinality(1 .. m) = m
    <3> TAKE m \in Nat
    <3> QED BY FS_Interval, 1 \in Int, m \in Int
  <2>2. IsFiniteSet(0 .. n - 1) /\ Cardinality(0 .. n - 1) = n
    BY FS_Interval, 0 \in Int, n - 1 \in Int
  <2> QED BY <1>1, <2>1, <2>2
<1>3. s \in Injection(D, T)
  BY <1>1 DEF Injection
<1> HIDE DEF D, T
<1>4. Cardinality(D) <= Cardinality(T)
      /\ (Cardinality(D) = Cardinality(T) => s \in Surjection(D, T))
  BY <1>2, <1>3, FS_Injection
<1>5. s \in Surjection(D, T) => Range(s) = T
  BY <1>1 DEF Surjection, Range
<1> QED BY <1>2, <1>4, <1>5 DEF T

-----------------------------------------------------------------------------
(* Rings.                                                                  *)

RingType(size) == [data : [0 .. size - 1 -> Int], head : Int, tail : Int, count : Int]

\* Slots wrap as the code's `% SIZE' does, and different entries have
\* different slots.
LEMMA NextSlot ==
  ASSUME NEW size \in Nat \ {0}, NEW h \in 0 .. size - 1, NEW i \in 1 .. size
  PROVE  /\ (h + 1) % size = Slot(h, 2, size)
         /\ Slot(h, i, size) \in 0 .. size - 1
         /\ (Slot(h, i, size) + 1) % size = Slot(h, i + 1, size)
         /\ Slot(Slot(h, 2, size), i, size) = Slot(h, i + 1, size)
         /\ \A j \in 1 .. size : i # j => Slot(h, i, size) # Slot(h, j, size)
<1>1. \A x \in 0 .. size - 1 : (x + 1) % size = IF x + 1 < size THEN x + 1 ELSE 0
  OBVIOUS
<1>2. Slot(h, i, size) \in 0 .. size - 1
  BY DEF Slot
<1>3. (Slot(h, i, size) + 1) % size = Slot(h, i + 1, size)
  BY <1>1, <1>2 DEF Slot
<1>4. (h + 1) % size = Slot(h, 2, size)
  BY <1>1 DEF Slot
<1>5. Slot(Slot(h, 2, size), i, size) = Slot(h, i + 1, size)
  BY DEF Slot
<1>6. \A j \in 1 .. size : i # j => Slot(h, i, size) # Slot(h, j, size)
  BY DEF Slot
<1> QED BY <1>2, <1>3, <1>4, <1>5, <1>6

\* A push to a ring that is not full appends to the sequence it holds.
LEMMA RingPushHolds ==
  ASSUME NEW size \in Nat \ {0}, NEW q \in RingType(size), NEW S \in SUBSET Int,
         NEW s \in Seq(S), NEW x \in S, Ringed(q, size, s), Len(s) < size
  PROVE  /\ RingPush(q, size, x) \in RingType(size)
         /\ Ringed(RingPush(q, size, x), size, Append(s, x))
<1> DEFINE p == RingPush(q, size, x)
           t == Append(s, x)
           n == Len(s)
<1>1. n \in Nat /\ q.count = n /\ q.head \in 0 .. size - 1 /\ n + 1 \in 1 .. size
      /\ q.tail = Slot(q.head, n + 1, size) /\ q.data \in [0 .. size - 1 -> Int]
  BY DEF Ringed, RingType
<1>2. /\ q.tail \in 0 .. size - 1
      /\ (q.tail + 1) % size = Slot(q.head, n + 2, size)
      /\ (q.tail + 1) % size \in Int
      /\ \A j \in 1 .. size : j # n + 1 => Slot(q.head, j, size) # q.tail
      /\ \A j \in 1 .. size : Slot(q.head, j, size) \in 0 .. size - 1
  <2>1. \A j \in 1 .. size : Slot(q.head, j, size) \in 0 .. size - 1
    BY <1>1, NextSlot
  <2>2. \A j \in 1 .. size : j # n + 1 => Slot(q.head, j, size) # Slot(q.head, n + 1, size)
    BY <1>1, NextSlot
  <2>3. (Slot(q.head, n + 1, size) + 1) % size = Slot(q.head, n + 1 + 1, size)
    BY <1>1, NextSlot
  <2>4. Slot(q.head, n + 1 + 1, size) = Slot(q.head, n + 2, size)
        /\ Slot(q.head, n + 2, size) \in Int
    BY <1>1 DEF Slot
  <2> QED BY <1>1, <2>1, <2>2, <2>3, <2>4
<1>3. p = [data |-> [q.data EXCEPT ![q.tail] = x], head |-> q.head,
           tail |-> (q.tail + 1) % size, count |-> n + 1]
  BY <1>1 DEF RingPush, RingType
<1>4. Len(t) = n + 1 /\ t[n + 1] = x /\ \A i \in 1 .. n : t[i] = s[i]
  BY AppendFacts
<1> HIDE DEF p, t, n
<1>5. p \in RingType(size)
  <2>1. [q.data EXCEPT ![q.tail] = x] \in [0 .. size - 1 -> Int]
    BY <1>1, <1>2
  <2> QED BY <1>1, <1>2, <1>3, <2>1 DEF RingType
<1>6. p.tail = Slot(p.head, p.count + 1, size)
  <2>1. n + 1 + 1 = n + 2
    BY <1>1
  <2> QED BY <1>2, <1>3, <2>1
<1>7. ASSUME NEW i \in 1 .. n + 1 PROVE p.data[Slot(p.head, i, size)] = t[i]
  <2>1. CASE i = n + 1
    BY <1>1, <1>2, <1>3, <1>4, <2>1
  <2>2. CASE i \in 1 .. n
    <3>1. i \in 1 .. size /\ i # n + 1
      BY <1>1, <2>2
    <3>2. p.data[Slot(q.head, i, size)] = q.data[Slot(q.head, i, size)]
      BY <1>1, <1>2, <1>3, <3>1
    <3> QED BY <1>3, <1>4, <2>2, <3>2 DEF Ringed, n
  <2> QED BY <1>1, <2>1, <2>2
<1>8. Ringed(p, size, t)
  BY <1>1, <1>3, <1>4, <1>6, <1>7 DEF Ringed
<1> QED BY <1>5, <1>8 DEF p, t

\* A pop takes the head of the sequence.
LEMMA RingPopHolds ==
  ASSUME NEW size \in Nat \ {0}, NEW q \in RingType(size), NEW S \in SUBSET Int,
         NEW s \in Seq(S), Ringed(q, size, s), q.count > 0
  PROVE  /\ RingPop(q, size) \in RingType(size) /\ s # <<>> /\ RingHead(q) = s[1]
         /\ Ringed(RingPop(q, size), size, Tail(s))
<1> DEFINE p == RingPop(q, size)
           t == Tail(s)
           n == Len(s)
<1>1. n \in Nat /\ n > 0 /\ q.count = n /\ q.head \in 0 .. size - 1 /\ s # <<>> /\ n <= size
      /\ q.tail = Slot(q.head, n + 1, size) /\ q.tail \in Int /\ q.data \in [0 .. size - 1 -> Int]
  BY DEF Ringed, RingType
<1>2. /\ (q.head + 1) % size = Slot(q.head, 2, size)
      /\ Slot(q.head, 2, size) \in 0 .. size - 1
      /\ Slot(q.head, 1, size) = q.head
      /\ \A j \in 1 .. size : Slot(Slot(q.head, 2, size), j, size) = Slot(q.head, j + 1, size)
  <2>1. \A j \in 1 .. size : Slot(Slot(q.head, 2, size), j, size) = Slot(q.head, j + 1, size)
    BY <1>1, NextSlot
  <2>2. (q.head + 1) % size = Slot(q.head, 2, size)
    <3>1. 1 \in 1 .. size
      OBVIOUS
    <3> QED BY <1>1, <3>1, NextSlot
  <2>3. Slot(q.head, 2, size) \in 0 .. size - 1 /\ Slot(q.head, 1, size) = q.head
    BY <1>1 DEF Slot
  <2> QED BY <2>1, <2>2, <2>3
<1>3. p = [data |-> q.data, head |-> Slot(q.head, 2, size), tail |-> q.tail, count |-> n - 1]
  BY <1>1, <1>2 DEF RingPop, RingType
<1>4. RingHead(q) = s[1]
  <2>1. 1 \in 1 .. Len(s)
    BY <1>1
  <2> QED BY <1>2, <2>1 DEF Ringed, RingHead
<1>5. Len(t) = n - 1 /\ \A i \in 1 .. n - 1 : t[i] = s[i + 1] /\ i + 1 \in 1 .. n
  BY <1>1, TailFacts
<1> HIDE DEF p, t, n
<1>6. p \in RingType(size)
  BY <1>1, <1>2, <1>3 DEF RingType
<1>7. p.tail = Slot(p.head, p.count + 1, size)
  <2>1. n - 1 + 1 = n /\ n \in 1 .. size
    BY <1>1
  <2> QED BY <1>1, <1>2, <1>3, <2>1
<1>8. ASSUME NEW i \in 1 .. n - 1 PROVE p.data[Slot(p.head, i, size)] = t[i]
  <2>1. i \in 1 .. size
    BY <1>1
  <2>2. Slot(p.head, i, size) = Slot(q.head, i + 1, size)
    BY <1>2, <1>3, <2>1
  <2>3. q.data[Slot(q.head, i + 1, size)] = s[i + 1]
    BY <1>5 DEF Ringed, n
  <2> QED BY <1>3, <1>5, <2>2, <2>3
<1>9. Ringed(p, size, t)
  BY <1>1, <1>2, <1>3, <1>5, <1>7, <1>8 DEF Ringed
<1> QED BY <1>1, <1>4, <1>6, <1>9 DEF p, t

-----------------------------------------------------------------------------
(* Linked lists.                                                           *)

ListType ==
  /\ next \in [Cmd -> Cmd \cup {NIL}]
  /\ lists \in [List -> [count : Nat, head : Cmd \cup {NIL}, tail : Cmd \cup {NIL}]]
  /\ seq \in [List -> Seq(Cmd)]

ListInv ==
  /\ ListType
  /\ \A l \in List : Chained(lists[l], seq[l])
  /\ \A l \in List : IsInjective(seq[l])
  /\ \A l, m \in List : l # m => Content(l) \cap Content(m) = {}

LEMMA ElementsListed ==
  ASSUME ListType, NEW l \in List, NEW i \in 1 .. Len(seq[l])
  PROVE  seq[l][i] \in Content(l) /\ seq[l][i] \in Cmd /\ seq[l][i] \in Listed
<1>1. seq[l] \in Seq(Cmd)
  BY DEF ListType
<1>2. seq[l][i] \in Cmd /\ i \in DOMAIN seq[l]
  BY <1>1
<1> QED BY <1>2 DEF Content, Listed, Range

LEMMA NilIsNoCommand == NIL \notin Cmd
BY QueuesAssumption DEF Cmd

\* A list nobody touched is still the chain of its sequence.
LEMMA SameChain ==
  ASSUME NEW m \in List, seq[m] \in Seq(Cmd), Chained(lists[m], seq[m]),
         lists'[m] = lists[m], seq'[m] = seq[m],
         \A i \in 1 .. Len(seq[m]) : next'[seq[m][i]] = next[seq[m][i]]
  PROVE  Chained(lists[m], seq[m])'
<1>1. \A i \in 1 .. Len(seq[m]) - 1 : i \in 1 .. Len(seq[m])
  OBVIOUS
<1>2. seq[m] # <<>> => Len(seq[m]) \in 1 .. Len(seq[m])
  OBVIOUS
<1> QED BY <1>1, <1>2 DEF Chained

\* PushTail appends to one list and leaves the others, the new command being
\* in none of them: its pNext and the old tail's belong to this list alone.
LEMMA PushKeepsLists ==
  ASSUME ListInv, NEW l \in List, NEW c \in Cmd, c \notin Listed, PushTail(l, c)
  PROVE  ListInv' /\ \A m \in List : Content(m)' = IF m = l THEN Content(m) \cup {c} ELSE Content(m)
<1> DEFINE s == seq[l]
           n == Len(s)
           t == Append(s, c)
<1>1. s \in Seq(Cmd) /\ n \in Nat /\ lists[l].count = n /\ (s = <<>> <=> n = 0)
  BY DEF ListInv, ListType, Chained
<1>2. /\ seq' = [seq EXCEPT ![l] = t] /\ t \in Seq(Cmd) /\ Len(t) = n + 1 /\ t # <<>>
      /\ \A i \in 1 .. n : t[i] = s[i]
      /\ t[n + 1] = c /\ Range(t) = Range(s) \cup {c}
      /\ (IsInjective(s) /\ c \notin Range(s) => IsInjective(t))
  BY <1>1, AppendFacts DEF PushTail
<1>3. c \notin Range(s) /\ \A m \in List : c \notin Content(m)
  BY DEF Listed, Content
<1>4. n > 0 => lists[l].tail = s[n] /\ s[n] \in Cmd /\ s[n] \in Content(l) /\ s[n] # c /\ next[s[n]] = NIL
               /\ lists[l].head = s[1]
  <2> SUFFICES ASSUME n > 0 PROVE lists[l].tail = s[n] /\ s[n] \in Cmd /\ s[n] \in Content(l)
                  /\ s[n] # c /\ next[s[n]] = NIL /\ lists[l].head = s[1]
    OBVIOUS
  <2>1. lists[l].tail = s[n] /\ next[s[n]] = NIL /\ lists[l].head = s[1]
    BY <1>1 DEF ListInv, Chained
  <2>2. n \in 1 .. n
    BY <1>1
  <2>3. s[n] \in Content(l) /\ s[n] \in Cmd
    BY <2>2, ElementsListed DEF ListInv
  <2> QED BY <1>3, <2>1, <2>3
<1>5. /\ next' \in [Cmd -> Cmd \cup {NIL}] /\ next'[c] = NIL
      /\ n > 0 => next'[s[n]] = c
      /\ \A d \in Cmd : d # c /\ (n > 0 => d # s[n]) => next'[d] = next[d]
  <2>1. CASE n = 0
    <3>1. next' = [next EXCEPT ![c] = NIL] /\ ~(n > 0) /\ next \in [Cmd -> Cmd \cup {NIL}]
      BY <1>1, <2>1 DEF PushTail, ListInv, ListType
    <3> HIDE DEF n, s
    <3>2. next' \in [Cmd -> Cmd \cup {NIL}] /\ next'[c] = NIL
      BY <3>1
    <3>3. \A d \in Cmd : d # c => next'[d] = next[d]
      BY <3>1
    <3> QED BY <3>1, <3>2, <3>3
  <2>2. CASE n > 0
    <3>1. lists[l].count # 0 /\ lists[l].tail = s[n] /\ s[n] \in Cmd /\ s[n] # c
      BY <1>1, <1>4, <2>2
    <3> HIDE DEF n, s
    <3>2. next' = [next EXCEPT ![c] = NIL, ![s[n]] = c] /\ next \in [Cmd -> Cmd \cup {NIL}]
      BY <3>1 DEF PushTail, ListInv, ListType
    <3>3. next' \in [Cmd -> Cmd \cup {NIL}] /\ next'[c] = NIL /\ next'[s[n]] = c
      BY <3>1, <3>2
    <3>4. \A d \in Cmd : d # c /\ d # s[n] => next'[d] = next[d]
      BY <3>1, <3>2
    <3> QED BY <2>2, <3>3, <3>4
  <2> QED BY <1>1, <2>1, <2>2
<1>6. /\ lists'[l] = [count |-> n + 1, tail |-> c, head |-> IF n = 0 THEN c ELSE s[1]]
      /\ \A m \in List \ {l} : lists'[m] = lists[m] /\ seq'[m] = seq[m]
      /\ seq'[l] = t
  BY <1>1, <1>2, <1>4 DEF PushTail, ListInv, ListType
<1>7. ListType'
  <2>1. lists'[l] \in [count : Nat, head : Cmd \cup {NIL}, tail : Cmd \cup {NIL}]
    <3>1. n > 0 => s[1] \in Cmd
      BY <1>1
    <3> QED BY <1>1, <1>6, <3>1
  <2>2. lists' = [lists EXCEPT ![l] = lists'[l]]
    BY DEF PushTail, ListInv, ListType
  <2>3. lists' \in [List -> [count : Nat, head : Cmd \cup {NIL}, tail : Cmd \cup {NIL}]]
    BY <2>1, <2>2 DEF ListInv, ListType
  <2>4. seq' \in [List -> Seq(Cmd)]
    BY <1>2 DEF ListInv, ListType
  <2> QED BY <1>5, <2>3, <2>4 DEF ListType
<1>8. ASSUME NEW m \in List PROVE Chained(lists[m], seq[m])'
  <2>1. CASE m = l
    <3>1. ASSUME NEW i \in 1 .. n PROVE next'[t[i]] = t[i + 1]
      <4>1. CASE i = n
        BY <1>2, <1>5, <3>1, <4>1
      <4>2. CASE i < n
        <5>1. s[i] \in Cmd /\ s[i] # c /\ s[i] # s[n] /\ i \in 1 .. n - 1
          <6>1. s[i] \in Content(l) /\ s[i] \in Cmd
            BY ElementsListed DEF ListInv
          <6>2. s[i] # s[n]
            BY <1>1, <4>2 DEF ListInv, IsInjective
          <6> QED BY <1>1, <1>3, <4>2, <6>1, <6>2
        <5>2. next[s[i]] = s[i + 1]
          BY <1>1, <5>1 DEF ListInv, Chained
        <5> QED BY <1>1, <1>2, <1>5, <5>1, <5>2
      <4> QED BY <1>1, <4>1, <4>2
    <3>2. n > 0 => t[1] = s[1]
      BY <1>1, <1>2
    <3> HIDE DEF t, n, s
    <3> QED BY <1>1, <1>2, <1>5, <1>6, <2>1, <3>1, <3>2 DEF Chained
  <2>2. CASE m # l
    <3>1. ASSUME NEW i \in 1 .. Len(seq[m]) PROVE next'[seq[m][i]] = next[seq[m][i]]
      <4>1. seq[m][i] \in Content(m) /\ seq[m][i] \in Cmd
        BY ElementsListed DEF ListInv
      <4>2. seq[m][i] # c /\ (n > 0 => seq[m][i] # s[n])
        BY <1>3, <1>4, <2>2, <4>1 DEF ListInv
      <4> QED BY <1>5, <4>1, <4>2
    <3>2. Chained(lists[m], seq[m]) /\ lists'[m] = lists[m] /\ seq'[m] = seq[m] /\ seq[m] \in Seq(Cmd)
      BY <1>6, <2>2 DEF ListInv, ListType
    <3> QED BY <3>1, <3>2, SameChain
  <2> QED BY <2>1, <2>2
<1>9. \A m \in List : Content(m)' = IF m = l THEN Content(m) \cup {c} ELSE Content(m)
  <2>1. \A m \in List \ {l} : Content(m)' = Content(m)
    BY <1>6 DEF Content
  <2>2. Content(l)' = Content(l) \cup {c}
    BY <1>2, <1>6 DEF Content
  <2> QED BY <2>1, <2>2
<1>10. \A m \in List : IsInjective(seq[m])'
  <2>1. IsInjective(t)
    BY <1>2, <1>3 DEF ListInv
  <2> QED BY <1>6, <2>1 DEF ListInv, IsInjective
<1>11. \A m, k \in List : m # k => Content(m)' \cap Content(k)' = {}
  BY <1>3, <1>9 DEF ListInv
<1> QED BY <1>7, <1>8, <1>9, <1>10, <1>11 DEF ListInv

\* PopHead takes the first command of one list and leaves the others.
LEMMA PopKeepsLists ==
  ASSUME ListInv, NEW l \in List, PopHead(l)
  PROVE  /\ ListInv' /\ lists[l].head \in Cmd /\ lists[l].head \in Content(l)
         /\ \A m \in List : Content(m)' = IF m = l THEN Content(m) \ {lists[l].head} ELSE Content(m)
<1> DEFINE s == seq[l]
           n == Len(s)
           t == Tail(s)
           c == lists[l].head
<1>1. s \in Seq(Cmd) /\ n \in Nat /\ n > 0 /\ lists[l].count = n /\ s # <<>> /\ c = s[1]
      /\ lists[l].tail = s[n] /\ next[s[n]] = NIL
      /\ \A i \in 1 .. n - 1 : next[s[i]] = s[i + 1]
  BY DEF ListInv, ListType, Chained, PopHead
<1>2. /\ seq' = [seq EXCEPT ![l] = t] /\ t \in Seq(Cmd) /\ Len(t) = n - 1
      /\ \A i \in 1 .. n - 1 : t[i] = s[i + 1]
      /\ s[1] \in Cmd /\ s[1] \in Range(s)
      /\ (IsInjective(s) => IsInjective(t) /\ Range(t) = Range(s) \ {s[1]})
  BY <1>1, TailFacts DEF PopHead
<1>3. IsInjective(s) /\ c \in Cmd /\ c \in Content(l)
  BY <1>1, <1>2 DEF ListInv, Content
<1>4. /\ next' = [next EXCEPT ![c] = NIL]
      /\ next' \in [Cmd -> Cmd \cup {NIL}] /\ \A d \in Cmd : d # c => next'[d] = next[d]
  BY <1>3 DEF PopHead, ListInv, ListType
<1>5. /\ lists'[l] = [count |-> n - 1, head |-> next[c], tail |-> IF n = 1 THEN NIL ELSE s[n]]
      /\ \A m \in List \ {l} : lists'[m] = lists[m] /\ seq'[m] = seq[m]
      /\ seq'[l] = t
  BY <1>1, <1>2 DEF PopHead, ListInv, ListType
<1>6. ListType'
  <2>1. s[n] \in Cmd /\ next[c] \in Cmd \cup {NIL} /\ n - 1 \in Nat
    BY <1>1, <1>3 DEF ListInv, ListType
  <2>2. lists'[l] \in [count : Nat, head : Cmd \cup {NIL}, tail : Cmd \cup {NIL}]
    BY <1>5, <2>1
  <2>3. lists' = [lists EXCEPT ![l] = lists'[l]]
    BY DEF PopHead, ListInv, ListType
  <2>4. lists' \in [List -> [count : Nat, head : Cmd \cup {NIL}, tail : Cmd \cup {NIL}]]
    BY <2>2, <2>3 DEF ListInv, ListType
  <2>5. seq' \in [List -> Seq(Cmd)]
    BY <1>2 DEF ListInv, ListType
  <2> QED BY <1>4, <2>4, <2>5 DEF ListType
<1>7. ASSUME NEW m \in List PROVE Chained(lists[m], seq[m])'
  <2>1. CASE m = l
    <3>1. ASSUME NEW i \in 1 .. n, i # 1 PROVE s[i] \in Cmd /\ next'[s[i]] = next[s[i]]
      <4>1. s[i] \in Cmd /\ s[i] # s[1]
        BY <1>1, <1>3, <3>1 DEF IsInjective
      <4> QED BY <1>1, <1>4, <4>1
    <3>2. ASSUME NEW i \in 1 .. n - 2 PROVE next'[t[i]] = t[i + 1]
      <4>1. i + 1 \in 1 .. n /\ i + 1 # 1 /\ i + 1 \in 1 .. n - 1 /\ i \in 1 .. n - 1
        BY <1>1
      <4>2. next'[s[i + 1]] = s[i + 1 + 1]
        BY <1>1, <3>1, <4>1
      <4> QED BY <1>2, <4>1, <4>2
    <3>3. CASE n = 1
      <4>1. t = <<>> /\ next[c] = NIL
        <5>1. next[c] = NIL
          BY <1>1, <3>3
        <5>2. t \in Seq(Cmd) /\ Len(t) = 0
          BY <1>2, <3>3
        <5> HIDE DEF t
        <5> QED BY <5>1, <5>2
      <4> HIDE DEF t, c, s, n
      <4> QED BY <1>2, <1>5, <2>1, <3>3, <4>1 DEF Chained, NoList
    <3>4. CASE n > 1
      <4>1. t[1] = s[2] /\ next[c] = s[2] /\ t[n - 1] = s[n] /\ t # <<>>
        <5>1. 1 \in 1 .. n - 1 /\ n - 1 \in 1 .. n - 1 /\ n - 1 + 1 = n
          BY <1>1, <3>4
        <5>2. t[1] = s[2] /\ next[c] = s[2]
          BY <1>1, <1>2, <5>1
        <5>3. t[n - 1] = s[n]
          BY <1>2, <5>1
        <5>4. t # <<>>
          <6>1. Len(t) > 0
            BY <1>1, <1>2, <3>4
          <6> HIDE DEF t
          <6> QED BY <6>1
        <5> QED BY <5>2, <5>3, <5>4
      <4>2. next'[s[n]] = NIL
        BY <1>1, <3>1, <3>4
      <4> HIDE DEF t, c, s, n
      <4>3. n - 1 = Len(t) /\ n \in Nat /\ n # 1
        BY <1>1, <1>2, <3>4
      <4>4. \A i \in 1 .. Len(t) - 1 : next'[t[i]] = t[i + 1]
        BY <3>2, <4>3
      <4> QED BY <1>5, <2>1, <4>1, <4>2, <4>3, <4>4 DEF Chained
    <3> HIDE DEF t, c, s, n
    <3> QED BY <1>1, <3>3, <3>4
  <2>2. CASE m # l
    <3>1. ASSUME NEW i \in 1 .. Len(seq[m]) PROVE next'[seq[m][i]] = next[seq[m][i]]
      <4>1. seq[m][i] \in Content(m) /\ seq[m][i] \in Cmd
        BY ElementsListed DEF ListInv
      <4>2. seq[m][i] # c
        BY <1>3, <2>2, <4>1 DEF ListInv
      <4> QED BY <1>4, <4>1, <4>2
    <3>2. Chained(lists[m], seq[m]) /\ lists'[m] = lists[m] /\ seq'[m] = seq[m] /\ seq[m] \in Seq(Cmd)
      BY <1>5, <2>2 DEF ListInv, ListType
    <3> QED BY <3>1, <3>2, SameChain
  <2> QED BY <2>1, <2>2
<1>8. \A m \in List : Content(m)' = IF m = l THEN Content(m) \ {c} ELSE Content(m)
  <2>1. \A m \in List \ {l} : Content(m)' = Content(m)
    BY <1>5 DEF Content
  <2>2. Content(l)' = Content(l) \ {c}
    BY <1>1, <1>2, <1>3, <1>5 DEF Content
  <2> QED BY <2>1, <2>2
<1>9. \A m \in List : IsInjective(seq[m])'
  BY <1>2, <1>3, <1>5 DEF ListInv, IsInjective
<1>10. \A m, k \in List : m # k => Content(m)' \cap Content(k)' = {}
  BY <1>8 DEF ListInv
<1> QED BY <1>3, <1>6, <1>7, <1>8, <1>9, <1>10 DEF ListInv

-----------------------------------------------------------------------------
(* The inductive invariant: the two properties and the types.              *)

DieInv ==
  /\ dieQ \in RingType(NUM_QUE) /\ doneQ \in RingType(NUM_QUE)
  /\ dieSeq \in Seq(Cmd) /\ run \in Cmd \cup {NIL} /\ fresh \subseteq Cmd /\ got \subseteq Cmd
  /\ Ringed(dieQ, NUM_QUE, dieSeq) /\ Ringed(doneQ, NUM_QUE, <<>>) /\ IsInjective(dieSeq)

KeyInv == gaKeys \in [Cmd -> CbKeys \cup {NUM_IOCB}] /\ nIdx \in 0 .. NUM_NAND_CMD /\ KeysFit

BufInv ==
  /\ free \in RingType(NUM_BUF + 1) /\ bufSeq \in Seq(Buf) /\ used \subseteq Buf
  /\ Ringed(free, NUM_BUF + 1, bufSeq) /\ IsInjective(bufSeq) /\ BufsOnce

IInv == ListInv /\ DieInv /\ KeyInv /\ Apart /\ BufInv

LEMMA IInvSuffices == IInv => QueuesHold /\ OnePlace
BY DEF IInv, ListInv, DieInv, KeyInv, BufInv, QueuesHold, OnePlace, NoTwice

LEMMA ListedAfterPush ==
  ASSUME NEW l \in List, NEW c,
         \A m \in List : Content(m)' = IF m = l THEN Content(m) \cup {c} ELSE Content(m)
  PROVE  Listed' = Listed \cup {c}
<1>1. \A x \in Listed' : x \in Listed \cup {c}
  BY DEF Listed
<1>2. \A x \in Listed : x \in Listed'
  BY DEF Listed
<1>3. c \in Listed'
  BY DEF Listed
<1> QED BY <1>1, <1>2, <1>3

LEMMA ListedAfterPop ==
  ASSUME ListInv, NEW l \in List, NEW c \in Content(l),
         \A m \in List : Content(m)' = IF m = l THEN Content(m) \ {c} ELSE Content(m)
  PROVE  Listed' = Listed \ {c}
<1>1. \A m \in List : m # l => c \notin Content(m)
  BY DEF ListInv
<1>2. \A x \in Listed' : x \in Listed \ {c}
  BY <1>1 DEF Listed
<1>3. \A x \in Listed \ {c} : x \in Listed'
  BY DEF Listed
<1> QED BY <1>2, <1>3

LEMMA SameLists ==
  ASSUME ListInv, next' = next, lists' = lists, seq' = seq
  PROVE  ListInv' /\ Listed' = Listed /\ \A m \in List : Content(m)' = Content(m)
BY DEF ListInv, ListType, Chained, Content, Listed

LEMMA SameBuffers ==
  ASSUME BufInv, UNCHANGED bufVars
  PROVE  BufInv'
BY DEF BufInv, Ringed, BufsOnce, bufVars

LEMMA SameDie ==
  ASSUME DieInv, UNCHANGED <<dieQ, doneQ, dieSeq>>,
         run' \in Cmd \cup {NIL}, fresh' \subseteq Cmd, got' \subseteq Cmd
  PROVE  DieInv' /\ Queued' = Queued
BY DEF DieInv, Ringed, Queued

LEMMA Ranges == Ringed(Zeros(NUM_QUE), NUM_QUE, <<>>) /\ Zeros(NUM_QUE) \in RingType(NUM_QUE)
BY QueuesAssumption DEF Ringed, Slot, Zeros, RingType

\* BM_Init leaves the ring with every buffer once.
LEMMA FullRingHolds ==
  ASSUME NEW q \in RingType(NUM_BUF + 1)
  PROVE  /\ FullRing(q) \in RingType(NUM_BUF + 1) /\ AllBufs \in Seq(Buf) /\ IsInjective(AllBufs)
         /\ Range(AllBufs) = Buf /\ Ringed(FullRing(q), NUM_BUF + 1, AllBufs)
<1>1. NUM_BUF \in Nat \ {0}
  BY QueuesAssumption
<1>2. AllBufs \in Seq(Buf) /\ Len(AllBufs) = NUM_BUF
  BY <1>1 DEF AllBufs, Buf
<1>3. IsInjective(AllBufs)
  BY <1>1 DEF AllBufs, IsInjective
<1>4. Range(AllBufs) = Buf
  <2>1. \A b \in Buf : b + 1 \in 1 .. NUM_BUF /\ AllBufs[b + 1] = b
    BY <1>1 DEF AllBufs, Buf
  <2> QED BY <1>1, <2>1 DEF AllBufs, Buf, Range
<1>5. FullRing(q) \in RingType(NUM_BUF + 1)
  BY <1>1 DEF FullRing, RingType, Buf
<1>6. \A i \in 1 .. NUM_BUF : FullRing(q).data[i - 1] = AllBufs[i] /\ Slot(0, i, NUM_BUF + 1) = i - 1
  BY <1>1 DEF FullRing, RingType, Buf, AllBufs, Slot
<1>7. Ringed(FullRing(q), NUM_BUF + 1, AllBufs)
  BY <1>1, <1>2, <1>6 DEF Ringed, FullRing, Slot
<1> QED BY <1>2, <1>3, <1>4, <1>5, <1>7

LEMMA InitIInv == Init => IInv
<1> SUFFICES ASSUME Init PROVE IInv
  OBVIOUS
<1> USE QueuesAssumption DEF Init
<1>1. ListInv
  BY DEF ListInv, ListType, Chained, NoList, Content, Range, IsInjective
<1>2. Listed = {} /\ Queued = {} /\ Owned = {} /\ InDie = {} /\ \A l \in List : Content(l) = {}
  BY DEF Listed, Content, Queued, Owned, InDie, Range
<1>3. DieInv
  BY Ranges DEF DieInv, IsInjective
<1>4. KeyInv
  <2>1. "Pool" \in List /\ CbKeys \subseteq List
    BY DEF List
  <2>2. KeysFit
    BY <1>2, <2>1 DEF KeysFit
  <2>3. 0 \in 0 .. NUM_NAND_CMD
    OBVIOUS
  <2> QED BY <2>2, <2>3 DEF KeyInv
<1>5. Apart
  BY <1>2 DEF Apart, Ready
<1>6. BufInv
  <2>1. Zeros(NUM_BUF + 1) \in RingType(NUM_BUF + 1)
    BY DEF Zeros, RingType
  <2> QED BY <2>1, FullRingHolds DEF BufInv, BufsOnce
<1> QED BY <1>1, <1>3, <1>4, <1>5, <1>6 DEF IInv

-----------------------------------------------------------------------------
(* The steps.                                                              *)

\* Names and ranges the steps below use.
LEMMA Where ==
  ASSUME IInv
  PROVE  /\ "Pool" \in List /\ \A k \in CbKeys : k \in List /\ k # "Pool"
         /\ \A l \in List : Content(l) \subseteq Listed /\ (l # "Pool" => l \in CbKeys)
         /\ Listed \subseteq Cmd /\ Queued \subseteq Cmd /\ NIL \notin Cmd
<1>1. "Pool" \in List /\ \A k \in CbKeys : k \in List /\ k # "Pool"
  BY QueuesAssumption DEF List
<1>2. \A l \in List : Content(l) \subseteq Listed /\ (l # "Pool" => l \in CbKeys)
  BY DEF Listed, List
<1>3. ASSUME NEW l \in List, NEW c \in Content(l) PROVE c \in Cmd
  BY <1>3 DEF Content, Range, IInv, ListInv, ListType
<1>4. Listed \subseteq Cmd
  BY <1>3 DEF Listed
<1>5. Queued \subseteq Cmd
  BY DEF IInv, DieInv, Queued, Range
<1> QED BY <1>1, <1>2, <1>4, <1>5, NilIsNoCommand

\* IO_Init frees a command that is nowhere yet.
LEMMA InitFreeStep == IInv /\ InitFree => IInv'
<1> SUFFICES ASSUME IInv, InitFree PROVE IInv'
  OBVIOUS
<1>1. nIdx \in Cmd /\ nIdx \notin Listed /\ nIdx \notin Queued /\ nIdx \notin Owned /\ nIdx \notin InDie
      /\ nIdx + 1 \in 0 .. NUM_NAND_CMD /\ nIdx \in Nat
  <2>1. nIdx \in 0 .. NUM_NAND_CMD /\ nIdx # NUM_NAND_CMD /\ NUM_NAND_CMD \in Nat
    BY QueuesAssumption DEF IInv, KeyInv, InitFree, Ready
  <2>2. nIdx \notin 0 .. nIdx - 1
    BY <2>1
  <2> QED BY <2>1, <2>2 DEF IInv, Apart, Ready, Cmd
<1>2. ListInv' /\ Listed' = Listed \cup {nIdx}
      /\ \A m \in List : Content(m)' = IF m = "Pool" THEN Content(m) \cup {nIdx} ELSE Content(m)
  BY <1>1, Where, PushKeepsLists, ListedAfterPush DEF IInv, InitFree
<1>3. DieInv' /\ Queued' = Queued /\ Owned' = Owned /\ InDie' = InDie
  BY SameDie DEF IInv, DieInv, InitFree, dieVars, ownVars, Owned, InDie
<1>4. KeyInv'
  BY <1>1, <1>2, <1>3, Where DEF IInv, KeyInv, KeysFit, InitFree
<1>5. Apart'
  <2>1. nIdx' = nIdx + 1 /\ fresh' = fresh /\ got' = got
    BY DEF InitFree, ownVars
  <2>2. 0 .. nIdx = (0 .. nIdx - 1) \cup {nIdx} /\ nIdx + 1 - 1 = nIdx
    BY <1>1
  <2>3. Listed \cup Queued \cup Owned \cup InDie = 0 .. nIdx - 1
    BY DEF IInv, Apart, InitFree
  <2>4. (Listed \cup Queued \cup Owned \cup InDie)' = 0 .. nIdx
    BY <1>2, <1>3, <2>2, <2>3
  <2>5. (IF Ready THEN Cmd ELSE 0 .. nIdx - 1)' = 0 .. nIdx
    BY <2>1, <2>2 DEF Ready, Cmd
  <2> QED BY <1>1, <1>2, <1>3, <2>1, <2>4, <2>5 DEF IInv, Apart
<1>6. BufInv'
  BY SameBuffers DEF IInv, InitFree
<1> QED BY <1>2, <1>3, <1>4, <1>5, <1>6 DEF IInv

\* A restart finds every command in the pool, so the lists of the keys, which
\* nobody resets, are empty.
LEMMA RestartStep == IInv /\ Restart => IInv'
<1> SUFFICES ASSUME IInv, Restart PROVE IInv'
  OBVIOUS
<1>1. Content("Pool") = Cmd
  <2>1. seq["Pool"] \in Seq(Cmd) /\ IsInjective(seq["Pool"]) /\ Len(seq["Pool"]) = NUM_NAND_CMD
    BY Where DEF IInv, ListInv, ListType, Chained, Restart
  <2>2. seq["Pool"] \in Seq(0 .. NUM_NAND_CMD - 1) /\ NUM_NAND_CMD \in Nat
    BY <2>1, QueuesAssumption DEF Cmd
  <2> QED BY <2>1, <2>2, NoDuplicates DEF Content, Cmd
<1>2. \A k \in CbKeys : Content(k) = {}
  <2> SUFFICES ASSUME NEW k \in CbKeys PROVE Content(k) = {}
    OBVIOUS
  <2>1. k \in List /\ k # "Pool" /\ Content(k) \subseteq Cmd
    BY Where
  <2>2. Content(k) \cap Content("Pool") = {}
    BY <2>1, Where DEF IInv, ListInv
  <2> QED BY <1>1, <2>1, <2>2
<1>3. Listed = Cmd /\ fresh = {} /\ got = {}
  <2>1. Listed = Cmd
    BY <1>1, Where
  <2>2. Owned = {}
    BY <2>1 DEF IInv, DieInv, Apart, Owned
  <2> QED BY <2>1, <2>2 DEF Owned
<1>4. /\ seq' = [seq EXCEPT !["Pool"] = <<>>] /\ lists' = [lists EXCEPT !["Pool"] = NoList]
      /\ next' = next /\ \A l \in List \ {"Pool"} : seq'[l] = seq[l] /\ lists'[l] = lists[l]
      /\ seq'["Pool"] = <<>> /\ lists'["Pool"] = NoList
  BY Where DEF Restart, IInv, ListInv, ListType
<1>5. \A m \in List : Content(m)' = {}
  <2>1. Content("Pool")' = {}
    BY <1>4 DEF Content, Range
  <2>2. ASSUME NEW m \in List, m # "Pool" PROVE Content(m)' = {}
    <3>1. Content(m)' = Content(m)
      BY <1>4, <2>2 DEF Content
    <3> QED BY <1>2, <2>2, <3>1, Where
  <2> QED BY <2>1, <2>2
<1>6. ListInv'
  <2>1. ListType'
    <3>1. NoList \in [count : Nat, head : Cmd \cup {NIL}, tail : Cmd \cup {NIL}]
      BY DEF NoList
    <3>2. <<>> \in Seq(Cmd)
      OBVIOUS
    <3> HIDE DEF NoList
    <3> QED BY <1>4, <3>1, <3>2 DEF IInv, ListInv, ListType
  <2>2. \A l \in List : Chained(lists[l], seq[l])'
    BY <1>4 DEF IInv, ListInv, Chained, NoList
  <2>3. \A l \in List : IsInjective(seq[l])'
    BY <1>4 DEF IInv, ListInv, IsInjective
  <2> QED BY <1>5, <2>1, <2>2, <2>3 DEF ListInv
<1>7. Listed' = {}
  BY <1>5 DEF Listed
<1>8. DieInv' /\ Queued' = {} /\ Owned' = {} /\ InDie' = {}
  <2>1. /\ dieQ' = NewRing(dieQ) /\ doneQ' = NewRing(doneQ) /\ dieSeq' = <<>> /\ run' = NIL
        /\ fresh' = {} /\ got' = {}
    BY <1>3 DEF Restart, ownVars
  <2>2. NUM_QUE \in Nat /\ NUM_QUE > 0
    BY QueuesAssumption
  <2>3. ASSUME NEW q \in RingType(NUM_QUE)
        PROVE  NewRing(q) \in RingType(NUM_QUE) /\ Ringed(NewRing(q), NUM_QUE, <<>>)
    <3>1. NewRing(q) \in RingType(NUM_QUE)
      BY DEF NewRing, RingType
    <3>2. Ringed(NewRing(q), NUM_QUE, <<>>)
      BY <2>2 DEF NewRing, Ringed, Slot
    <3> QED BY <3>1, <3>2
  <2>4. <<>> \in Seq(Cmd) /\ IsInjective(<<>>)
    BY DEF IsInjective
  <2>5. dieQ \in RingType(NUM_QUE) /\ doneQ \in RingType(NUM_QUE)
    BY DEF IInv, DieInv
  <2>6. /\ dieQ' \in RingType(NUM_QUE) /\ Ringed(dieQ', NUM_QUE, <<>>)
        /\ doneQ' \in RingType(NUM_QUE) /\ Ringed(doneQ', NUM_QUE, <<>>)
    BY <2>1, <2>3, <2>5
  <2>7. DieInv'
    BY <2>1, <2>4, <2>6 DEF DieInv, RingType, Ringed, Slot
  <2>8. Range(<<>>) = {}
    BY DEF Range
  <2> QED BY <2>1, <2>7, <2>8 DEF Queued, Owned, InDie
<1>9. KeyInv'
  BY <1>5, <1>8, Where, QueuesAssumption DEF IInv, KeyInv, KeysFit, Restart
<1>10. Apart'
  <2>1. (IF Ready THEN Cmd ELSE 0 .. nIdx - 1)' = {}
    BY QueuesAssumption DEF Restart, Ready, Cmd
  <2> QED BY <1>3, <1>7, <1>8, <2>1 DEF Apart, Restart, ownVars
<1>11. BufInv'
  BY FullRingHolds DEF IInv, BufInv, BufsOnce, Restart
<1> QED BY <1>6, <1>8, <1>9, <1>10, <1>11 DEF IInv

LEMMA AllocStep == ASSUME IInv, NEW k \in CbKeys, IO_Alloc(k) PROVE IInv'
<1> DEFINE c == lists["Pool"].head
<1>1. /\ ListInv' /\ c \in Cmd /\ c \in Content("Pool") /\ Listed' = Listed \ {c} /\ c \in Listed
      /\ \A m \in List : Content(m)' = IF m = "Pool" THEN Content(m) \ {c} ELSE Content(m)
  BY Where, PopKeepsLists, ListedAfterPop DEF IInv, IO_Alloc
<1>2. fresh' = fresh \cup {c} /\ got' = got /\ gaKeys' = [gaKeys EXCEPT ![c] = k] /\ nIdx' = nIdx
      /\ UNCHANGED <<dieVars, bufVars>>
  BY DEF IO_Alloc
<1> HIDE DEF c
<1>3. DieInv' /\ Queued' = Queued /\ Owned' = Owned \cup {c} /\ InDie' = InDie
  BY <1>1, <1>2, SameDie DEF IInv, DieInv, dieVars, Owned, InDie
<1>4. c \notin Queued /\ c \notin Owned /\ c \notin InDie /\ \A m \in CbKeys : c \notin Content(m)
  BY <1>1, Where DEF IInv, Apart, ListInv
<1>5. KeyInv'
  <2>1. \A d \in Cmd : gaKeys'[d] = IF d = c THEN k ELSE gaKeys[d]
    BY <1>1, <1>2 DEF IInv, KeyInv
  <2>2. KeysFit'
    <3>1. ASSUME NEW m \in CbKeys, NEW d \in Content(m)' PROVE gaKeys'[d] = m
      <4>1. d \in Content(m) /\ d # c /\ d \in Cmd
        BY <1>1, <1>4, <3>1, Where
      <4> QED BY <2>1, <4>1 DEF IInv, KeyInv, KeysFit
    <3>2. ASSUME NEW d \in Content("Pool")' PROVE gaKeys'[d] = NUM_IOCB
      <4>1. d \in Content("Pool") /\ d # c /\ d \in Cmd
        BY <1>1, <3>2, Where
      <4> QED BY <2>1, <4>1 DEF IInv, KeyInv, KeysFit
    <3>3. ASSUME NEW d \in (Queued \cup Owned \cup InDie)' PROVE gaKeys'[d] \in CbKeys
      <4>1. d = c \/ d \in Queued \cup Owned \cup InDie
        BY <1>3, <3>3
      <4>2. d \in Cmd
        BY <1>1, <4>1, Where DEF IInv, DieInv, Owned, InDie
      <4> QED BY <2>1, <4>1, <4>2 DEF IInv, KeyInv, KeysFit
    <3> QED BY <3>1, <3>2, <3>3 DEF KeysFit
  <2>3. gaKeys' \in [Cmd -> CbKeys \cup {NUM_IOCB}]
    BY <1>2 DEF IInv, KeyInv
  <2> QED BY <1>2, <2>2, <2>3 DEF IInv, KeyInv
<1>6. Apart'
  BY <1>1, <1>2, <1>3, <1>4 DEF IInv, Apart, Ready, Owned
<1>7. BufInv'
  BY <1>2, SameBuffers DEF IInv
<1> QED BY <1>1, <1>3, <1>5, <1>6, <1>7 DEF IInv

LEMMA PopDoneStep == ASSUME IInv, NEW k \in CbKeys, IO_PopDone(k) PROVE IInv'
<1> DEFINE c == lists[k].head
<1>1. /\ ListInv' /\ c \in Cmd /\ c \in Content(k) /\ Listed' = Listed \ {c} /\ c \in Listed
      /\ \A m \in List : Content(m)' = IF m = k THEN Content(m) \ {c} ELSE Content(m)
  BY Where, PopKeepsLists, ListedAfterPop DEF IInv, IO_PopDone
<1>2. got' = got \cup {c} /\ fresh' = fresh /\ gaKeys' = gaKeys /\ nIdx' = nIdx
      /\ UNCHANGED <<dieVars, bufVars>>
  BY DEF IO_PopDone
<1> HIDE DEF c
<1>3. DieInv' /\ Queued' = Queued /\ Owned' = Owned \cup {c} /\ InDie' = InDie
  BY <1>1, <1>2, SameDie DEF IInv, DieInv, dieVars, Owned, InDie
<1>4. c \notin Queued /\ c \notin Owned /\ c \notin InDie /\ gaKeys[c] \in CbKeys
  BY <1>1 DEF IInv, Apart, KeyInv, KeysFit
<1>5. KeyInv'
  BY <1>1, <1>2, <1>3, <1>4, Where DEF IInv, KeyInv, KeysFit
<1>6. Apart'
  BY <1>1, <1>2, <1>3, <1>4 DEF IInv, Apart, Ready, Owned
<1>7. BufInv'
  BY <1>2, SameBuffers DEF IInv
<1> QED BY <1>1, <1>3, <1>5, <1>6, <1>7 DEF IInv

LEMMA FreeStep == ASSUME IInv, NEW c \in got, IO_Free(c) PROVE IInv'
<1>1. c \in Cmd /\ c \notin Listed /\ c \notin Queued /\ c \notin InDie /\ c \notin fresh
  BY DEF IInv, DieInv, Apart, Owned
<1>2. ListInv' /\ Listed' = Listed \cup {c}
      /\ \A m \in List : Content(m)' = IF m = "Pool" THEN Content(m) \cup {c} ELSE Content(m)
  BY <1>1, Where, PushKeepsLists, ListedAfterPush DEF IInv, IO_Free
<1>3. got' = got \ {c} /\ fresh' = fresh /\ gaKeys' = [gaKeys EXCEPT ![c] = NUM_IOCB] /\ nIdx' = nIdx
      /\ UNCHANGED <<dieVars, bufVars>>
  BY DEF IO_Free
<1>4. DieInv' /\ Queued' = Queued /\ Owned' = Owned \ {c} /\ InDie' = InDie
  BY <1>1, <1>3, SameDie DEF IInv, DieInv, dieVars, Owned, InDie
<1>5. KeyInv'
  <2>1. \A d \in Cmd : gaKeys'[d] = IF d = c THEN NUM_IOCB ELSE gaKeys[d]
    BY <1>1, <1>3 DEF IInv, KeyInv
  <2>2. KeysFit'
    <3>1. ASSUME NEW m \in CbKeys, NEW d \in Content(m)' PROVE gaKeys'[d] = m
      <4>1. d \in Content(m) /\ d # c /\ d \in Cmd
        BY <1>1, <1>2, <3>1, Where
      <4> QED BY <2>1, <4>1 DEF IInv, KeyInv, KeysFit
    <3>2. ASSUME NEW d \in Content("Pool")' PROVE gaKeys'[d] = NUM_IOCB
      <4>1. d = c \/ d \in Content("Pool")
        BY <1>2, <3>2, Where
      <4>2. d \in Cmd
        BY <1>1, <4>1, Where
      <4> QED BY <2>1, <4>1, <4>2 DEF IInv, KeyInv, KeysFit
    <3>3. ASSUME NEW d \in (Queued \cup Owned \cup InDie)' PROVE gaKeys'[d] \in CbKeys
      <4>1. d # c /\ d \in Queued \cup Owned \cup InDie
        BY <1>1, <1>4, <3>3
      <4>2. d \in Cmd
        BY <4>1, Where DEF IInv, DieInv, Owned, InDie
      <4> QED BY <2>1, <4>1, <4>2 DEF IInv, KeyInv, KeysFit
    <3> QED BY <3>1, <3>2, <3>3 DEF KeysFit
  <2>3. gaKeys' \in [Cmd -> CbKeys \cup {NUM_IOCB}]
    BY <1>3 DEF IInv, KeyInv
  <2> QED BY <1>3, <2>2, <2>3 DEF IInv, KeyInv
<1>6. Apart'
  BY <1>1, <1>2, <1>3, <1>4 DEF IInv, Apart, Ready, Owned
<1>7. BufInv'
  BY <1>3, SameBuffers DEF IInv
<1> QED BY <1>2, <1>4, <1>5, <1>6, <1>7 DEF IInv

\* The ring of the die has room: there are no more commands than slots.
LEMMA IssueStep == ASSUME IInv, NEW c \in fresh, NFC_Issue(c) PROVE IInv'
<1>1. c \in Cmd /\ c \notin Listed /\ c \notin Queued /\ c \notin InDie /\ c \notin got
  BY DEF IInv, DieInv, Apart, Owned
<1>2. dieSeq \in Seq(Cmd) /\ IsInjective(dieSeq) /\ c \notin Range(dieSeq)
  BY <1>1 DEF IInv, DieInv, Queued
<1>3. /\ Append(dieSeq, c) \in Seq(Cmd) /\ IsInjective(Append(dieSeq, c))
      /\ Len(Append(dieSeq, c)) = Len(dieSeq) + 1 /\ Range(Append(dieSeq, c)) = Range(dieSeq) \cup {c}
  BY <1>1, <1>2, AppendFacts
<1>4. Len(dieSeq) < NUM_QUE
  <2>1. Append(dieSeq, c) \in Seq(0 .. NUM_NAND_CMD - 1) /\ NUM_NAND_CMD \in Nat /\ NUM_QUE \in Nat
        /\ NUM_NAND_CMD <= NUM_QUE
    BY <1>3, QueuesAssumption DEF Cmd
  <2>2. Len(Append(dieSeq, c)) <= NUM_NAND_CMD
    BY <1>3, <2>1, NoDuplicates
  <2>3. Len(dieSeq) \in Nat
    BY <1>2
  <2> QED BY <1>3, <2>1, <2>2, <2>3
<1>5. dieQ' \in RingType(NUM_QUE) /\ Ringed(dieQ', NUM_QUE, dieSeq')
  <2>1. Cmd \in SUBSET Int /\ NUM_QUE \in Nat \ {0}
    BY QueuesAssumption DEF Cmd
  <2> QED BY <1>1, <1>2, <1>4, <2>1, RingPushHolds DEF IInv, DieInv, NFC_Issue
<1>6. /\ UNCHANGED <<queVars, doneQ, run, got, nIdx, bufVars>> /\ fresh' = fresh \ {c}
      /\ dieSeq' = Append(dieSeq, c)
  BY DEF NFC_Issue
<1>7. Queued' = Queued \cup {c} /\ InDie' = InDie /\ Owned' = Owned \ {c}
  BY <1>1, <1>3, <1>6 DEF Queued, InDie, Owned
<1>8. DieInv'
  BY <1>3, <1>5, <1>6 DEF IInv, DieInv, Ringed
<1>9. ListInv' /\ Listed' = Listed /\ (\A m \in List : Content(m)' = Content(m)) /\ gaKeys' = gaKeys
  BY <1>6, SameLists DEF IInv, queVars
<1>10. KeyInv'
  <2>1. gaKeys[c] \in CbKeys
    BY DEF IInv, KeyInv, KeysFit, Owned
  <2> QED BY <1>6, <1>7, <1>9, <2>1, Where DEF IInv, KeyInv, KeysFit
<1>11. Apart'
  BY <1>1, <1>6, <1>7, <1>9 DEF IInv, Apart, Ready, Owned
<1>12. BufInv'
  BY <1>6, SameBuffers DEF IInv
<1> QED BY <1>8, <1>9, <1>10, <1>11, <1>12 DEF IInv

LEMMA StartStep == IInv /\ Start => IInv'
<1> SUFFICES ASSUME IInv, Start PROVE IInv'
  OBVIOUS
<1>1. /\ dieQ' \in RingType(NUM_QUE) /\ Ringed(dieQ', NUM_QUE, dieSeq') /\ dieSeq # <<>>
      /\ run' = dieSeq[1]
  <2>1. Cmd \in SUBSET Int /\ NUM_QUE \in Nat \ {0}
    BY QueuesAssumption DEF Cmd
  <2> QED BY <2>1, RingPopHolds DEF IInv, DieInv, Start
<1>2. /\ dieSeq' \in Seq(Cmd) /\ IsInjective(dieSeq') /\ run' \in Cmd /\ run' \in Queued
      /\ Queued' = Queued \ {run'}
  BY <1>1, TailFacts DEF IInv, DieInv, Start, Queued
<1>3. run = NIL /\ UNCHANGED <<queVars, doneQ, fresh, got, nIdx, bufVars>>
  BY DEF Start, ownVars
<1>4. InDie = {} /\ InDie' = {run'} /\ Owned' = Owned
  BY <1>2, <1>3, NilIsNoCommand DEF InDie, Owned
<1>5. DieInv'
  BY <1>1, <1>2, <1>3 DEF IInv, DieInv, Ringed
<1>6. ListInv' /\ Listed' = Listed /\ (\A m \in List : Content(m)' = Content(m)) /\ gaKeys' = gaKeys
  BY <1>3, SameLists DEF IInv, queVars
<1>7. KeyInv'
  BY <1>2, <1>3, <1>4, <1>6, Where DEF IInv, KeyInv, KeysFit
<1>8. Apart'
  BY <1>2, <1>3, <1>4, <1>6 DEF IInv, Apart, Ready
<1>9. BufInv'
  BY <1>3, SameBuffers DEF IInv
<1> QED BY <1>5, <1>6, <1>7, <1>8, <1>9 DEF IInv

LEMMA CompleteStep == IInv /\ Complete => IInv'
<1> SUFFICES ASSUME IInv, Complete PROVE IInv'
  OBVIOUS
<1> DEFINE q == RingPush(doneQ, NUM_QUE, run)
<1>1. run \in Cmd /\ run \in InDie /\ run \notin Listed /\ run \notin Queued /\ run \notin Owned
      /\ gaKeys[run] \in CbKeys
  BY DEF Complete, IInv, DieInv, InDie, Apart, KeyInv, KeysFit
<1>2. /\ RingHead(q) = run /\ RingPop(q, NUM_QUE) \in RingType(NUM_QUE)
      /\ Ringed(RingPop(q, NUM_QUE), NUM_QUE, <<>>)
  <2>1. Cmd \in SUBSET Int /\ NUM_QUE \in Nat \ {0} /\ <<>> \in Seq(Cmd) /\ Len(<<>>) < NUM_QUE
    BY QueuesAssumption DEF Cmd
  <2>2. q \in RingType(NUM_QUE) /\ Ringed(q, NUM_QUE, Append(<<>>, run))
    BY <1>1, <2>1, RingPushHolds DEF IInv, DieInv
  <2> DEFINE s == Append(<<>>, run)
  <2>3. s \in Seq(Cmd) /\ Tail(s) = <<>> /\ s[1] = run /\ Len(s) = 1
    BY <1>1
  <2>4. q.count > 0
    BY <2>2, <2>3 DEF Ringed
  <2> HIDE DEF q, s
  <2>5. RingPop(q, NUM_QUE) \in RingType(NUM_QUE) /\ RingHead(q) = s[1]
        /\ Ringed(RingPop(q, NUM_QUE), NUM_QUE, Tail(s))
    BY <2>1, <2>2, <2>3, <2>4, RingPopHolds
  <2> QED BY <2>3, <2>5
<1>3. PushTail(gaKeys[run], run) /\ doneQ' = RingPop(q, NUM_QUE) /\ run' = NIL
      /\ UNCHANGED <<gaKeys, dieQ, dieSeq, fresh, got, nIdx, bufVars>>
  BY <1>2 DEF Complete, ownVars
<1> HIDE DEF q
<1>4. ListInv' /\ Listed' = Listed \cup {run}
      /\ \A m \in List : Content(m)' = IF m = gaKeys[run] THEN Content(m) \cup {run} ELSE Content(m)
  BY <1>1, <1>3, Where, PushKeepsLists, ListedAfterPush DEF IInv
<1>5. Queued' = Queued /\ Owned' = Owned /\ InDie = {run} /\ InDie' = {}
  BY <1>1, <1>3 DEF Queued, Owned, InDie
<1>6. DieInv'
  BY <1>2, <1>3 DEF IInv, DieInv, Ringed
<1>7. KeyInv'
  BY <1>1, <1>3, <1>4, <1>5, Where DEF IInv, KeyInv, KeysFit
<1>8. Apart'
  BY <1>1, <1>3, <1>4, <1>5 DEF IInv, Apart, Ready
<1>9. BufInv'
  BY <1>3, SameBuffers DEF IInv
<1> QED BY <1>4, <1>6, <1>7, <1>8, <1>9 DEF IInv

\* The steps of the buffers leave everything else alone.
LEMMA SameCommands ==
  ASSUME IInv, UNCHANGED <<queVars, dieVars, ownVars, nIdx>>
  PROVE  ListInv' /\ DieInv' /\ KeyInv' /\ Apart'
<1>1. ListInv' /\ Listed' = Listed /\ \A m \in List : Content(m)' = Content(m)
  BY SameLists DEF IInv, queVars
<1>2. DieInv' /\ Queued' = Queued /\ Owned' = Owned /\ InDie' = InDie
  BY SameDie DEF IInv, DieInv, dieVars, ownVars, Owned, InDie
<1>3. KeyInv'
  BY <1>1, <1>2, Where DEF IInv, KeyInv, KeysFit, queVars
<1>4. Apart'
  BY <1>1, <1>2 DEF IInv, Apart, Ready, ownVars
<1> QED BY <1>1, <1>2, <1>3, <1>4

LEMMA BufAllocStep == IInv /\ BM_Alloc => IInv'
<1> SUFFICES ASSUME IInv, BM_Alloc PROVE IInv'
  OBVIOUS
<1>1. /\ free' \in RingType(NUM_BUF + 1) /\ Ringed(free', NUM_BUF + 1, bufSeq') /\ bufSeq # <<>>
      /\ RingHead(free) = bufSeq[1]
  <2>1. Buf \in SUBSET Int /\ NUM_BUF + 1 \in Nat \ {0}
    BY QueuesAssumption DEF Buf
  <2> QED BY <2>1, RingPopHolds DEF IInv, BufInv, BM_Alloc
<1>2. /\ bufSeq' \in Seq(Buf) /\ IsInjective(bufSeq') /\ bufSeq[1] \in Buf
      /\ bufSeq[1] \in Range(bufSeq) /\ Range(bufSeq') = Range(bufSeq) \ {bufSeq[1]}
  BY <1>1, TailFacts DEF IInv, BufInv, BM_Alloc
<1>3. used' = used \cup {bufSeq[1]}
  BY <1>1 DEF BM_Alloc
<1>4. BufInv'
  BY <1>1, <1>2, <1>3 DEF IInv, BufInv, BufsOnce
<1> QED BY <1>4, SameCommands DEF IInv, BM_Alloc

LEMMA BufFreeStep == ASSUME IInv, NEW b \in used, BM_Free(b) PROVE IInv'
<1>1. b \in Buf /\ b \notin Range(bufSeq) /\ bufSeq \in Seq(Buf) /\ IsInjective(bufSeq)
  BY DEF IInv, BufInv, BufsOnce
<1>2. /\ bufSeq' \in Seq(Buf) /\ IsInjective(bufSeq') /\ Range(bufSeq') = Range(bufSeq) \cup {b}
  BY <1>1, AppendFacts DEF BM_Free
<1>3. Len(bufSeq) < NUM_BUF + 1 /\ Buf \in SUBSET Int /\ NUM_BUF + 1 \in Nat \ {0}
  <2>1. NUM_BUF \in Nat \ {0} /\ Len(bufSeq) \in Nat
    BY <1>1, QueuesAssumption
  <2>2. Len(bufSeq) <= NUM_BUF
    BY <1>1, <2>1, NoDuplicates DEF Buf
  <2> QED BY <2>1, <2>2 DEF Buf
<1>4. free' \in RingType(NUM_BUF + 1) /\ Ringed(free', NUM_BUF + 1, bufSeq')
  BY <1>1, <1>3, RingPushHolds DEF IInv, BufInv, BM_Free
<1>5. BufInv'
  BY <1>1, <1>2, <1>4 DEF IInv, BufInv, BufsOnce, BM_Free
<1> QED BY <1>5, SameCommands DEF IInv, BM_Free

LEMMA NextIInv == IInv /\ [Next]_vars => IInv'
<1> SUFFICES ASSUME IInv, [Next]_vars PROVE IInv'
  OBVIOUS
<1>1. CASE UNCHANGED vars
  BY <1>1, SameCommands, SameBuffers DEF vars, IInv
<1>2. CASE InitFree
  BY <1>2, InitFreeStep
<1>3. CASE Restart
  BY <1>3, RestartStep
<1>4. ASSUME NEW k \in CbKeys, IO_Alloc(k) PROVE IInv'
  BY <1>4, AllocStep
<1>5. ASSUME NEW k \in CbKeys, IO_PopDone(k) PROVE IInv'
  BY <1>5, PopDoneStep
<1>6. ASSUME NEW c \in fresh, NFC_Issue(c) PROVE IInv'
  BY <1>6, IssueStep
<1>7. CASE Start
  BY <1>7, StartStep
<1>8. CASE Complete
  BY <1>8, CompleteStep
<1>9. ASSUME NEW c \in got, IO_Free(c) PROVE IInv'
  BY <1>9, FreeStep
<1>10. CASE BM_Alloc
  BY <1>10, BufAllocStep
<1>11. ASSUME NEW b \in used, BM_Free(b) PROVE IInv'
  BY <1>11, BufFreeStep
<1> QED BY <1>1, <1>2, <1>3, <1>4, <1>5, <1>6, <1>7, <1>8, <1>9, <1>10, <1>11 DEF Next

\* The lists and the rings of the command layer, the controller and the buffer
\* manager hold exactly what was put into them, in order; the asserts of
\* templ.h cannot fire.
THEOREM QueuesHoldAlways == Spec => []QueuesHold
<1>1. Spec => []IInv
  BY InitIInv, NextIInv, PTL DEF Spec
<1>2. IInv => QueuesHold
  BY IInvSuffices
<1> QED BY <1>1, <1>2, PTL

\* Every command is in one place, under the key of its issuer, and every
\* buffer is allocated or free, once.
THEOREM OnePlaceAlways == Spec => []OnePlace
<1>1. Spec => []IInv
  BY InitIInv, NextIInv, PTL DEF Spec
<1>2. IInv => OnePlace
  BY IInvSuffices
<1> QED BY <1>1, <1>2, PTL
=============================================================================
