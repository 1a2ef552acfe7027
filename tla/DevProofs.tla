----------------------------- MODULE DevProofs ------------------------------
(***************************************************************************)
(* The FTL keeps what its host wrote: the map leads to the last write of   *)
(* every page, and the FTL implements the device of BlockDev.  A block is  *)
(* written to when a meta page tells of its erase, and GC finds a free one *)
(* when it needs it.                                                       *)
(***************************************************************************)
EXTENDS FlashProofs

-----------------------------------------------------------------------------
(* PageAt: what a page holds once the commands issued so far are executed. *)

LEMMA LastIsMax ==
  ASSUME NEW n \in Nat, NEW S \in SUBSET (1 .. n), NEW i \in S, \A j \in S : j <= i
  PROVE  LastIn(S) = i
<1>1. LastIn(S) \in S /\ \A j \in S : j <= LastIn(S)
  BY LastIsIn
<1>2. PICK m : m = LastIn(S)
  OBVIOUS
<1>3. m \in 1 .. n /\ i \in 1 .. n /\ i <= m /\ m <= i
  BY <1>1, <1>2
<1>4. m = i
  BY <1>3
<1>. QED
  BY <1>2, <1>4

Touching(q, a) == {i \in DOMAIN q : Touches(q[i], a)}

LEMMA TouchingIn ==
  ASSUME NEW q, IsSeq(q), NEW a
  PROVE  Touching(q, a) \in SUBSET (1 .. Len(q)) /\ Len(q) \in Nat /\ DOMAIN q = 1 .. Len(q)
  BY SeqFacts DEF Touching

\* No command touches the page: it is as it is in flash.
LEMMA PageQuiet ==
  ASSUME NEW a, \A c \in Elems(nq) : ~Touches(c, a)
  PROVE  PageAt(a) = die[a.blk][a.wl]
  BY DEF PageAt, Elems

\* The commands a task issues leave the page alone.
LEMMA PageTurn ==
  ASSUME IoTypes, NEW t, NEW P, Turns(t, P), NEW a, \A c \in Elems(t) : ~Touches(c, a)
  PROVE  PageAt(a)' = PageAt(a)
<1>1. IsSeq(nq) /\ IsSeq(t) /\ nq' = nq \o t /\ die' = die
  BY DEF IoTypes, GoodCmds, Turns
<1>2. Touching(nq', a) = Touching(nq, a)
  <2>1. \A i \in DOMAIN nq' : i \notin DOMAIN nq => ~Touches(nq'[i], a)
    <3> TAKE i \in DOMAIN nq'
    <3> HAVE i \notin DOMAIN nq
    <3>1. i \in 1 .. Len(nq) + Len(t) /\ ~(i \in 1 .. Len(nq)) /\ Len(nq) \in Nat /\ Len(t) \in Nat
      BY <1>1, ConcatAt, SeqFacts
    <3>2. nq'[i] = t[i - Len(nq)] /\ i - Len(nq) \in DOMAIN t
      BY <1>1, <3>1, ConcatAt, SeqFacts
    <3>. QED
      BY <3>2 DEF Elems
  <2>2. DOMAIN nq \subseteq DOMAIN nq' /\ \A i \in DOMAIN nq : nq'[i] = nq[i]
    BY <1>1, ConcatAt, SeqFacts
  <2>. QED
    BY <2>1, <2>2 DEF Touching
<1>3. Touching(nq, a) # {} => LastIn(Touching(nq, a)) \in DOMAIN nq
  BY <1>1, TouchingIn, LastIsIn
<1>4. \A i \in DOMAIN nq : nq'[i] = nq[i]
  BY <1>1, ConcatAt, SeqFacts
<1>5. PageAt(a) = IF Touching(nq, a) = {} THEN die[a.blk][a.wl] ELSE nq[LastIn(Touching(nq, a))].pg
  BY DEF PageAt, Touching
<1>6. PageAt(a)' = IF Touching(nq', a) = {} THEN die'[a.blk][a.wl] ELSE nq'[LastIn(Touching(nq', a))].pg
  BY DEF PageAt, Touching, Touches
<1>. QED
  BY <1>1, <1>2, <1>3, <1>4, <1>5, <1>6

\* The page of a program just issued.
LEMMA PagePgm ==
  ASSUME IoTypes, NEW c, NEW P, Turns(<<c>>, P), NEW a, Touches(c, a)
  PROVE  PageAt(a)' = c.pg
<1>1. IsSeq(nq) /\ IsSeq(<<c>>) /\ Len(<<c>>) = 1 /\ nq' = nq \o <<c>>
  BY OneFacts DEF IoTypes, GoodCmds, Turns
<1>2. IsSeq(nq') /\ Len(nq') = Len(nq) + 1 /\ Len(nq) \in Nat /\ DOMAIN nq' = 1 .. Len(nq) + 1
  BY <1>1, ConcatFacts, ConcatAt, SeqFacts
<1>3. nq'[Len(nq) + 1] = c
  <2>1. nq'[Len(nq) + 1] = <<c>>[Len(nq) + 1 - Len(nq)]
    BY <1>1, <1>2, ConcatAt
  <2>. QED
    BY <1>2, <2>1
<1>4. Len(nq) + 1 \in Touching(nq', a) /\ Touching(nq', a) \in SUBSET (1 .. Len(nq) + 1)
  BY <1>2, <1>3 DEF Touching
<1>5. LastIn(Touching(nq', a)) = Len(nq) + 1
  BY <1>2, <1>4, LastIsMax
<1>6. PageAt(a)' = IF Touching(nq', a) = {} THEN die'[a.blk][a.wl] ELSE nq'[LastIn(Touching(nq', a))].pg
  BY DEF PageAt, Touching, Touches
<1>. QED
  BY <1>3, <1>4, <1>5, <1>6

\* The command of an erase says what the pages hold then.
ErbPages == \A c \in Elems(nq) : c.op = "ERB" => c.pg = Erased

\* The device executes a command: this is what PageAt counted with.
LEMMA PageNand ==
  ASSUME IoTypes, ErbPages, NandDone, NEW b \in Blk, NEW w \in WL
  PROVE  PageAt(VAddr(b, w))' = PageAt(VAddr(b, w))
<1> DEFINE a == VAddr(b, w)
           T == Touching(nq, a)
           U == Touching(nq', a)
<1>0. a.blk = b /\ a.wl = w
  BY DEF VAddr
<1>1. PICK c : c = Head(nq)
  OBVIOUS
<1>2. IsSeq(nq) /\ nq # <<>> /\ nq' = Tail(nq) /\ c \in Elems(nq) /\ c.op \in Ops
  BY <1>1, NandDoes
<1>3. 1 \in DOMAIN nq /\ nq[1] = c /\ IsSeq(nq') /\ Len(nq') = Len(nq) - 1
  BY <1>1, <1>2, TailAt, TailFacts
<1>4. Len(nq) \in Nat /\ DOMAIN nq = 1 .. Len(nq) /\ DOMAIN nq' = 1 .. Len(nq) - 1
  BY <1>2, <1>3, SeqFacts
<1>5. \A i \in DOMAIN nq' : nq'[i] = nq[i + 1]
  BY <1>2, TailAt
<1> HIDE DEF a
<1>6. PageAt(a) = IF T = {} THEN die[b][w] ELSE nq[LastIn(T)].pg
  BY <1>0 DEF PageAt, Touching
<1>7. PageAt(a)' = IF U = {} THEN die'[b][w] ELSE nq'[LastIn(U)].pg
  BY <1>0 DEF PageAt, Touching, Touches, a
<1>8. CASE U # {}
  <2>1. PICK m : m = LastIn(U)
    OBVIOUS
  <2>2. U \in SUBSET (1 .. Len(nq) - 1) /\ Len(nq) - 1 \in Nat
    BY <1>3, <1>4, TouchingIn
  <2>3. m \in U
    BY <1>8, <2>1, <2>2, LastIsIn
  <2>4. \A j \in U : j <= m
    BY <2>1, <2>2, <1>8, LastIsIn
  <2>5. m + 1 \in T /\ \A j \in T : j <= m + 1
    <3>1. m + 1 \in T
      BY <1>4, <1>5, <2>2, <2>3 DEF Touching
    <3>2. ASSUME NEW j \in T
          PROVE  j <= m + 1
      <4>1. j \in 1 .. Len(nq)
        BY <1>4 DEF Touching
      <4>2. CASE j = 1
        BY <2>2, <2>3, <4>2
      <4>3. CASE j # 1
        <5>1. j - 1 \in DOMAIN nq' /\ nq'[j - 1] = nq[j - 1 + 1] /\ j - 1 + 1 = j
          BY <1>4, <1>5, <4>1, <4>3
        <5>2. j - 1 \in U
          BY <5>1 DEF Touching
        <5>. QED
          BY <2>2, <2>3, <2>4, <4>1, <5>2
      <4>. QED
        BY <4>2, <4>3
    <3>. QED
      BY <3>1, <3>2
  <2>6. LastIn(T) = m + 1
    <3>1. T \in SUBSET (1 .. Len(nq))
      BY <1>2, TouchingIn
    <3>. QED
      BY <1>4, <2>5, <3>1, LastIsMax
  <2>7. nq'[m] = nq[m + 1]
    BY <1>5, <2>3 DEF Touching
  <2>. QED
    BY <1>6, <1>7, <1>8, <2>1, <2>5, <2>6, <2>7 DEF a
<1>9. CASE U = {}
  <2>1. \A j \in T : j = 1
    <3> TAKE j \in T
    <3> SUFFICES ASSUME j # 1 PROVE FALSE
      OBVIOUS
    <3>1. j \in 1 .. Len(nq)
      BY <1>4 DEF Touching
    <3>2. j - 1 \in DOMAIN nq' /\ nq'[j - 1] = nq[j - 1 + 1] /\ j - 1 + 1 = j
      BY <1>4, <1>5, <3>1
    <3>3. j - 1 \in U
      BY <3>2 DEF Touching
    <3>. QED
      BY <1>9, <3>3
  <2>2. /\ die' = CASE c.op = "ERB" -> [die EXCEPT ![c.blk] = [v \in WL |-> Erased]]
                    [] c.op = "PGM" -> [die EXCEPT ![c.blk] = [die[c.blk] EXCEPT ![c.wl] = c.pg]]
                    [] OTHER        -> die
        /\ die = [x \in Blk |-> [v \in WL |-> die[x][v]]]
    BY <1>1 DEF NandDone, IoTypes
  <2>3. CASE Touches(c, a)
    <3>1. T = {1}
      BY <1>3, <2>1, <2>3 DEF Touching
    <3>2. LastIn(T) = 1
      <4>1. T \in SUBSET (1 .. Len(nq)) /\ 1 \in T /\ \A j \in T : j <= 1
        BY <1>4, <1>3, <3>1
      <4>. QED
        BY <1>4, <4>1, LastIsMax
    <3>3. die'[b][w] = c.pg
      <4>1. CASE c.op = "ERB"
        BY <1>0, <1>2, <2>2, <2>3, <4>1 DEF ErbPages, Touches
      <4>2. CASE c.op = "PGM"
        BY <1>0, <2>2, <2>3, <4>2 DEF Touches
      <4>. QED
        BY <2>3, <4>1, <4>2 DEF Touches
    <3>. QED
      BY <1>3, <1>6, <1>7, <1>9, <3>1, <3>2, <3>3 DEF a
  <2>4. CASE ~Touches(c, a)
    <3>1. T = {}
      BY <1>3, <2>1, <2>4 DEF Touching
    <3>2. die'[b][w] = die[b][w]
      <4>1. CASE c.op = "ERB"
        BY <1>0, <2>2, <2>4, <4>1 DEF Touches
      <4>2. CASE c.op = "PGM"
        BY <1>0, <2>2, <2>4, <4>2 DEF Touches
      <4>3. CASE c.op = "READ"
        BY <2>2, <4>3
      <4>. QED
        BY <1>2, <4>1, <4>2, <4>3 DEF Ops
    <3>. QED
      BY <1>6, <1>7, <1>9, <3>1, <3>2 DEF a
  <2>. QED
    BY <2>3, <2>4
<1>. QED
  BY <1>8, <1>9 DEF a

\* A page nobody has programmed since its erase holds nothing.
LEMMA PageRoom ==
  ASSUME IoTypes, ErbPages, NEW b, NEW w \in WL, ErasedFrom(b, w),
         \A c \in Elems(nq) : c.op = "PGM" /\ c.blk = b => c.wl # w
  PROVE  IsErased(PageAt(VAddr(b, w)))
<1> DEFINE a == VAddr(b, w)
           T == Touching(nq, a)
<1>0. a.blk = b /\ a.wl = w
  BY DEF VAddr
<1> HIDE DEF a
<1>1. PageAt(a) = IF T = {} THEN die[b][w] ELSE nq[LastIn(T)].pg
  BY <1>0 DEF PageAt, Touching
<1>2. CASE T = {}
  <2>1. w \in Int
    BY SizeAssumption DEF WL
  <2>. QED
    BY <1>1, <1>2, <2>1 DEF ErasedFrom, a
<1>3. CASE T # {}
  <2>1. LastIn(T) \in T
    BY <1>3, TouchingIn, LastIsIn DEF IoTypes, GoodCmds
  <2>2. PICK i \in DOMAIN nq : i = LastIn(T) /\ Touches(nq[i], a)
    BY <2>1 DEF Touching
  <2>3. nq[i].op = "ERB" /\ nq[i].pg = Erased
    BY <1>0, <2>2 DEF Touches, Elems, ErbPages
  <2>. QED
    BY <1>1, <1>3, <2>2, <2>3 DEF IsErased, Erased, a
<1>. QED
  BY <1>2, <1>3

-----------------------------------------------------------------------------
(* The inductive invariant.                                                *)

\* REQ still has the request of the host: its write is not mapped yet.
Held == reqQ # <<>> \/ reqSt = "Run"

\* The write of l that is mapped.
Ver(l) == IF Held /\ pend.cmd = "write" /\ pend.lpn = l THEN dict[l] - 1 ELSE dict[l]

IsPend ==
  \/ pend = NoReq
  \/ \E l \in LPN : dict[l] # 0 /\ pend = WriteReq(l, dict[l])
  \/ \E l \in LPN : pend = ReadReq(l)
  \/ \E opt \in ShutdownOpt : pend = ShutdownReq(opt)

\* Whoever works on a request works on the one the host waits for.
PendInv ==
  /\ dict = [l \in LPN |-> dict[l]] /\ \A l \in LPN : dict[l] \in Nat
  /\ IsPend
  /\ ~pwr => pend = NoReq
  /\ \A r \in Elems(reqQ) : r = pend
  /\ reqSt = "Run" => req = pend
  /\ \A c \in Under["User"] :
       c.req = pend /\ ((c.op = "PGM" /\ pend.cmd = "write") \/ (c.op = "READ" /\ pend.cmd = "read"))

\* The reads of a move are reads of its source, where nothing is programmed.
SrcInv ==
  /\ mv.swl \in Nat
  /\ gcSt = "Move" =>
       /\ \A c \in Under["Mig"] : c.op = "READ" => c.blk = mv.src /\ mv.src \in UBlk /\ c.wl \in WL
       /\ \A c \in Elems(done["Mig"]) : c.op = "READ" => c.pg = die[c.blk][c.wl]

\* The latest page of the host's read is where the read, at place i of the
\* queue, looks for it, and stays there until then: it is mapped, or has been
\* moved by a program that follows the read.
Awaits(i, b, w) ==
  /\ dict[pend.lpn] # 0 /\ PageAt(VAddr(b, w)) = DataPage(pend.lpn, dict[pend.lpn])
  /\ \A j \in DOMAIN nq : j > i => ~Touches(nq[j], VAddr(b, w))
  /\ \/ map[pend.lpn] = VAddr(b, w)
     \/ /\ gcSt = "Move" /\ mv.src = b
        /\ \E j \in DOMAIN nq : j > i /\ nq[j].cb = "Mig" /\ nq[j].op = "PGM"

QueuedReads ==
  \A i \in DOMAIN nq : nq[i].cb = "User" /\ nq[i].op = "READ" =>
    \E b \in UBlk, w \in WL : nq[i].blk = b /\ nq[i].wl = w /\ Awaits(i, b, w)

DoneReads ==
  \A c \in Elems(done["User"]) : c.op = "READ" =>
    dict[pend.lpn] # 0 /\ c.pg = DataPage(pend.lpn, dict[pend.lpn])

Holds(l, b, w) == map[l] = VAddr(b, w) /\ PageAt(VAddr(b, w)) = DataPage(l, Ver(l))
Sound(l) == IF Ver(l) = 0 THEN map[l] = FF32 ELSE \E b \in UBlk, w \in WL : Holds(l, b, w)
MapSound == Loaded => \A l \in LPN : Sound(l)

DevInv == PendInv /\ ErbPages /\ SrcInv /\ QueuedReads /\ DoneReads /\ MapSound

-----------------------------------------------------------------------------
(* What a step keeps.                                                      *)

\* Commands touch pages of free blocks, and pages that are erased.
Free(b, w) == bst[b] = "InFree" \/ IsErased(PageAt(VAddr(b, w)))
Spares(t) ==
  \A c \in Elems(t) : \A b \in UBlk, w \in WL : Touches(c, VAddr(b, w)) => Free(b, w)

LEMMA HoldsNotFree ==
  ASSUME AllocInv, NEW l \in LPN, NEW b \in UBlk, NEW w \in WL, Holds(l, b, w)
  PROVE  ~Free(b, w)
<1>1. bst[b] # "InFree"
  BY DEF Holds, AllocInv, PoolInv, VAddr
<1>. QED
  BY <1>1 DEF Holds, Free, DataPage, IsErased

LEMMA AwaitedNotFree ==
  ASSUME AllocInv, pend.lpn \in LPN, NEW i, NEW b \in UBlk, NEW w \in WL, Awaits(i, b, w)
  PROVE  ~Free(b, w)
<1>1. bst[b] # "InFree"
  <2>1. CASE map[pend.lpn] = VAddr(b, w)
    BY <2>1 DEF AllocInv, PoolInv, VAddr
  <2>2. CASE gcSt = "Move" /\ mv.src = b
    BY <2>2, NoBlkIs DEF AllocInv, OpenInv
  <2>. QED
    BY <2>1, <2>2 DEF Awaits
<1>. QED
  BY <1>1 DEF Awaits, Free, DataPage, IsErased

\* A page that is not free stays as it is.
LEMMA SparedStays ==
  ASSUME IoTypes, NEW t, NEW P, Turns(t, P), Spares(t), NEW b \in UBlk, NEW w \in WL, ~Free(b, w)
  PROVE  PageAt(VAddr(b, w))' = PageAt(VAddr(b, w)) /\ \A c \in Elems(t) : ~Touches(c, VAddr(b, w))
<1>1. \A c \in Elems(t) : ~Touches(c, VAddr(b, w))
  BY DEF Spares
<1>2. PICK a : a = VAddr(b, w)
  OBVIOUS
<1>3. PageAt(a)' = PageAt(a)
  BY <1>1, <1>2, PageTurn
<1>. QED
  BY <1>1, <1>2, <1>3 DEF PageAt, Touches

VerStays == \A l \in LPN : Ver(l)' = Ver(l)

\* Where the map is not changed.
LEMMA SoundTurn ==
  ASSUME IoTypes, AllocInv, NEW t, NEW P, Turns(t, P), Spares(t),
         NEW l \in LPN, Sound(l), map'[l] = map[l], Ver(l)' = Ver(l)
  PROVE  Sound(l)'
<1>1. ASSUME NEW b \in UBlk, NEW w \in WL, Holds(l, b, w)
      PROVE  Holds(l, b, w)'
  <2>1. PageAt(VAddr(b, w))' = PageAt(VAddr(b, w))
    BY <1>1, HoldsNotFree, SparedStays
  <2>. QED
    BY <1>1, <2>1 DEF Holds
<1>. QED
  BY <1>1 DEF Sound

LEMMA MapTurn ==
  ASSUME IoTypes, AllocInv, MapSound, NEW t, NEW P, Turns(t, P), Spares(t),
         map' = map, VerStays, Loaded' => Loaded
  PROVE  MapSound'
<1> SUFFICES ASSUME Loaded', NEW l \in LPN PROVE Sound(l)'
  BY DEF MapSound
<1>1. Sound(l) /\ Ver(l)' = Ver(l)
  BY DEF MapSound, VerStays
<1>. QED
  BY <1>1, SoundTurn

\* The user commands under way are of the request of the host.
LEMMA ReadIsOfPend ==
  ASSUME IoTypes, PendInv, NEW i \in DOMAIN nq, nq[i].cb = "User", nq[i].op = "READ"
  PROVE  pend.lpn \in LPN /\ pend.cmd = "read" /\ Under["User"] # {}
<1>1. nq[i] \in Under["User"]
  <2>1. nq[i] \in Elems(nq)
    BY DEF Elems
  <2>. QED
    BY <2>1, QueuedIsUnder
<1>2. pend.cmd = "read"
  BY <1>1 DEF PendInv
<1>3. PICK l \in LPN : pend = ReadReq(l)
  BY <1>2 DEF PendInv, IsPend, NoReq, WriteReq, ShutdownReq
<1>. QED
  BY <1>1, <1>2, <1>3 DEF ReadReq

MovedOn(t) ==
  \A b \in UBlk, w \in WL :
    map[pend.lpn] = VAddr(b, w) /\ map'[pend.lpn] # VAddr(b, w) =>
      gcSt' = "Move" /\ mv'.src = b /\ \E c \in Elems(t) : c.cb = "Mig" /\ c.op = "PGM"
SrcStays ==
  Pgms("Mig") # {} /\ gcSt = "Move" /\ mv.src # NoBlk => gcSt' = "Move" /\ mv'.src = mv.src

LEMMA QueuedTurn ==
  ASSUME IoTypes, AllocInv, PendInv, QueuedReads, NEW t, NEW P, Turns(t, P), Spares(t),
         \A c \in Elems(t) : ~(c.cb = "User" /\ c.op = "READ"),
         UNCHANGED <<pend, dict>>, MovedOn(t), SrcStays
  PROVE  QueuedReads'
<1> SUFFICES ASSUME NEW i \in DOMAIN nq', nq'[i].cb = "User", nq'[i].op = "READ"
             PROVE  \E b \in UBlk, w \in WL : nq'[i].blk = b /\ nq'[i].wl = w /\ Awaits(i, b, w)'
  BY DEF QueuedReads
<1>1. IsSeq(nq) /\ IsSeq(t) /\ nq' = nq \o t /\ Len(nq) \in Nat /\ Len(t) \in Nat
  BY SeqFacts DEF IoTypes, GoodCmds, Turns
<1>2. /\ DOMAIN nq = 1 .. Len(nq) /\ DOMAIN nq' = 1 .. Len(nq) + Len(t)
      /\ \A j \in DOMAIN nq : j \in DOMAIN nq' /\ nq'[j] = nq[j]
      /\ \A j \in DOMAIN nq' : j \notin DOMAIN nq => j > Len(nq) /\ nq'[j] \in Elems(t)
  <2>1. DOMAIN nq = 1 .. Len(nq) /\ DOMAIN nq' = 1 .. Len(nq) + Len(t) /\ DOMAIN t = 1 .. Len(t)
    BY <1>1, ConcatAt, SeqFacts
  <2>2. \A j \in 1 .. Len(nq) : nq'[j] = nq[j]
    BY <1>1, ConcatAt
  <2>3. ASSUME NEW j \in 1 .. Len(nq) + Len(t), j \notin 1 .. Len(nq)
        PROVE  j > Len(nq) /\ nq'[j] \in Elems(t)
    <3>1. j > Len(nq)
      BY <1>1, <2>3
    <3>2. nq'[j] = t[j - Len(nq)] /\ j - Len(nq) \in DOMAIN t
      BY <1>1, <2>1, <3>1, ConcatAt
    <3>. QED
      BY <3>1, <3>2 DEF Elems
  <2>. QED
    BY <1>1, <2>1, <2>2, <2>3
<1>3. i \in DOMAIN nq /\ nq'[i] = nq[i] /\ i <= Len(nq) /\ i \in Nat
  BY <1>1, <1>2
<1>4. PICK b \in UBlk, w \in WL : nq[i].blk = b /\ nq[i].wl = w /\ Awaits(i, b, w)
  BY <1>3 DEF QueuedReads
<1>5. pend.lpn \in LPN
  BY <1>3, ReadIsOfPend
<1>6. PageAt(VAddr(b, w))' = PageAt(VAddr(b, w)) /\ \A c \in Elems(t) : ~Touches(c, VAddr(b, w))
  BY <1>4, <1>5, AwaitedNotFree, SparedStays
<1>7. \A j \in DOMAIN nq' : j > i => ~Touches(nq'[j], VAddr(b, w))
  BY <1>2, <1>4, <1>6 DEF Awaits
<1>8. \/ map'[pend.lpn] = VAddr(b, w)
      \/ /\ gcSt' = "Move" /\ mv'.src = b
         /\ \E j \in DOMAIN nq' : j > i /\ nq'[j].cb = "Mig" /\ nq'[j].op = "PGM"
  <2>1. CASE map[pend.lpn] = VAddr(b, w) /\ map'[pend.lpn] # VAddr(b, w)
    <3>1. PICK c \in Elems(t) : c.cb = "Mig" /\ c.op = "PGM"
      BY <2>1 DEF MovedOn
    <3>2. PICK k \in DOMAIN t : c = t[k]
      BY DEF Elems
    <3>3. k \in 1 .. Len(t) /\ Len(nq) + k \in DOMAIN nq' /\ Len(nq) + k > i /\ Len(nq) + k > Len(nq)
      BY <1>1, <1>2, <1>3, <3>2, SeqFacts
    <3>4. nq'[Len(nq) + k] = t[Len(nq) + k - Len(nq)] /\ Len(nq) + k - Len(nq) = k
      BY <1>1, <1>2, <3>3, ConcatAt
    <3>. QED
      BY <2>1, <3>1, <3>2, <3>3, <3>4 DEF MovedOn
  <2>2. CASE gcSt = "Move" /\ mv.src = b /\ \E j \in DOMAIN nq : j > i /\ nq[j].cb = "Mig" /\ nq[j].op = "PGM"
    <3>1. PICK j \in DOMAIN nq : j > i /\ nq[j].cb = "Mig" /\ nq[j].op = "PGM"
      BY <2>2
    <3>2. nq[j] \in Pgms("Mig")
      <4>1. nq[j] \in Elems(nq)
        BY <3>1 DEF Elems
      <4>. QED
        BY <3>1, <4>1, QueuedIsUnder DEF Pgms
    <3>3. j \in DOMAIN nq' /\ nq'[j] = nq[j]
      BY <1>2
    <3>. QED
      BY <2>2, <3>1, <3>2, <3>3, NoBlkIs DEF SrcStays
  <2>. QED
    BY <1>4, <2>1, <2>2 DEF Awaits
<1>9. Awaits(i, b, w)'
  BY <1>4, <1>6, <1>7, <1>8 DEF Awaits, Touches
<1>. QED
  BY <1>3, <1>4, <1>9

LEMMA DoneTurnReads ==
  ASSUME IoTypes, DoneReads, NEW t, NEW P, Turns(t, P), UNCHANGED <<pend, dict>>
  PROVE  DoneReads'
<1>1. Elems(done'["User"]) \subseteq Elems(done["User"])
  BY TurnUnder, KeysDiffer
<1>. QED
  BY <1>1 DEF DoneReads

LEMMA ErbTurn ==
  ASSUME IoTypes, ErbPages, NEW t, NEW P, Turns(t, P), \A c \in Elems(t) : c.op = "ERB" => c.pg = Erased
  PROVE  ErbPages'
<1>1. Elems(nq') = Elems(nq) \cup Elems(t)
  BY TurnUnder
<1>. QED
  BY <1>1 DEF ErbPages

LEMMA SrcTurn ==
  ASSUME IoTypes, SrcInv, NEW t, NEW P, Turns(t, P), mv'.swl \in Nat,
         \A c \in Elems(t) : c.cb = "Mig" => c.op # "READ",
         gcSt' = "Move" => gcSt = "Move" /\ mv'.src = mv.src
  PROVE  SrcInv'
<1>1. /\ Under'["Mig"] \subseteq Under["Mig"] \cup {c \in Elems(t) : c.cb = "Mig"}
      /\ Elems(done'["Mig"]) \subseteq Elems(done["Mig"]) /\ die' = die
  BY TurnUnder, KeysDiffer
<1>. QED
  BY <1>1 DEF SrcInv

LEMMA PendTurn ==
  ASSUME IoTypes, PendInv, NEW t, NEW P, Turns(t, P), UNCHANGED <<pend, dict, pwr>>,
         Elems(reqQ') \subseteq Elems(reqQ), reqSt' = "Run" => req' = pend,
         \A c \in Elems(t) : c.cb = "User" =>
            c.req = pend /\ ((c.op = "PGM" /\ pend.cmd = "write") \/ (c.op = "READ" /\ pend.cmd = "read"))
  PROVE  PendInv'
<1>1. Under'["User"] \subseteq Under["User"] \cup {c \in Elems(t) : c.cb = "User"}
  BY TurnUnder, KeysDiffer
<1>2. IsPend'
  BY DEF PendInv, IsPend
<1>. QED
  BY <1>1, <1>2 DEF PendInv

\* Commands that only erase blocks from the pool.
Calm(t, P) ==
  Turns(t, P) /\ Spares(t) /\ \A c \in Elems(t) : c.op = "ERB" /\ c.pg = Erased /\ c.cb # "User"

LEMMA CalmNone ==
  ASSUME NEW P, Turns(<<>>, P)
  PROVE  Calm(<<>>, P)
<1>1. Elems(<<>>) = {}
  BY NoneFacts
<1>. QED
  BY <1>1 DEF Calm, Spares

LEMMA CalmQuiet ==
  ASSUME RestInv, UNCHANGED ioVars
  PROVE  \E t, P : Calm(t, P)
  BY QuietTurns, CalmNone

LEMMA CalmPop ==
  ASSUME IoTypes, NEW k \in CbKey, HasDone(k), PopDone(k), UNCHANGED <<die, nq>>
  PROVE  \E t, P : Calm(t, P)
  BY PopTurn, CalmNone

LEMMA CalmErase ==
  ASSUME RestInv, AllocInv, NEW o \in OpenType, pool # <<>>, NEW trig,
         ErbStart(o, Head(pool), trig), UNCHANGED <<die, done>>
  PROVE  \E t, P : Calm(t, P)
<1>1. PICK b : b = Head(pool)
  OBVIOUS
<1>2. PICK c : c = EraseCmd(ErbKey(o), b)
  OBVIOUS
<1>3. GoodCmd(c) /\ c.op = "ERB" /\ c.cb = ErbKey(o) /\ c.blk = b /\ c.pg = Erased
  <2>1. EraseCmd(ErbKey(o), b).blk = b /\ EraseCmd(ErbKey(o), b).pg = Erased
    BY DEF EraseCmd, Cmd
  <2>. QED
    BY <1>2, <2>1, PlainCmds, StreamsDiffer
<1>4. Turns(<<c>>, {}) /\ Elems(<<c>>) = {c}
  <2>1. Issue(<<c>>) /\ IoTypes
    BY <1>1, <1>2 DEF ErbStart, RestInv
  <2>. QED
    BY <1>3, <2>1, IssueTurn, OneFacts
<1>5. bst[b] = "InFree"
  <2>1. IsSeq(pool)
    BY DEF RestInv, AddrInv
  <2>2. 1 \in DOMAIN pool /\ b = pool[1]
    BY <1>1, <2>1, TailAt
  <2>. QED
    BY <2>2 DEF AllocInv, PoolInv
<1>6. Spares(<<c>>)
  BY <1>3, <1>4, <1>5 DEF Spares, Free, Touches, VAddr
<1>7. \A d \in Elems(<<c>>) : d.op = "ERB" /\ d.pg = Erased /\ d.cb # "User"
  BY <1>3, <1>4, StreamsDiffer
<1>. QED
  BY <1>4, <1>6, <1>7 DEF Calm

LEMMA CalmErbGoes ==
  ASSUME RestInv, NEW o \in OpenType, ErbGoesOn(o)
  PROVE  \E t, P : Calm(t, P)
<1>1. CASE ErbErased(o)
  BY <1>1, CalmPop, StreamsDiffer DEF ErbErased, RestInv
<1>2. CASE ErbRetry(o) \/ ErbWait(o)
  BY <1>2, CalmQuiet DEF ErbRetry, ErbWait
<1>. QED
  BY <1>1, <1>2 DEF ErbGoesOn

\* The source of a move stays, or no read of it is under way.
SrcKept ==
  gcSt' = "Move" =>
    (gcSt = "Move" /\ mv'.src = mv.src) \/ \A c \in Under["Mig"] : c.op # "READ"

LEMMA SrcCalm ==
  ASSUME IoTypes, SrcInv, NEW t, NEW P, Calm(t, P), mv'.swl \in Nat, SrcKept
  PROVE  SrcInv'
<1>1. Turns(t, P) /\ \A c \in Elems(t) : c.op # "READ"
  BY DEF Calm
<1>2. /\ Under'["Mig"] \subseteq Under["Mig"] \cup {c \in Elems(t) : c.cb = "Mig"}
      /\ Elems(done'["Mig"]) \subseteq Elems(done["Mig"]) /\ die' = die
  BY <1>1, TurnUnder, KeysDiffer
<1>3. Elems(done["Mig"]) \subseteq Under["Mig"]
  BY DoneIsUnder, KeysDiffer
<1>. QED
  BY <1>1, <1>2, <1>3 DEF SrcInv, SrcKept

\* Nobody reads for the host.
LEMMA NoUserReads ==
  ASSUME \A c \in Under'["User"] : c.op # "READ"
  PROVE  QueuedReads' /\ DoneReads'
<1>1. /\ \A i \in DOMAIN nq' : nq'[i].cb = "User" => nq'[i] \in Under'["User"]
      /\ Elems(done'["User"]) \subseteq Under'["User"]
  BY KeysDiffer DEF Under, Elems
<1>. QED
  BY <1>1 DEF QueuedReads, DoneReads

LEMMA CalmUser ==
  ASSUME IoTypes, NEW t, NEW P, Calm(t, P)
  PROVE  Under'["User"] \subseteq Under["User"]
  BY TurnUnder, KeysDiffer DEF Calm

(* A step of GC or REQ that issues no program and no read.                 *)
LEMMA DevCalm ==
  ASSUME IoTypes, AllocInv, DevInv, \E t, P : Calm(t, P),
         map' = map, VerStays, Loaded' => Loaded, mv'.swl \in Nat, SrcKept,
         PendInv', QueuedReads', DoneReads'
  PROVE  DevInv'
<1>1. PICK t, P : Calm(t, P)
  OBVIOUS
<1>. QED
  BY <1>1, MapTurn, ErbTurn, SrcCalm DEF DevInv, Calm

-----------------------------------------------------------------------------
(* REQ and REQ_RESP.                                                       *)

LEMMA NoneIn == ASSUME NEW s, IsSeq(s), Len(s) = 0 PROVE s = <<>> /\ Elems(s) = {}
<1>1. s = <<>>
  OBVIOUS
<1>. QED
  BY <1>1, NoneFacts

\* REQ works on the request the host waits for, alone.
LEMMA HandledPend ==
  ASSUME RestInv, AllocInv, PendInv, NEW r, NEW at, Handling(r, at)
  PROVE  /\ r = pend /\ Held /\ pend # NoReq /\ pwr
         /\ reqQ' = <<>> /\ Elems(reqQ') = {} /\ Under["User"] = {}
<1>0. IoTypes /\ HostInv
  BY DEF RestInv, AllocInv
<1>1. pend # NoReq /\ reqQ' = <<>> /\ Elems(reqQ') = {} /\ Under["User"] = {}
  BY <1>0, HandledIs, NoneOfUser, NoneIn
<1>2. r = pend /\ Held
  <2>1. CASE reqSt = "WaitCmd" /\ reqQ # <<>> /\ r = Head(reqQ)
    <3>1. r \in Elems(reqQ)
      BY <1>0, <2>1, TailFacts DEF HostInv
    <3>. QED
      BY <2>1, <3>1 DEF PendInv, Held
  <2>2. CASE reqSt = "Run" /\ r = req
    BY <2>2 DEF PendInv, Held
  <2>. QED
    BY <2>1, <2>2 DEF Handling
<1>. QED
  BY <1>1, <1>2 DEF PendInv

LEMMA ReqRemainsDev ==
  ASSUME RestInv, AllocInv, DevInv, NEW r, NEW at, Handling(r, at), NEW s, Remains(r, s),
         \E t, P : Calm(t, P), UNCHANGED <<map, mt, mv, hostVars, dict>>,
         gcSt' = gcSt \/ gcSt' = "Stop"
  PROVE  DevInv'
<1>0. IoTypes /\ PendInv /\ SrcInv
  BY DEF RestInv, DevInv
<1>1. r = pend /\ Held /\ reqQ' = <<>> /\ Elems(reqQ') = {} /\ Under["User"] = {}
  BY <1>0, HandledPend
<1>2. PICK t, P : Calm(t, P)
  OBVIOUS
<1>3. PendInv'
  BY <1>0, <1>1, <1>2, PendTurn DEF Calm, Remains, hostVars
<1>4. QueuedReads' /\ DoneReads'
  BY <1>0, <1>1, <1>2, CalmUser, NoUserReads
<1>5. VerStays
  BY <1>1 DEF VerStays, Ver, Held, Remains, hostVars
<1>6. mv'.swl \in Nat /\ SrcKept /\ (Loaded' => Loaded)
  BY <1>0 DEF SrcInv, SrcKept, Loaded
<1>. QED
  BY <1>0, <1>2, <1>3, <1>4, <1>5, <1>6, DevCalm

LEMMA ReqAnswersDev ==
  ASSUME RestInv, AllocInv, DevInv, NEW r, NEW at, Handling(r, at), r.cmd # "write",
         Respond(r, Erased), Fetched, UNCHANGED ioVars, UNCHANGED <<map, mt, mv, dict>>,
         gcSt' = gcSt \/ gcSt' = "Stop"
  PROVE  DevInv'
<1>0. IoTypes /\ PendInv /\ SrcInv
  BY DEF RestInv, DevInv
<1>1. r = pend /\ reqQ' = <<>> /\ Elems(reqQ') = {} /\ Under["User"] = {}
  BY <1>0, HandledPend
<1>2. PICK t, P : Calm(t, P)
  BY CalmQuiet
<1>3. Under'["User"] = {}
  BY <1>0, <1>1, <1>2, CalmUser
<1>4. pend' = NoReq /\ reqSt' = "WaitCmd"
  BY DEF Respond, Fetched
<1>5. PendInv'
  BY <1>0, <1>1, <1>3, <1>4 DEF PendInv, IsPend
<1>6. QueuedReads' /\ DoneReads'
  BY <1>3, NoUserReads
<1>7. VerStays
  BY <1>1, <1>4 DEF VerStays, Ver, NoReq
<1>8. mv'.swl \in Nat /\ SrcKept /\ (Loaded' => Loaded)
  BY <1>0 DEF SrcInv, SrcKept, Loaded
<1>. QED
  BY <1>0, <1>2, <1>5, <1>6, <1>7, <1>8, DevCalm

\* GC and META, which leave the requests alone, issuing erases at most.
LEMMA CalmDev ==
  ASSUME RestInv, AllocInv, DevInv, \E t, P : Calm(t, P),
         UNCHANGED <<map, dict, hostVars, reqQ, req>>, Held' <=> Held, reqSt' = "Run" => reqSt = "Run",
         Loaded' => Loaded, mv'.swl \in Nat, SrcKept, SrcStays
  PROVE  DevInv'
<1>0. IoTypes /\ PendInv /\ QueuedReads /\ DoneReads
  BY DEF RestInv, DevInv
<1>1. PICK t, P : Calm(t, P)
  OBVIOUS
<1>2. Turns(t, P) /\ Spares(t) /\ \A c \in Elems(t) : c.cb # "User"
  BY <1>1 DEF Calm
<1>3. PendInv'
  BY <1>0, <1>2, PendTurn DEF hostVars, PendInv
<1>4. QueuedReads'
  BY <1>0, <1>2, QueuedTurn DEF MovedOn, hostVars
<1>5. DoneReads'
  BY <1>0, <1>2, DoneTurnReads DEF hostVars
<1>6. VerStays
  BY DEF VerStays, Ver, hostVars
<1>. QED
  BY <1>0, <1>1, <1>3, <1>4, <1>5, <1>6, DevCalm

LEMMA QuietDev ==
  ASSUME RestInv, AllocInv, DevInv, UNCHANGED ioVars,
         UNCHANGED <<map, dict, hostVars, reqQ, req, mt, gcSt, mv>>, reqSt' = "Run" <=> reqSt = "Run"
  PROVE  DevInv'
<1>1. \E t, P : Calm(t, P)
  BY CalmQuiet
<1>2. mv'.swl \in Nat /\ SrcKept /\ SrcStays /\ (Loaded' => Loaded) /\ (Held' <=> Held)
  BY DEF DevInv, SrcInv, SrcKept, SrcStays, Loaded, Held
<1>. QED
  BY <1>1, <1>2, CalmDev

LEMMA ReqReadDev ==
  ASSUME MapInv, RestInv, AllocInv, DevInv, NEW r, NEW at, Handling(r, at), ReqReadMapped(r, at),
         dict' = dict
  PROVE  DevInv'
<1>0. IoTypes /\ PendInv /\ SrcInv /\ ErbPages /\ MapSound /\ DoneReads /\ Loaded
  BY ReqWorks, NotOpening DEF RestInv, DevInv
<1>1. r = pend /\ reqQ' = <<>> /\ Elems(reqQ') = {} /\ Under["User"] = {}
  BY <1>0, HandledPend
<1>2. PICK l \in LPN : pend = ReadReq(l)
  BY <1>0, <1>1 DEF PendInv, IsPend, NoReq, WriteReq, ShutdownReq, ReqReadMapped
<1>3. pend.lpn = l /\ pend.cmd = "read" /\ META_GetMap(l) = map[l] /\ map[l] # FF32 /\ Ver(l) = dict[l]
  BY <1>1, <1>2 DEF ReadReq, META_GetMap, ReqReadMapped, Ver
<1>4. dict[l] # 0 /\ \E b \in UBlk, w \in WL : Holds(l, b, w)
  BY <1>0, <1>3 DEF MapSound, Sound
<1>5. PICK b \in UBlk, w \in WL : Holds(l, b, w)
  BY <1>4
<1>6. PICK d : d = ReadCmd("User", b, w)
  OBVIOUS
<1>7. PICK c : c = UserCmd(d, r)
  OBVIOUS
<1>8. GoodCmd(c) /\ c.cb = "User" /\ c.op = "READ" /\ c.blk = b /\ c.wl = w /\ c.req = pend
  <2>1. GoodCmd(d) /\ d.cb = "User" /\ d.op = "READ" /\ d.blk = b /\ d.wl = w
    BY <1>6, PlainCmds, KeysDiffer DEF ReadCmd, Cmd
  <2>2. GoodCmd(c) /\ c.cb = d.cb /\ c.op = d.op
    BY <1>1, <1>3, <1>7, <2>1, WithReq
  <2>3. c.blk = d.blk /\ c.wl = d.wl /\ c.req = r
    BY <1>7, <2>1 DEF UserCmd, GoodCmd
  <2>. QED
    BY <1>1, <2>1, <2>2, <2>3
<1>9. Issue(<<c>>) /\ UNCHANGED <<die, done>> /\ Fetched
      /\ UNCHANGED <<map, mt, gcSt, mv, pend, rsp, pwr>>
  <2>1. map[l].blk = b /\ map[l].wl = w
    BY <1>5 DEF Holds, VAddr
  <2>2. Issue(<<UserCmd(ReadCmd("User", META_GetMap(r.lpn).blk, META_GetMap(r.lpn).wl), r)>>)
    BY DEF ReqReadMapped
  <2>3. UserCmd(ReadCmd("User", META_GetMap(r.lpn).blk, META_GetMap(r.lpn).wl), r) = c
    BY <1>1, <1>3, <1>6, <1>7, <2>1
  <2>. QED
    BY <2>2, <2>3 DEF ReqReadMapped, otherThanReq, mapVars, gcVars, hostVars
<1>10. Turns(<<c>>, {}) /\ Elems(<<c>>) = {c}
  BY <1>0, <1>8, <1>9, IssueTurn, OneFacts
<1>11. Spares(<<c>>) /\ ~Touches(c, VAddr(b, w))
  BY <1>8, <1>10 DEF Spares, Touches
<1>12. VerStays /\ (Loaded' => Loaded)
  BY <1>3, <1>2, <1>9 DEF VerStays, Ver, Loaded
<1>13. MapSound'
  BY <1>0, <1>9, <1>10, <1>11, <1>12, MapTurn
<1>14. ErbPages' /\ SrcInv'
  <2>1. ErbPages'
    BY <1>0, <1>8, <1>10, ErbTurn
  <2>2. mv'.swl \in Nat /\ (gcSt' = "Move" => gcSt = "Move" /\ mv'.src = mv.src)
        /\ \A x \in Elems(<<c>>) : x.cb = "Mig" => x.op # "READ"
    BY <1>0, <1>8, <1>9, <1>10 DEF SrcInv
  <2>. QED
    BY <1>0, <1>10, <2>1, <2>2, SrcTurn
<1>15. PendInv'
  <2>1. \A x \in Elems(<<c>>) : x.cb = "User" =>
          x.req = pend /\ ((x.op = "PGM" /\ pend.cmd = "write") \/ (x.op = "READ" /\ pend.cmd = "read"))
    BY <1>3, <1>8, <1>10
  <2>. QED
    BY <1>0, <1>1, <1>9, <1>10, <2>1, PendTurn DEF Fetched
<1>16. DoneReads'
  BY <1>0, <1>9, <1>10, DoneTurnReads
<1>17. QueuedReads'
  <2>1. IsSeq(nq) /\ IsSeq(<<c>>) /\ Len(<<c>>) = 1 /\ nq' = nq \o <<c>> /\ Len(nq) \in Nat
    BY <1>0, <1>10, OneFacts, SeqFacts DEF IoTypes, GoodCmds, Turns
  <2>2. ASSUME NEW i \in DOMAIN nq', nq'[i].cb = "User"
        PROVE  i = Len(nq) + 1 /\ nq'[i] = c
    <3>1. i \in 1 .. Len(nq) + 1
      BY <2>1, ConcatAt
    <3>2. CASE i <= Len(nq)
      <4>1. nq'[i] = nq[i] /\ i \in DOMAIN nq
        BY <2>1, <3>1, <3>2, ConcatAt, SeqFacts
      <4>2. nq[i] \in Under["User"]
        BY <1>0, <2>2, <4>1, QueuedIsUnder DEF Elems
      <4>. QED
        BY <1>1, <4>2
    <3>3. CASE i > Len(nq)
      <4>1. i = Len(nq) + 1 /\ i - Len(nq) = 1
        BY <2>1, <3>1, <3>3
      <4>2. nq'[i] = <<c>>[i - Len(nq)]
        BY <2>1, <3>1, <3>3, ConcatAt
      <4>. QED
        BY <4>1, <4>2
    <3>. QED
      BY <2>1, <3>1, <3>2, <3>3
  <2>3. \A j \in DOMAIN nq' : ~(j > Len(nq) + 1)
    BY <2>1, ConcatAt
  <2>4. PageAt(VAddr(b, w))' = PageAt(VAddr(b, w))
    BY <1>0, <1>5, <1>10, <1>11, HoldsNotFree, SparedStays
  <2>5. ASSUME NEW i \in DOMAIN nq', nq'[i].cb = "User"
        PROVE  nq'[i].blk = b /\ nq'[i].wl = w /\ Awaits(i, b, w)'
    <3>1. i = Len(nq) + 1 /\ nq'[i] = c
      BY <2>2, <2>5
    <3>2. \A j \in DOMAIN nq' : ~(j > i)
      BY <2>3, <3>1
    <3>3. PageAt(VAddr(b, w))' = DataPage(l, dict[l]) /\ map'[l] = VAddr(b, w)
      BY <1>3, <1>5, <1>9, <2>4 DEF Holds
    <3>4. Awaits(i, b, w)'
      BY <1>3, <1>4, <1>9, <3>2, <3>3 DEF Awaits
    <3>. QED
      BY <1>8, <3>1, <3>4
  <2>. QED
    BY <2>5 DEF QueuedReads
<1>. QED
  BY <1>13, <1>14, <1>15, <1>16, <1>17 DEF DevInv

\* The page a stream programs next is erased, whatever is queued.
LEMMA NextIsFree ==
  ASSUME IoTypes, ErbPages, NEW c, NEW P, Turns(<<c>>, P), c.op = "PGM",
         NEW b \in UBlk, NEW w \in WL, c.blk = b, c.wl = w, ErasedFrom(b, w),
         \A d \in Elems(nq) : d.op = "PGM" /\ d.blk = b => d.wl # w
  PROVE  Free(b, w) /\ Spares(<<c>>) /\ PageAt(VAddr(b, w))' = c.pg
<1>1. Free(b, w)
  BY PageRoom DEF Free
<1>2. Elems(<<c>>) = {c}
  BY OneFacts
<1>3. Spares(<<c>>)
  BY <1>1, <1>2 DEF Spares, Touches, VAddr
<1>4. PICK a : a = VAddr(b, w)
  OBVIOUS
<1>5. PageAt(a)' = c.pg
  BY <1>4, PagePgm DEF Touches, VAddr
<1>. QED
  BY <1>1, <1>3, <1>4, <1>5 DEF PageAt, Touches

LEMMA ReqProgramDev ==
  ASSUME MapInv, RestInv, AllocInv, FlashInv, DevInv, NEW r, NEW at, Handling(r, at),
         ReqProgram(r, at), dict' = dict
  PROVE  DevInv'
<1>0. IoTypes /\ AddrInv /\ HostInv /\ PendInv /\ SrcInv /\ ErbPages /\ MapSound /\ DoneReads /\ Loaded
      /\ r.cmd = "write" /\ "USER" \in OpenType
  BY ReqWorks, NotOpening, StreamsDiffer DEF RestInv, AllocInv, DevInv, ReqProgram
<1>1. r = pend /\ reqQ' = <<>> /\ Elems(reqQ') = {} /\ Under["User"] = {} /\ Held
  BY <1>0, HandledPend
<1>2. PICK l \in LPN : dict[l] # 0 /\ pend = WriteReq(l, dict[l])
  BY <1>0, <1>1 DEF PendInv, IsPend, NoReq, ReadReq, ShutdownReq
<1>3. pend.lpn = l /\ pend.cmd = "write" /\ pend.ver = dict[l]
  BY <1>2 DEF WriteReq
<1>4. PICK b, w : b = opn["USER"].blk /\ w = opn["USER"].wl
  OBVIOUS
<1>5. w \in WL /\ opn["USER"] = VAddr(b, w) /\ UserOpen
  BY <1>0, <1>4, SizeAssumption DEF ReqProgram, UserBlkFull, AddrInv, IsNext, WL, UserOpen, InUse
<1>6. b \in UBlk
  BY <1>4, <1>5 DEF AllocInv, OpenInv
<1>7. PICK pg : pg = DataPage(l, dict[l])
  OBVIOUS
<1>8. PICK d : d = PgmCmd("User", b, w, pg)
  OBVIOUS
<1>9. PICK c : c = UserCmd(d, r)
  OBVIOUS
<1>10. GoodCmd(c) /\ c.cb = "User" /\ c.op = "PGM" /\ c.blk = b /\ c.wl = w /\ c.req = pend /\ c.pg = pg
  <2>1. GoodCmd(d) /\ d.cb = "User" /\ d.op = "PGM"
    BY <1>6, <1>8, UserPgm, KeysDiffer
  <2>2. d.blk = b /\ d.wl = w /\ d.pg = pg
    BY <1>8 DEF PgmCmd, Cmd
  <2>3. GoodCmd(c) /\ c.cb = d.cb /\ c.op = d.op
    BY <1>0, <1>9, <2>1, WithReq
  <2>4. c.blk = d.blk /\ c.wl = d.wl /\ c.pg = d.pg /\ c.req = r
    BY <1>9, <2>1 DEF UserCmd, GoodCmd
  <2>. QED
    BY <1>1, <2>1, <2>2, <2>3, <2>4
<1>11. Issue(<<c>>) /\ UNCHANGED <<die, done>> /\ Fetched
      /\ UNCHANGED <<mt, gcSt, mv, pend, rsp, pwr>> /\ map' = [map EXCEPT ![l] = VAddr(b, w)]
  <2>1. Issue(<<UserCmd(PgmCmd("User", opn["USER"].blk, opn["USER"].wl, DataPage(r.lpn, r.ver)), r)>>)
    BY DEF ReqProgram
  <2>2. UserCmd(PgmCmd("User", opn["USER"].blk, opn["USER"].wl, DataPage(r.lpn, r.ver)), r) = c
    BY <1>1, <1>3, <1>4, <1>7, <1>8, <1>9
  <2>3. map' = [map EXCEPT ![r.lpn] = opn["USER"]]
    BY <1>1, <1>3 DEF ReqProgram, MetaUpdate
  <2>. QED
    BY <1>1, <1>3, <1>5, <2>1, <2>2, <2>3 DEF ReqProgram, gcVars, hostVars
<1>12. Turns(<<c>>, {}) /\ Elems(<<c>>) = {c}
  BY <1>0, <1>10, <1>11, IssueTurn, OneFacts
<1>13. ASSUME NEW x \in Elems(nq), x.op = "PGM", x.blk = b
       PROVE  x.wl # w
  <2>1. x.cb # "User"
    BY <1>0, <1>1, QueuedIsUnder
  <2>2. CASE x.cb = "Mig"
    BY <2>2, <1>4, <1>5, <1>13, PgmIs DEF AllocInv, OpenInv
  <2>3. CASE x.cb = "Meta"
    BY <2>3, <1>6, <1>13, PgmIs, BlksDiffer
  <2>. QED
    BY <2>1, <2>2, <2>3, <1>13, PgmIs
<1>14. ErasedFrom(b, w)
  BY <1>0, <1>4, <1>5, SizeAssumption DEF FlashInv, RoomInv, WL
<1>15. Free(b, w) /\ Spares(<<c>>) /\ PageAt(VAddr(b, w))' = pg
  BY <1>0, <1>5, <1>6, <1>10, <1>12, <1>13, <1>14, NextIsFree
<1>16. MapSound'
  <2>1. ~Held' /\ \A x \in LPN : Ver(x)' = dict[x]
    BY <1>1, <1>11 DEF Held, Ver, Fetched
  <2>2. \A x \in LPN : x # l => Ver(x) = dict[x]
    BY <1>3 DEF Ver
  <2>3. map'[l] = VAddr(b, w) /\ \A x \in LPN : x # l => map'[x] = map[x]
    BY <1>11 DEF MapInv
  <2>4. Sound(l)'
    BY <1>2, <1>5, <1>6, <1>7, <1>15, <2>1, <2>3 DEF Sound, Holds
  <2>5. ASSUME NEW x \in LPN, x # l
        PROVE  Sound(x)'
    <3>1. Sound(x) /\ map'[x] = map[x] /\ Ver(x)' = Ver(x)
      BY <1>0, <2>1, <2>2, <2>3, <2>5 DEF MapSound
    <3>. QED
      BY <1>0, <1>12, <1>15, <3>1, SoundTurn
  <2>. QED
    BY <2>4, <2>5 DEF MapSound
<1>17. ErbPages' /\ SrcInv'
  <2>1. ErbPages'
    BY <1>0, <1>10, <1>12, ErbTurn
  <2>2. mv'.swl \in Nat /\ (gcSt' = "Move" => gcSt = "Move" /\ mv'.src = mv.src)
        /\ \A x \in Elems(<<c>>) : x.cb = "Mig" => x.op # "READ"
    BY <1>0, <1>10, <1>11, <1>12 DEF SrcInv
  <2>. QED
    BY <1>0, <1>12, <2>1, <2>2, SrcTurn
<1>18. PendInv'
  <2>1. \A x \in Elems(<<c>>) : x.cb = "User" =>
          x.req = pend /\ ((x.op = "PGM" /\ pend.cmd = "write") \/ (x.op = "READ" /\ pend.cmd = "read"))
    BY <1>3, <1>10, <1>12
  <2>. QED
    BY <1>0, <1>1, <1>11, <1>12, <2>1, PendTurn DEF Fetched
<1>19. QueuedReads' /\ DoneReads'
  <2>1. Under'["User"] \subseteq Under["User"] \cup {x \in Elems(<<c>>) : x.cb = "User"}
    BY <1>0, <1>12, TurnUnder, KeysDiffer
  <2>2. \A x \in Under'["User"] : x.op # "READ"
    BY <1>1, <1>10, <1>12, <2>1
  <2>. QED
    BY <2>2, NoUserReads
<1>. QED
  BY <1>16, <1>17, <1>18, <1>19 DEF DevInv

\* The request of the host is queued, worked on, or under way as a command.
LEMMA OneHeld ==
  HostInv /\ IoTypes =>
    /\ pend = NoReq => ~Held /\ Elems(reqQ) = {} /\ Under["User"] = {}
    /\ Under["User"] # {} => ~Held /\ Elems(reqQ) = {}
    /\ pend # NoReq /\ Under["User"] = {} => Held
<1> SUFFICES ASSUME HostInv, IoTypes
             PROVE  /\ pend = NoReq => ~Held /\ Elems(reqQ) = {} /\ Under["User"] = {}
                    /\ Under["User"] # {} => ~Held /\ Elems(reqQ) = {}
                    /\ pend # NoReq /\ Under["User"] = {} => Held
  OBVIOUS
<1>1. PICK n, m : n = Len(reqQ) /\ m = UserCnt
  OBVIOUS
<1>2. n \in Nat /\ m \in Nat /\ (m = 0 => Under["User"] = {})
  BY <1>1, SeqFacts, UserCntFacts DEF HostInv
<1>3. n + (IF reqSt = "Run" THEN 1 ELSE 0) + m = IF pend = NoReq THEN 0 ELSE 1
  BY <1>1 DEF HostInv, OneRequest
<1>4. n = 0 => reqQ = <<>> /\ Elems(reqQ) = {}
  BY <1>1, NoneIn DEF HostInv
<1>5. Under["User"] = {} => m = 0
  <2>1. Under["User"] = {} => \A o \in Ops : Cnt["User"][o] = 0
    BY CntZero, KeysDiffer
  <2>. QED
    BY <1>1, <2>1, KeysDiffer DEF UserCnt
<1>6. reqQ = <<>> => n = 0
  BY <1>1
<1>. QED
  BY <1>2, <1>3, <1>4, <1>5, <1>6 DEF Held

LEMMA RespDev ==
  ASSUME MapInv, RestInv, RestInv', AllocInv, AllocInv', DevInv, ReqResp_Run, dict' = dict
  PROVE  DevInv'
<1>0. IoTypes /\ HostInv /\ PendInv /\ SrcInv
  BY DEF RestInv, AllocInv, DevInv
<1>1. CASE RespWait
  BY <1>1, QuietDev DEF RespWait, otherThanReq, mapVars, gcVars, reqVars
<1>2. CASE RespDone
  <2>1. HasDone("User") /\ PopDone("User") /\ UNCHANGED <<die, nq, map, mt, gcSt, mv, reqQ, reqSt, req>>
    BY <1>2 DEF RespDone, gcVars, reqVars
  <2>2. pend' = NoReq
    BY <1>2 DEF RespDone, Respond
  <2>3. \E t, P : Calm(t, P)
    BY <1>0, <2>1, CalmPop, KeysDiffer
  <2>4. ~Held /\ Elems(reqQ) = {}
    BY <1>0, <2>1, HeadUnder, OneHeld, KeysDiffer
  <2>5. Under'["User"] = {}
    <3>1. HostInv' /\ IoTypes' =>
            (pend = NoReq => ~Held /\ Elems(reqQ) = {} /\ Under["User"] = {})'
      BY OneHeld, PTL
    <3>. QED
      BY <2>2, <3>1 DEF RestInv, AllocInv
  <2>6. PendInv'
    BY <1>0, <2>1, <2>2, <2>4, <2>5 DEF PendInv, IsPend, Held
  <2>7. QueuedReads' /\ DoneReads'
    BY <2>5, NoUserReads
  <2>8. VerStays
    BY <2>1, <2>4 DEF VerStays, Ver, Held
  <2>9. mv'.swl \in Nat /\ SrcKept /\ (Loaded' => Loaded)
    BY <1>0, <2>1 DEF SrcInv, SrcKept, Loaded
  <2>. QED
    BY <1>0, <2>1, <2>3, <2>6, <2>7, <2>8, <2>9, DevCalm
<1>. QED
  BY <1>1, <1>2 DEF ReqResp_Run

LEMMA ReqDev ==
  ASSUME MapInv, RestInv, AllocInv, FlashInv, DevInv, Req_Run, dict' = dict
  PROVE  DevInv'
<1>1. CASE ReqWaitOpen \/ ReqOpened \/ ReqIdle
  BY <1>1, QuietDev DEF ReqWaitOpen, ReqOpened, ReqIdle, otherThanReq, mapVars, gcVars, reqVars, hostVars
<1>2. ASSUME NEW r, NEW at, Handling(r, at), ReqStep(r, at)
      PROVE  DevInv'
  <2>1. CASE ReqReadMapped(r, at)
    BY <1>2, <2>1, ReqReadDev
  <2>2. CASE ReqReadUnmapped(r, at)
    BY <1>2, <2>2, ReqAnswersDev DEF ReqReadUnmapped, otherThanReq, mapVars, gcVars
  <2>3. CASE ReqNeedsBlk(r, at)
    <3>1. CASE ReqMayTake
      <4>1. pool # <<>> /\ ErbStart("USER", Head(pool), BlkReqEvt) /\ UNCHANGED <<die, done>>
        BY <2>3, <3>1 DEF ReqNeedsBlk, ReqMayTake
      <4>2. \E t, P : Calm(t, P)
        BY <4>1, CalmErase, StreamsDiffer
      <4>3. Remains(r, "BlkErsWait")
        BY <2>3, <3>1 DEF ReqNeedsBlk
      <4>. QED
        BY <1>2, <2>3, <4>2, <4>3, ReqRemainsDev DEF ReqNeedsBlk, mapVars
    <3>2. CASE ~ReqMayTake
      <4>1. UNCHANGED ioVars /\ Remains(r, "Run")
        BY <2>3, <3>2 DEF ReqNeedsBlk, ioVars
      <4>. QED
        BY <1>2, <2>3, <4>1, CalmQuiet, ReqRemainsDev DEF ReqNeedsBlk, mapVars
    <3>. QED
      BY <3>1, <3>2
  <2>4. CASE ReqErasing(r, at)
    <3>1. \E t, P : Calm(t, P)
      BY <2>4, CalmErbGoes, StreamsDiffer DEF ReqErasing
    <3>2. Remains(r, at)
      BY <2>4 DEF ReqErasing
    <3>. QED
      BY <1>2, <2>4, <3>1, <3>2, ReqRemainsDev DEF ReqErasing, mapVars
  <2>5. CASE ReqNewBlk(r, at)
    <3>1. UNCHANGED ioVars /\ Remains(r, "Run")
      BY <2>5 DEF ReqNewBlk
    <3>. QED
      BY <1>2, <2>5, <3>1, CalmQuiet, ReqRemainsDev DEF ReqNewBlk
  <2>6. CASE ReqProgram(r, at)
    BY <1>2, <2>6, ReqProgramDev
  <2>7. CASE ReqJnlBusy(r, at) \/ ShutdownSaving(r, at)
    <3>1. UNCHANGED ioVars /\ \E s : Remains(r, s)
      BY <2>7 DEF ReqJnlBusy, ShutdownSaving
    <3>. QED
      BY <1>2, <2>7, <3>1, CalmQuiet, ReqRemainsDev
         DEF ReqJnlBusy, ShutdownSaving, otherThanReq, mapVars, gcVars
  <2>8. CASE ShutdownWaitIo(r, at) \/ ShutdownSave(r, at)
    <3>1. UNCHANGED ioVars /\ (\E s : Remains(r, s)) /\ (gcSt' = gcSt \/ gcSt' = "Stop")
      BY <2>8 DEF ShutdownWaitIo, ShutdownSave, StopGc
    <3>. QED
      BY <1>2, <2>8, <3>1, CalmQuiet, ReqRemainsDev DEF ShutdownWaitIo, ShutdownSave, mapVars
  <2>9. CASE ShutdownSudden(r, at) \/ ShutdownSaved(r, at)
    <3>1. gcSt' = gcSt \/ gcSt' = "Stop"
      BY <2>9 DEF ShutdownSudden, ShutdownSaved, StopGc, otherThanReq, gcVars
    <3>. QED
      BY <1>2, <2>9, <3>1, ReqAnswersDev DEF ShutdownSudden, ShutdownSaved, otherThanReq, mapVars, gcVars
  <2>. QED
    BY <1>2, <2>1, <2>2, <2>3, <2>4, <2>5, <2>6, <2>7, <2>8, <2>9 DEF ReqStep
<1>. QED
  BY <1>1, <1>2 DEF Req_Run

-----------------------------------------------------------------------------
(* GC.                                                                     *)

\* A turn of GC that issues no program and no read.
LEMMA GcCalm ==
  ASSUME RestInv, AllocInv, DevInv, GcOnly, \E t, P : Calm(t, P),
         UNCHANGED <<map, dict, mt>>, mv'.swl \in Nat,
         \/ gcSt' = "Move" => gcSt = "Move" /\ mv'.src = mv.src
         \/ \A c \in Under["Mig"] : c.op # "READ",
         \/ gcSt = "Move" /\ mv.src # NoBlk => gcSt' = "Move" /\ mv'.src = mv.src
         \/ Pgms("Mig") = {}
  PROVE  DevInv'
<1>1. SrcKept /\ SrcStays /\ (Held' <=> Held) /\ (Loaded' => Loaded)
  BY DEF SrcKept, SrcStays, Held, Loaded, GcOnly, reqVars
<1>. QED
  BY <1>1, CalmDev DEF GcOnly, reqVars, hostVars

LEMMA MigQuiet ==
  ASSUME RestInv
  PROVE  /\ gcSt \in {"WaitOpen", "WaitReq", "GetDst", "ErsDst"} =>
              Pgms("Mig") = {} /\ \A c \in Under["Mig"] : c.op # "READ"
         /\ gcSt = "Move" /\ mv.rd = 0 => \A c \in Under["Mig"] : c.op # "READ"
         /\ gcSt = "Move" /\ mv.pg = 0 => Pgms("Mig") = {}
<1>1. IoTypes /\ "Mig" \in CbKey /\ "READ" \in Ops /\ "PGM" \in Ops
  BY KeysDiffer DEF RestInv
<1>2. \A o \in Ops : Cnt["Mig"][o] = 0 <=> \A c \in Under["Mig"] : c.op # o
  BY <1>1, CntZero
<1>3. Cnt["Mig"]["PGM"] = 0 => Pgms("Mig") = {}
  BY <1>1, <1>2 DEF Pgms
<1>. QED
  BY <1>1, <1>2, <1>3 DEF RestInv, MigInv, Cnts

LEMMA GcQuietDev ==
  ASSUME MapInv, RestInv, AllocInv, DevInv, GcOnly, dict' = dict,
         \/ GcWaitOpen \/ GcResume \/ GcOpened \/ GcWaitReq \/ GcErsDstDone
         \/ GcDstFull \/ GcNewSrc \/ GcSrcDone \/ GcMoveWait
  PROVE  DevInv'
<1>0. IsMv(mv) /\ MvIdle.swl = 0 /\ mv.swl \in Nat
  BY DEF RestInv, MigInv, MvIdle, DevInv, SrcInv
<1>1. UNCHANGED ioVars /\ UNCHANGED <<map, mt>>
  BY DEF GcWaitOpen, GcResume, GcOpened, GcWaitReq, GcErsDstDone, GcDstFull, GcNewSrc, GcSrcDone,
         GcMoveWait, otherThanGc
<1>2. mv'.swl \in Nat
  <2>1. \A b, w : MoveInto(b, w).swl = 0
    BY DEF MoveInto, MvIdle
  <2>2. CASE mv' = mv \/ mv' = MvIdle \/ \E b, w : mv' = MoveInto(b, w)
    BY <1>0, <2>1, <2>2
  <2>3. CASE GcNewSrc
    <3>1. PICK b \in Victims : mv' = [mv EXCEPT !.src = b, !.swl = 0]
      BY <2>3 DEF GcNewSrc
    <3>. QED
      BY <1>0, <3>1 DEF IsMv, MvFields
  <2>4. CASE GcSrcDone
    <3>1. mv' = [mv EXCEPT !.src = NoBlk]
      BY <2>4 DEF GcSrcDone
    <3>. QED
      BY <1>0, <3>1 DEF IsMv, MvFields
  <2>. QED
    BY <2>2, <2>3, <2>4 DEF GcWaitOpen, GcResume, GcOpened, GcWaitReq, GcErsDstDone, GcDstFull, GcMoveWait, gcVars
<1>3. \/ gcSt' = "Move" => gcSt = "Move" /\ mv'.src = mv.src
      \/ \A c \in Under["Mig"] : c.op # "READ"
  <2>1. CASE GcNewSrc \/ GcSrcDone
    <3>1. gcSt = "Move" /\ mv.rd = 0
      <4>1. gcSt = "Move"
        BY <2>1 DEF GcNewSrc, GcSrcDone, Collected
      <4>2. mv.rd \in Nat
        BY <4>1, MoveFacts DEF MoveAcc
      <4>3. mv.rd = 0 \/ ~(mv.rd > 0)
        BY <2>1 DEF GcNewSrc, GcSrcDone, UnderWay
      <4>. QED
        BY <4>1, <4>2, <4>3
    <3>. QED
      BY <3>1, MigQuiet
  <2>2. CASE GcResume \/ GcErsDstDone
    BY <2>2, MigQuiet DEF GcResume, GcErsDstDone
  <2>3. CASE GcWaitOpen \/ GcOpened \/ GcWaitReq \/ GcDstFull \/ GcMoveWait
    BY <2>3 DEF GcWaitOpen, GcOpened, GcWaitReq, GcDstFull, GcMoveWait, gcVars
  <2>. QED
    BY <2>1, <2>2, <2>3
<1>4. \/ gcSt = "Move" /\ mv.src # NoBlk => gcSt' = "Move" /\ mv'.src = mv.src
      \/ Pgms("Mig") = {}
  <2>1. CASE GcDstFull \/ GcSrcDone
    <3>1. gcSt = "Move" /\ mv.pg = 0
      <4>1. gcSt = "Move" => mv.pg \in Nat
        BY MoveFacts DEF MoveAcc
      <4>. QED
        BY <2>1, <4>1 DEF GcDstFull, DstFull, GcSrcDone, Collected, UnderWay
    <3>. QED
      BY <3>1, MigQuiet
  <2>2. CASE GcNewSrc
    BY <2>2 DEF GcNewSrc
  <2>3. CASE GcWaitOpen \/ GcResume \/ GcOpened \/ GcWaitReq \/ GcErsDstDone \/ GcMoveWait
    BY <2>3 DEF GcWaitOpen, GcResume, GcOpened, GcWaitReq, GcErsDstDone, GcMoveWait, gcVars
  <2>. QED
    BY <2>1, <2>2, <2>3
<1>. QED
  BY <1>1, <1>2, <1>3, <1>4, CalmQuiet, GcCalm

LEMMA GcEraseDev ==
  ASSUME MapInv, RestInv, AllocInv, DevInv, GcOnly, dict' = dict, GcGetDst \/ GcErsDst
  PROVE  DevInv'
<1>1. \E t, P : Calm(t, P)
  <2>1. CASE GcGetDst
    BY <2>1, CalmErase, StreamsDiffer DEF GcGetDst
  <2>2. CASE GcErsDst
    BY <2>2, CalmErbGoes, StreamsDiffer DEF GcErsDst
  <2>. QED
    BY <2>1, <2>2
<1>2. UNCHANGED <<map, mt, mv>> /\ gcSt # "Move" /\ gcSt' # "Move" /\ mv.swl \in Nat
  BY DEF GcGetDst, GcErsDst, otherThanGc, DevInv, SrcInv
<1>. QED
  BY <1>1, <1>2, GcCalm

LEMMA GcTakesDev ==
  ASSUME MapInv, RestInv, AllocInv, DevInv, GcOnly, dict' = dict, GcPgmDone \/ GcReadDropped
  PROVE  DevInv'
<1>1. \E t, P : Calm(t, P)
  BY CalmPop, KeysDiffer DEF GcPgmDone, GcReadDropped, Moving, RestInv
<1>2. UNCHANGED <<map, mt, gcSt>> /\ mv'.src = mv.src /\ mv'.swl = mv.swl /\ mv.swl \in Nat
  BY DEF GcPgmDone, GcReadDropped, otherThanGc, DevInv, SrcInv, RestInv, MigInv, IsMv, MvFields
<1>. QED
  BY <1>1, <1>2, GcCalm

\* A block that is not open, and not free, is left alone by what is queued.
LEMMA VictimQuiet ==
  ASSUME RestInv, AllocInv, FlashInv, NEW b \in UBlk, bst[b] = "Victim", NEW w
  PROVE  PageAt(VAddr(b, w)) = die[b][w] /\ \A c \in Elems(nq) : ~Touches(c, VAddr(b, w))
<1>1. ASSUME NEW c \in Elems(nq), Touches(c, VAddr(b, w))
      PROVE  FALSE
  <2>1. c.blk = b /\ (c.op = "PGM" \/ c.op = "ERB")
    BY <1>1 DEF Touches, VAddr
  <2>2. c.op # "PGM"
    BY <2>1, PgmOpen
  <2>3. c.op # "ERB"
    <3>1. c.cb \in CbKey /\ c \in Under[c.cb]
      BY QueuedIsUnder DEF RestInv
    <3>2. c.op = "ERB" => c \in Erbs(c.cb)
      BY <3>1 DEF Erbs
    <3>. QED
      BY <2>1, <3>1, <3>2, ErbIs, BlksDiffer
  <2>. QED
    BY <2>1, <2>2, <2>3
<1>2. PICK a : a = VAddr(b, w)
  OBVIOUS
<1>3. PageAt(a) = die[a.blk][a.wl]
  BY <1>1, <1>2, PageQuiet
<1>. QED
  BY <1>1, <1>2, <1>3 DEF VAddr

LEMMA GcReadNextDev ==
  ASSUME MapInv, RestInv, AllocInv, DevInv, GcOnly, dict' = dict, GcReadNext
  PROVE  DevInv'
<1>0. IoTypes /\ IsMv(mv) /\ PendInv /\ SrcInv /\ ErbPages /\ MapSound /\ QueuedReads /\ DoneReads
  BY DEF RestInv, MigInv, DevInv
<1>1. gcSt = "Move" /\ mv.src # NoBlk /\ mv.swl < NUM_WL
  BY DEF GcReadNext, Collected
<1>2. PICK b, w : b = mv.src /\ w = mv.swl
  OBVIOUS
<1>3. b \in UBlk /\ w \in WL
  BY <1>0, <1>1, <1>2, SizeAssumption DEF AllocInv, OpenInv, SrcInv, WL
<1>4. PICK c : c = ReadCmd("Mig", b, w)
  OBVIOUS
<1>5. GoodCmd(c) /\ c.cb = "Mig" /\ c.op = "READ" /\ c.blk = b /\ c.wl = w
  BY <1>4, PlainCmds, KeysDiffer DEF ReadCmd, Cmd
<1>6. Issue(<<c>>) /\ UNCHANGED <<die, done>> /\ UNCHANGED <<map, mt, gcSt>>
  BY <1>2, <1>4 DEF GcReadNext, otherThanGc
<1>7. Turns(<<c>>, {}) /\ Elems(<<c>>) = {c}
  BY <1>0, <1>5, <1>6, IssueTurn, OneFacts
<1>8. mv'.src = mv.src /\ mv'.swl = mv.swl + 1 /\ mv'.swl \in Nat
  BY <1>0 DEF GcReadNext, IsMv, MvFields, SrcInv
<1>9. Spares(<<c>>)
  BY <1>5, <1>7 DEF Spares, Touches
<1>10. MapSound'
  <2>1. VerStays /\ (Loaded' => Loaded)
    BY <1>6 DEF VerStays, Ver, Held, Loaded, GcOnly, reqVars, hostVars
  <2>. QED
    BY <1>0, <1>6, <1>7, <1>9, <2>1, MapTurn
<1>11. SrcInv'
  <2>1. /\ Under'["Mig"] \subseteq Under["Mig"] \cup {x \in Elems(<<c>>) : x.cb = "Mig"}
        /\ Elems(done'["Mig"]) \subseteq Elems(done["Mig"]) /\ die' = die
    BY <1>0, <1>7, TurnUnder, KeysDiffer
  <2>2. \A x \in Under'["Mig"] : x \in Under["Mig"] \/ x = c
    BY <1>7, <2>1
  <2>. QED
    BY <1>0, <1>1, <1>2, <1>3, <1>5, <1>6, <1>8, <2>1, <2>2 DEF SrcInv
<1>12. ErbPages'
  BY <1>0, <1>5, <1>7, ErbTurn
<1>13. PendInv'
  <2>1. Elems(reqQ') \subseteq Elems(reqQ) /\ (reqSt' = "Run" => req' = pend) /\ UNCHANGED <<pend, dict, pwr>>
    BY <1>0 DEF PendInv, GcOnly, reqVars, hostVars
  <2>2. \A x \in Elems(<<c>>) : x.cb # "User"
    BY <1>5, <1>7, KeysDiffer
  <2>. QED
    BY <1>0, <1>7, <2>1, <2>2, PendTurn
<1>14. QueuedReads' /\ DoneReads'
  <2>1. UNCHANGED <<pend, dict>>
    BY DEF GcOnly, hostVars
  <2>2. MovedOn(<<c>>)
    BY <1>6, <2>1 DEF MovedOn
  <2>3. SrcStays
    BY <1>6, <1>8 DEF SrcStays
  <2>4. \A x \in Elems(<<c>>) : ~(x.cb = "User" /\ x.op = "READ")
    BY <1>5, <1>7, KeysDiffer
  <2>. QED
    BY <1>0, <1>7, <1>9, <2>1, <2>2, <2>3, <2>4, QueuedTurn, DoneTurnReads
<1>. QED
  BY <1>10, <1>11, <1>12, <1>13, <1>14 DEF DevInv

\* GC moves the last page written: the one the map leads to.
LEMMA GcReadMovedDev ==
  ASSUME MapInv, RestInv, AllocInv, FlashInv, DevInv, GcOnly, dict' = dict, GcReadMoved
  PROVE  DevInv'
<1>0. IoTypes /\ IsMv(mv) /\ PendInv /\ SrcInv /\ ErbPages /\ MapSound /\ QueuedReads /\ DoneReads
      /\ Loaded /\ gcSt = "Move" /\ gcSt' = "Move" /\ mv.dst \in UBlk /\ mv.dwl \in Nat /\ HasDone("Mig")
  BY NotOpening DEF RestInv, MigInv, DevInv, GcReadMoved, Moving, MapInv
<1>1. PICK c0 : c0 = DoneHead("Mig")
  OBVIOUS
<1>2. c0 \in Under["Mig"] /\ c0 \in Elems(done["Mig"]) /\ c0.op = "READ"
      /\ c0.blk = mv.src /\ mv.src \in UBlk /\ c0.wl \in WL /\ c0.pg = die[c0.blk][c0.wl]
  <2>1. c0 \in Under["Mig"] /\ c0.op = "READ"
    BY <1>0, <1>1, HeadUnder, KeysDiffer DEF GcReadMoved
  <2>2. c0 \in Elems(done["Mig"])
    <3>1. IsSeq(done["Mig"]) /\ done["Mig"] # <<>>
      BY <1>0, KeysDiffer DEF IoTypes, GoodCmds, HasDone
    <3>. QED
      BY <1>1, <3>1, TailFacts DEF DoneHead
  <2>. QED
    BY <1>0, <2>1, <2>2 DEF SrcInv
<1>3. PICK l, pg, w0 : l = c0.pg.lpn /\ pg = c0.pg /\ w0 = c0.wl
  OBVIOUS
<1>4. l \in LPN /\ map[l] = VAddr(mv.src, w0) /\ mv.dwl < NUM_WL
  <2>1. StillValid(c0)
    BY <1>1 DEF GcReadMoved
  <2>2. VAddr(mv.src, w0) # FF32
    BY <1>2, SizeAssumption DEF VAddr, FF32, UBlk
  <2>. QED
    BY <1>3, <2>1, <2>2 DEF StillValid, META_GetMap
<1>5. Sound(l) /\ Holds(l, mv.src, w0) /\ Ver(l) # 0
  <2>1. Sound(l)
    BY <1>0, <1>4 DEF MapSound
  <2>2. map[l] # FF32
    BY <1>2, <1>4, SizeAssumption DEF VAddr, FF32, UBlk
  <2>3. PICK b \in UBlk, w \in WL : Holds(l, b, w)
    BY <2>1, <2>2 DEF Sound
  <2>4. b = mv.src /\ w = w0
    BY <1>4, <2>3 DEF Holds, VAddr
  <2>. QED
    BY <2>1, <2>2, <2>3, <2>4 DEF Sound
<1>6. pg = DataPage(l, Ver(l))
  <2>1. bst[mv.src] = "Victim"
    BY <1>0, <1>2, NoBlkIs DEF AllocInv, OpenInv
  <2>. QED
    BY <1>2, <1>3, <1>5, <2>1, VictimQuiet DEF Holds
<1>7. PICK b, w : b = mv.dst /\ w = mv.dwl
  OBVIOUS
<1>8. b \in UBlk /\ w \in WL
  BY <1>0, <1>4, <1>7, SizeAssumption DEF WL
<1>9. PICK c : c = PgmCmd("Mig", b, w, pg)
  OBVIOUS
<1>10. GoodCmd(c) /\ c.cb = "Mig" /\ c.op = "PGM" /\ c.blk = b /\ c.wl = w /\ c.pg = pg
  <2>1. c.blk = b /\ c.wl = w /\ c.pg = pg
    BY <1>9 DEF PgmCmd, Cmd
  <2>. QED
    BY <1>8, <1>9, <2>1, UserPgm, KeysDiffer
<1>11. PopDone("Mig") /\ Issue(<<c>>) /\ die' = die /\ UNCHANGED <<mt, gcSt>>
       /\ map' = [map EXCEPT ![l] = VAddr(b, w)]
  <2>1. Issue(<<PgmCmd("Mig", mv.dst, mv.dwl, DoneHead("Mig").pg)>>)
        /\ MetaUpdate(DoneHead("Mig").pg.lpn, VAddr(mv.dst, mv.dwl), "GC")
    BY DEF GcReadMoved
  <2>2. PgmCmd("Mig", mv.dst, mv.dwl, DoneHead("Mig").pg) = c /\ DoneHead("Mig").pg.lpn = l
        /\ VAddr(mv.dst, mv.dwl) = VAddr(b, w)
    BY <1>1, <1>3, <1>7, <1>9
  <2>3. MetaUpdate(l, VAddr(b, w), "GC")
    BY <2>1, <2>2
  <2>. QED
    BY <1>4, <2>1, <2>2, <2>3 DEF GcReadMoved, MetaUpdate
<1>12. Turns(<<c>>, {"Mig"}) /\ Elems(<<c>>) = {c}
  BY <1>0, <1>10, <1>11, PopIssueTurn, OneFacts, KeysDiffer
<1>13. ASSUME NEW x \in Elems(nq), x.op = "PGM", x.blk = b
       PROVE  x.wl # w
  <2>1. GcOpen /\ GcBlk = b
    BY <1>0, <1>7 DEF GcOpen, GcBlk
  <2>2. CASE x.cb = "User"
    BY <2>1, <2>2, <1>13, PgmIs DEF AllocInv, OpenInv
  <2>3. CASE x.cb = "Mig"
    BY <2>3, <1>0, <1>7, <1>13, PgmIs
  <2>4. CASE x.cb = "Meta"
    BY <2>4, <1>8, <1>13, PgmIs, BlksDiffer
  <2>. QED
    BY <2>2, <2>3, <2>4, <1>13, PgmIs
<1>14. ErasedFrom(b, w)
  BY <1>0, <1>7 DEF FlashInv, RoomInv
<1>15. Free(b, w) /\ Spares(<<c>>) /\ PageAt(VAddr(b, w))' = pg
  <2>1. PICK P : P = {"Mig"}
    OBVIOUS
  <2>2. Turns(<<c>>, P)
    BY <1>12, <2>1
  <2>. QED
    BY <1>0, <1>8, <1>10, <2>2, <1>13, <1>14, NextIsFree
<1>16. UNCHANGED <<pend, dict, reqQ, reqSt, req, pwr>> /\ mv'.src = mv.src /\ mv'.swl = mv.swl
  BY <1>0 DEF GcOnly, reqVars, hostVars, GcReadMoved, IsMv, MvFields
<1>17. PICK P : P = {"Mig"}
  OBVIOUS
<1>18. Turns(<<c>>, P)
  BY <1>12, <1>17
<1>19. map'[l] = VAddr(b, w) /\ \A x \in LPN : x # l => map'[x] = map[x]
  BY <1>4, <1>11 DEF MapInv
<1>20. \A x \in LPN : Ver(x)' = Ver(x)
  BY <1>16 DEF Ver, Held
<1>21. MapSound'
  <2>1. Holds(l, b, w)'
    BY <1>4, <1>6, <1>15, <1>19, <1>20 DEF Holds
  <2>2. Sound(l)'
    BY <1>4, <1>5, <1>8, <1>20, <2>1 DEF Sound
  <2>3. ASSUME NEW x \in LPN, x # l
        PROVE  Sound(x)'
    <3>1. Sound(x) /\ map'[x] = map[x] /\ Ver(x)' = Ver(x)
      BY <1>0, <1>19, <1>20, <2>3 DEF MapSound
    <3>. QED
      BY <1>0, <1>18, <1>15, <3>1, SoundTurn
  <2>. QED
    BY <2>2, <2>3 DEF MapSound
<1>22. ErbPages' /\ SrcInv'
  <2>1. ErbPages'
    BY <1>0, <1>10, <1>12, <1>18, ErbTurn
  <2>2. mv'.swl \in Nat /\ (gcSt' = "Move" => gcSt = "Move" /\ mv'.src = mv.src)
        /\ \A x \in Elems(<<c>>) : x.cb = "Mig" => x.op # "READ"
    BY <1>0, <1>10, <1>12, <1>16 DEF SrcInv
  <2>. QED
    BY <1>0, <1>18, <2>1, <2>2, SrcTurn
<1>23. PendInv'
  <2>1. Elems(reqQ') \subseteq Elems(reqQ) /\ (reqSt' = "Run" => req' = pend)
    BY <1>0, <1>16 DEF PendInv
  <2>2. \A x \in Elems(<<c>>) : x.cb # "User"
    BY <1>10, <1>12, KeysDiffer
  <2>. QED
    BY <1>0, <1>16, <1>18, <2>1, <2>2, PendTurn
<1>24. QueuedReads' /\ DoneReads'
  <2>1. SrcStays
    BY <1>0, <1>16 DEF SrcStays
  <2>2. MovedOn(<<c>>)
    <3>1. ASSUME NEW x \in UBlk, NEW y \in WL, map[pend.lpn] = VAddr(x, y), map'[pend.lpn] # VAddr(x, y)
          PROVE  mv.src = x
      <4>1. pend.lpn = l
        <5>1. map' = [map EXCEPT ![l] = VAddr(b, w)] /\ map = [z \in LPN |-> map[z]]
          BY <1>11 DEF MapInv
        <5>2. map'[pend.lpn] # map[pend.lpn]
          BY <3>1
        <5>. QED
          BY <5>1, <5>2
      <4>. QED
        BY <1>4, <3>1, <4>1 DEF VAddr
    <3>. QED
      BY <1>0, <1>10, <1>12, <1>16, <3>1 DEF MovedOn
  <2>3. \A x \in Elems(<<c>>) : ~(x.cb = "User" /\ x.op = "READ")
    BY <1>10, <1>12, KeysDiffer
  <2>. QED
    BY <1>0, <1>15, <1>16, <1>18, <2>1, <2>2, <2>3, QueuedTurn, DoneTurnReads
<1>. QED
  BY <1>21, <1>22, <1>23, <1>24 DEF DevInv

LEMMA GcStopDev ==
  ASSUME MapInv, RestInv, AllocInv, DevInv, GcOnly, dict' = dict, GcStop
  PROVE  DevInv'
<1>0. IoTypes /\ PendInv /\ SrcInv /\ ErbPages /\ MapSound /\ QueuedReads /\ DoneReads /\ "Mig" \in CbKey
  BY KeysDiffer DEF RestInv, DevInv
<1>1. done' = [done EXCEPT !["Mig"] = <<>>] /\ UNCHANGED <<die, nq, map, mt, gcSt, mv>> /\ gcSt = "Stop"
  BY DEF GcStop, otherThanGc, gcVars
<1>2. UNCHANGED <<pend, dict, reqQ, reqSt, req, pwr>>
  BY DEF GcOnly, reqVars, hostVars
<1>3. done'["User"] = done["User"] /\ Under'["User"] = Under["User"]
  <2>1. done'["User"] = done["User"]
    BY <1>0, <1>1, KeysDiffer DEF IoTypes
  <2>. QED
    BY <1>1, <2>1, KeysDiffer DEF Under
<1>4. PendInv'
  BY <1>0, <1>2, <1>3 DEF PendInv, IsPend
<1>5. ErbPages' /\ SrcInv'
  BY <1>0, <1>1 DEF ErbPages, SrcInv
<1>6. \A b, w : PageAt(VAddr(b, w))' = PageAt(VAddr(b, w))
  BY <1>1 DEF PageAt, Touches
<1>7. \A x \in LPN : Ver(x)' = Ver(x)
  BY <1>2 DEF Ver, Held
<1>8. MapSound'
  BY <1>0, <1>1, <1>6, <1>7 DEF MapSound, Sound, Holds, Loaded
<1>9. QueuedReads' /\ DoneReads'
  BY <1>0, <1>1, <1>2, <1>3, <1>6 DEF QueuedReads, DoneReads, Awaits, Touches
<1>. QED
  BY <1>4, <1>5, <1>8, <1>9 DEF DevInv

LEMMA GcDev ==
  ASSUME MapInv, RestInv, AllocInv, FlashInv, DevInv, GcOnly, dict' = dict, GC_Run
  PROVE  DevInv'
  BY GcQuietDev, GcEraseDev, GcTakesDev, GcReadNextDev, GcReadMovedDev, GcStopDev DEF GC_Run, GcMove

-----------------------------------------------------------------------------
(* The device, META and the host.                                          *)

\* A completed command is the one that was queued.
LEMMA AnswerKeeps ==
  ASSUME RestInv, NandDone, NEW c, c = Head(nq)
  PROVE  /\ c.cb \in CbKey /\ c \in Under[c.cb] /\ GoodCmd(c)
         /\ Answered(c).cb = c.cb /\ Answered(c).op = c.op /\ Answered(c).blk = c.blk
         /\ Answered(c).wl = c.wl /\ Answered(c).req = c.req
         /\ \A k \in CbKey : \A d \in Elems(done'[k]) :
              d \in Elems(done[k]) \/ (c.cb = k /\ d = Answered(c))
         /\ \A k \in CbKey : \A d \in Under'[k] :
              d \in Under[k] \/ (c.cb = k /\ d = Answered(c))
<1>0. IoTypes
  BY DEF RestInv
<1>1. /\ c \in Elems(nq) /\ c.op \in Ops /\ c.cb \in CbKey /\ Elems(nq) = {c} \cup Elems(nq')
      /\ \A k \in CbKey \ {c.cb} : done'[k] = done[k]
      /\ Elems(done'[c.cb]) = Elems(done[c.cb]) \cup {Answered(c)}
  BY <1>0, NandDoes
<1>2. c \in Under[c.cb] /\ GoodCmd(c)
  BY <1>0, <1>1, QueuedIsUnder
<1>3. /\ Answered(c).cb = c.cb /\ Answered(c).op = c.op /\ Answered(c).blk = c.blk
      /\ Answered(c).wl = c.wl
  BY <1>0, <1>2, AnsweredIsGood
<1>4. Answered(c).req = c.req
  BY <1>2 DEF Answered, GoodCmd
<1>5. \A k \in CbKey : \A d \in Elems(done'[k]) : d \in Elems(done[k]) \/ (c.cb = k /\ d = Answered(c))
  BY <1>1
<1>6. \A k \in CbKey : \A d \in Under'[k] : d \in Under[k] \/ (c.cb = k /\ d = Answered(c))
  <2>1. \A k \in CbKey : Under'[k] = {d \in Elems(nq') : d.cb = k} \cup Elems(done'[k])
    BY DEF Under
  <2>2. \A k \in CbKey : Under[k] = {d \in Elems(nq) : d.cb = k} \cup Elems(done[k])
    BY DEF Under
  <2>. QED
    BY <1>1, <1>5, <2>1, <2>2
<1>. QED
  BY <1>1, <1>2, <1>3, <1>4, <1>5, <1>6

LEMMA NandDev ==
  ASSUME MapInv, RestInv, AllocInv, FlashInv, DevInv, Nand
  PROVE  DevInv'
<1>0. IoTypes /\ PendInv /\ SrcInv /\ ErbPages /\ MapSound /\ QueuedReads /\ DoneReads /\ NandDone
      /\ "User" \in CbKey /\ "Mig" \in CbKey
  BY KeysDiffer DEF RestInv, DevInv, Nand
<1>1. UNCHANGED <<map, mt, gcSt, mv, reqQ, reqSt, req, pend, pwr, dict>>
  BY DEF Nand, mapVars, gcVars, reqVars, hostVars
<1>2. PICK c : c = Head(nq)
  OBVIOUS
<1>3. c \in Elems(nq) /\ Executed(c) /\ Elems(nq) = {c} \cup Elems(nq') /\ IsSeq(nq) /\ nq # <<>>
      /\ nq' = Tail(nq)
  BY <1>0, <1>2, NandDoes
<1>4. \A b \in UBlk, w \in WL : PageAt(VAddr(b, w))' = PageAt(VAddr(b, w))
  BY <1>0, PageNand, BlksAre
<1>5. ErbPages'
  BY <1>0, <1>3 DEF ErbPages
<1>6. PendInv'
  <2>1. \A d \in Under'["User"] : \E x \in Under["User"] : d.op = x.op /\ d.req = x.req
    BY <1>0, <1>2, AnswerKeeps
  <2>. QED
    BY <1>0, <1>1, <2>1 DEF PendInv, IsPend
<1>7. MapSound'
  <2>1. \A x \in LPN : Ver(x)' = Ver(x)
    BY <1>1 DEF Ver, Held
  <2>2. \A l \in LPN, b \in UBlk, w \in WL : Holds(l, b, w) => Holds(l, b, w)'
    BY <1>1, <1>4, <2>1 DEF Holds
  <2>. QED
    BY <1>0, <1>1, <2>1, <2>2 DEF MapSound, Sound, Loaded
<1>8. SrcInv'
  <2>1. CASE gcSt # "Move"
    BY <1>0, <1>1, <2>1 DEF SrcInv
  <2>2. CASE gcSt = "Move"
    <3>1. \A d \in Under'["Mig"] : \E x \in Under["Mig"] : d.op = x.op /\ d.blk = x.blk /\ d.wl = x.wl
      BY <1>0, <1>2, AnswerKeeps
    <3>2. ASSUME NEW d \in Elems(done'["Mig"]), d.op = "READ"
          PROVE  d.pg = die'[d.blk][d.wl]
      <4>1. CASE d \in Elems(done["Mig"])
        <5>1. d \in Under["Mig"]
          BY <1>0, <4>1, DoneIsUnder
        <5>2. d.blk = mv.src /\ mv.src \in UBlk /\ d.wl \in WL /\ d.pg = die[d.blk][d.wl]
          BY <1>0, <2>2, <3>2, <4>1, <5>1 DEF SrcInv
        <5>3. ~Touches(c, VAddr(d.blk, d.wl))
          <6>1. bst[mv.src] = "Victim"
            BY <2>2, <5>2, NoBlkIs DEF AllocInv, OpenInv
          <6>. QED
            BY <1>3, <5>2, <6>1, VictimQuiet
        <5>4. ~Programs(c, d.blk, d.wl) /\ ~Erases(c, d.blk)
          BY <5>3 DEF Touches, Programs, Erases, VAddr
        <5>. QED
          BY <1>3, <5>2, <5>4, BlksAre DEF Executed
      <4>2. CASE c.cb = "Mig" /\ d = Answered(c)
        <5>1. c.op = "READ" /\ d.blk = c.blk /\ d.wl = c.wl
          BY <1>0, <1>2, <3>2, <4>2, AnswerKeeps
        <5>. QED
          BY <1>0, <1>2, <4>2, <5>1, AnswerIs
      <4>. QED
        BY <1>0, <1>2, <4>1, <4>2, AnswerKeeps
    <3>3. \A d \in Under'["Mig"] : d.op = "READ" => d.blk = mv.src /\ mv.src \in UBlk /\ d.wl \in WL
      BY <1>0, <2>2, <3>1 DEF SrcInv
    <3>. QED
      BY <1>0, <1>1, <3>2, <3>3 DEF SrcInv
  <2>. QED
    BY <2>1, <2>2
<1>9. Len(nq) \in Nat /\ DOMAIN nq = 1 .. Len(nq) /\ DOMAIN nq' = 1 .. Len(nq) - 1
      /\ (\A i \in DOMAIN nq' : nq'[i] = nq[i + 1]) /\ nq[1] = c /\ 1 \in DOMAIN nq
  <2>1. IsSeq(nq') /\ Len(nq') = Len(nq) - 1 /\ 1 \in DOMAIN nq /\ nq[1] = c
    BY <1>2, <1>3, TailAt, TailFacts
  <2>2. \A i \in DOMAIN nq' : nq'[i] = nq[i + 1]
    BY <1>3, TailAt
  <2>. QED
    BY <1>3, <2>1, <2>2, SeqFacts
<1>10. QueuedReads'
  <2> SUFFICES ASSUME NEW i \in DOMAIN nq', nq'[i].cb = "User", nq'[i].op = "READ"
               PROVE  \E b \in UBlk, w \in WL : nq'[i].blk = b /\ nq'[i].wl = w /\ Awaits(i, b, w)'
    BY DEF QueuedReads
  <2>1. i + 1 \in DOMAIN nq /\ nq'[i] = nq[i + 1] /\ i \in Nat
    BY <1>9
  <2>2. PICK b \in UBlk, w \in WL : nq[i + 1].blk = b /\ nq[i + 1].wl = w /\ Awaits(i + 1, b, w)
    BY <1>0, <2>1 DEF QueuedReads
  <2>3. \A j \in DOMAIN nq' : j > i => ~Touches(nq'[j], VAddr(b, w))
    <3>1. \A j \in DOMAIN nq' : j > i => j + 1 \in DOMAIN nq /\ j + 1 > i + 1 /\ nq'[j] = nq[j + 1]
      BY <1>9, <2>1
    <3>. QED
      BY <2>2, <3>1 DEF Awaits
  <2>4. ASSUME NEW j \in DOMAIN nq, j > i + 1
        PROVE  j - 1 \in DOMAIN nq' /\ j - 1 > i /\ nq'[j - 1] = nq[j]
    <3>1. j - 1 \in DOMAIN nq' /\ j - 1 > i /\ j - 1 + 1 = j
      BY <1>9, <2>1, <2>4
    <3>2. nq'[j - 1] = nq[j - 1 + 1]
      BY <1>9, <3>1
    <3>. QED
      BY <3>1, <3>2
  <2>5. \/ map[pend.lpn] = VAddr(b, w)
        \/ /\ gcSt = "Move" /\ mv.src = b
           /\ \E j \in DOMAIN nq' : j > i /\ nq'[j].cb = "Mig" /\ nq'[j].op = "PGM"
    <3>1. \/ map[pend.lpn] = VAddr(b, w)
          \/ /\ gcSt = "Move" /\ mv.src = b
             /\ \E j \in DOMAIN nq : j > i + 1 /\ nq[j].cb = "Mig" /\ nq[j].op = "PGM"
      BY <2>2 DEF Awaits
    <3>. QED
      BY <2>4, <3>1
  <2>6. Awaits(i, b, w)'
    BY <1>1, <1>4, <2>2, <2>3, <2>5 DEF Awaits, Touches
  <2>. QED
    BY <2>1, <2>2, <2>6
<1>11. DoneReads'
  <2> SUFFICES ASSUME NEW d \in Elems(done'["User"]), d.op = "READ"
               PROVE  dict[pend.lpn] # 0 /\ d.pg = DataPage(pend.lpn, dict[pend.lpn])
    BY <1>1 DEF DoneReads
  <2>1. CASE d \in Elems(done["User"])
    BY <1>0, <2>1 DEF DoneReads
  <2>2. CASE c.cb = "User" /\ d = Answered(c)
    <3>1. c.op = "READ"
      BY <1>2, <1>0, <2>2, AnswerKeeps
    <3>2. d.pg = die[c.blk][c.wl]
      BY <1>0, <1>2, <2>2, <3>1, AnswerIs
    <3>3. PICK b \in UBlk, w \in WL : nq[1].blk = b /\ nq[1].wl = w /\ Awaits(1, b, w)
      BY <1>0, <1>9, <2>2, <3>1 DEF QueuedReads
    <3>4. PICK a : a = VAddr(b, w)
      OBVIOUS
    <3>5. ASSUME NEW x \in Elems(nq)
          PROVE  ~Touches(x, a)
      <4>1. PICK j \in DOMAIN nq : x = nq[j]
        BY DEF Elems
      <4>2. CASE j = 1
        BY <1>9, <3>1, <4>1, <4>2 DEF Touches
      <4>3. CASE j # 1
        <5>1. j > 1
          BY <1>9, <4>3
        <5>. QED
          BY <3>3, <3>4, <4>1, <5>1 DEF Awaits
      <4>. QED
        BY <4>2, <4>3
    <3>6. PageAt(a) = die[a.blk][a.wl]
      BY <3>5, PageQuiet
    <3>7. PageAt(VAddr(b, w)) = die[b][w]
      BY <3>4, <3>6 DEF VAddr
    <3>. QED
      BY <1>9, <3>2, <3>3, <3>7 DEF Awaits
  <2>. QED
    BY <1>0, <1>2, <2>1, <2>2, AnswerKeeps
<1>. QED
  BY <1>5, <1>6, <1>7, <1>8, <1>10, <1>11 DEF DevInv

\* META only reads, and writes to its own blocks.
LEMMA MetaTurnDev ==
  ASSUME RestInv, AllocInv, DevInv, MetaOnly, dict' = dict, NEW t, NEW P, Turns(t, P),
         \A c \in Elems(t) : c.cb = "Meta" /\ (c.op = "READ" \/ c.blk \in MBlk)
                             /\ (c.op = "ERB" => c.pg = Erased),
         map' = map \/ Under["User"] = {}, MapSound'
  PROVE  DevInv'
<1>0. IoTypes /\ PendInv /\ SrcInv /\ ErbPages /\ QueuedReads /\ DoneReads
  BY DEF RestInv, DevInv
<1>1. UNCHANGED <<gcSt, mv, reqQ, reqSt, req, pend, pwr>>
  BY DEF MetaOnly, gcVars, reqVars, hostVars
<1>2. "Meta" # "User" /\ "Meta" # "Mig" /\ \A c \in Elems(t) : c.cb # "User" /\ c.cb # "Mig"
  BY KeysDiffer
<1>3. Spares(t)
  BY BlksDiffer DEF Spares, Touches, VAddr
<1>4. ErbPages'
  BY <1>0, ErbTurn
<1>5. SrcInv'
  BY <1>0, <1>1, <1>2, SrcTurn DEF SrcInv
<1>6. PendInv'
  <2>1. Elems(reqQ') \subseteq Elems(reqQ) /\ (reqSt' = "Run" => req' = pend)
    BY <1>0, <1>1 DEF PendInv
  <2>. QED
    BY <1>0, <1>1, <1>2, <2>1, PendTurn
<1>7. QueuedReads' /\ DoneReads'
  <2>1. CASE map' = map
    <3>1. MovedOn(t) /\ SrcStays
      BY <1>1, <2>1 DEF MovedOn, SrcStays
    <3>2. \A c \in Elems(t) : ~(c.cb = "User" /\ c.op = "READ")
      BY <1>2
    <3>. QED
      BY <1>0, <1>1, <1>3, <3>1, <3>2, QueuedTurn, DoneTurnReads
  <2>2. CASE Under["User"] = {}
    <3>1. Under'["User"] \subseteq Under["User"] \cup {c \in Elems(t) : c.cb = "User"}
      BY <1>0, TurnUnder, KeysDiffer
    <3>. QED
      BY <1>2, <2>2, <3>1, NoUserReads
  <2>. QED
    BY <2>1, <2>2
<1>. QED
  BY <1>4, <1>5, <1>6, <1>7 DEF DevInv

LEMMA SaveDev ==
  ASSUME RestInv, AllocInv, DevInv, MetaOnly, dict' = dict, MetaSave
  PROVE  DevInv'
<1>0. IoTypes /\ AddrInv /\ RingAddr /\ MapSound
  BY DEF RestInv, AllocInv, DevInv
<1>1. map' = map /\ Loaded
  BY DEF MetaSave, MetaIdle, MetaSaveStart, MetaSaveWait, MetaSaveErased, MetaSaveDone, mapVars, Loaded
<1>2. VerStays
  BY DEF VerStays, Ver, Held, MetaOnly, reqVars, hostVars
<1>n. Elems(<<>>) = {}
  BY NoneFacts
<1>3. \A c \in {MetaErase, MetaPgm} :
        GoodCmd(c) /\ c.cb = "Meta" /\ c.blk \in MBlk /\ (c.op = "ERB" => c.pg = Erased)
  <2>1. MetaErase.pg = Erased
    BY DEF MetaErase, EraseCmd, Cmd
  <2>. QED
    BY <1>0, <2>1, MetaCmdIs
<1>4. \E t, P : Turns(t, P) /\ \A c \in Elems(t) : c \in {MetaErase, MetaPgm}
  <2>1. CASE MetaIdle \/ MetaSaveWait
    BY <2>1, <1>n, QuietTurns DEF MetaIdle, MetaSaveWait
  <2>2. CASE MetaSaveStart
    <3>1. PICK c \in {MetaErase, MetaPgm} : Issue(<<c>>)
      BY <2>2 DEF MetaSaveStart
    <3>2. UNCHANGED <<die, done>>
      BY <2>2 DEF MetaSaveStart
    <3>3. Turns(<<c>>, {}) /\ Elems(<<c>>) = {c}
      BY <1>0, <1>3, <3>1, <3>2, IssueTurn, OneFacts
    <3>. QED
      BY <3>3
  <2>3. CASE MetaSaveErased
    <3>1. PICK c : c = MetaPgm
      OBVIOUS
    <3>2. HasDone("Meta") /\ PopDone("Meta") /\ Issue(<<c>>) /\ die' = die
      BY <2>3, <3>1 DEF MetaSaveErased
    <3>3. Turns(<<c>>, {"Meta"}) /\ Elems(<<c>>) = {c}
      BY <1>0, <1>3, <3>1, <3>2, PopIssueTurn, OneFacts, KeysDiffer
    <3>. QED
      BY <3>1, <3>3
  <2>4. CASE MetaSaveDone
    <3>1. HasDone("Meta") /\ PopDone("Meta") /\ UNCHANGED <<die, nq>>
      BY <2>4 DEF MetaSaveDone
    <3>2. Turns(<<>>, {"Meta"})
      BY <1>0, <3>1, PopTurn, KeysDiffer
    <3>. QED
      BY <1>n, <3>2
  <2>. QED
    BY <2>1, <2>2, <2>3, <2>4 DEF MetaSave
<1>5. PICK t, P : Turns(t, P) /\ \A c \in Elems(t) : c \in {MetaErase, MetaPgm}
  BY <1>4
<1>6. \A c \in Elems(t) : c.cb = "Meta" /\ c.blk \in MBlk /\ (c.op = "ERB" => c.pg = Erased)
  BY <1>3, <1>5
<1>7. Spares(t)
  BY <1>6, BlksDiffer DEF Spares, Touches, VAddr
<1>8. MapSound'
  BY <1>0, <1>1, <1>2, <1>5, <1>7, MapTurn
<1>. QED
  BY <1>1, <1>5, <1>6, <1>8, MetaTurnDev

LEMMA OpenDev ==
  ASSUME MapInv, RestInv, AllocInv, DevInv, MetaOnly, dict' = dict, MetaOpen, Opening, MapSound'
  PROVE  DevInv'
<1>1. PICK t, P : ReadsOnly(t, P)
  BY OpenTurn
<1>2. Under["User"] = {}
  BY DEF AllocInv, HostInv
<1>3. \A c \in Elems(t) : c.cb = "Meta" /\ (c.op = "READ" \/ c.blk \in MBlk) /\ (c.op = "ERB" => c.pg = Erased)
  BY <1>1 DEF ReadsOnly
<1>. QED
  BY <1>1, <1>2, <1>3, MetaTurnDev DEF ReadsOnly

\* What the host may ask for.
Asks(r) ==
  \/ \E l \in LPN : r = WriteReq(l, dict[l] + 1) /\ dict' = [dict EXCEPT ![l] = @ + 1]
  \/ \E l \in LPN : r = ReadReq(l) /\ dict' = dict
  \/ \E opt \in ShutdownOpt : r = ShutdownReq(opt) /\ dict' = dict

LEMMA HostAsks == Host => \E r : Submit(r) /\ Asks(r)
<1>1. ReadLPNs \subseteq LPN /\ Shutdowns \subseteq ShutdownOpt
  BY HostAssumption
<1>2. ASSUME NEW l \in LPN, HostWrite(l)
      PROVE  \E r : Submit(r) /\ Asks(r)
  BY <1>2 DEF HostWrite, Asks
<1>3. ASSUME NEW l \in ReadLPNs, HostRead(l)
      PROVE  \E r : Submit(r) /\ Asks(r)
  BY <1>1, <1>3 DEF HostRead, Asks
<1>4. ASSUME NEW opt \in Shutdowns, HostShutdown(opt)
      PROVE  \E r : Submit(r) /\ Asks(r)
  BY <1>1, <1>4 DEF HostShutdown, Asks
<1>. QED
  BY <1>2, <1>3, <1>4 DEF Host

\* A write the host asks for is not mapped yet.
LEMMA SubmitVer ==
  ASSUME IoTypes, HostInv, PendInv, NEW r, Submit(r), Asks(r)
  PROVE  VerStays /\ Held' /\ ~Held /\ Elems(reqQ') = {r} /\ Under["User"] = {}
         /\ dict' = [l \in LPN |-> dict'[l]] /\ (\A l \in LPN : dict'[l] \in Nat) /\ IsPend'
<1>1. pend = NoReq /\ pend' = r /\ reqQ' = Append(reqQ, r) /\ reqSt' = reqSt
  BY DEF Submit
<1>2. ~Held /\ Elems(reqQ) = {} /\ Under["User"] = {}
  BY <1>1, OneHeld
<1>3. Elems(reqQ') = {r} /\ reqQ' # <<>>
  <2>1. IsSeq(reqQ)
    BY DEF HostInv
  <2>2. Elems(Append(reqQ, r)) = {r} /\ Len(Append(reqQ, r)) = Len(reqQ) + 1 /\ Len(reqQ) \in Nat
    BY <1>2, <2>1, AppendFacts, SeqFacts
  <2>. QED
    BY <1>1, <2>2
<1>4. Held'
  BY <1>3 DEF Held
<1>5. dict = [x \in LPN |-> dict[x]] /\ \A x \in LPN : Ver(x) = dict[x] /\ dict[x] \in Nat
  BY <1>2 DEF Ver, PendInv
<1>6. \A x \in LPN : Ver(x)' = IF r.cmd = "write" /\ r.lpn = x THEN dict'[x] - 1 ELSE dict'[x]
  BY <1>1, <1>4 DEF Ver
<1>7. CASE r.cmd # "write" /\ dict' = dict
  <2>1. VerStays
    BY <1>5, <1>6, <1>7 DEF VerStays
  <2>2. IsPend'
    BY <1>1, <1>7 DEF Asks, IsPend, WriteReq
  <2>. QED
    BY <1>2, <1>3, <1>4, <1>5, <1>7, <2>1, <2>2
<1>8. CASE \E l \in LPN : r = WriteReq(l, dict[l] + 1) /\ dict' = [dict EXCEPT ![l] = @ + 1]
  <2>1. PICK l \in LPN : r = WriteReq(l, dict[l] + 1) /\ dict' = [dict EXCEPT ![l] = @ + 1]
    BY <1>8
  <2>2. r.cmd = "write" /\ r.lpn = l
    BY <2>1 DEF WriteReq
  <2>3. dict'[l] = dict[l] + 1 /\ \A x \in LPN : x # l => dict'[x] = dict[x]
    BY <1>5, <2>1
  <2>4. VerStays
    BY <1>5, <1>6, <2>2, <2>3 DEF VerStays
  <2>5. dict' = [x \in LPN |-> dict'[x]] /\ \A x \in LPN : dict'[x] \in Nat
    BY <1>5, <2>1, <2>3
  <2>6. dict'[l] # 0 /\ pend' = WriteReq(l, dict'[l])
    BY <1>1, <1>5, <2>1, <2>3
  <2>7. IsPend'
    BY <2>6 DEF IsPend, WriteReq
  <2>. QED
    BY <1>2, <1>3, <1>4, <2>4, <2>5, <2>7
<1>. QED
  BY <1>7, <1>8 DEF Asks, ReadReq, ShutdownReq

LEMMA HostDev ==
  ASSUME RestInv, AllocInv, DevInv, Host
  PROVE  DevInv' /\ VerStays
<1>0. IoTypes /\ HostInv /\ PendInv /\ SrcInv /\ ErbPages /\ MapSound
  BY DEF RestInv, AllocInv, DevInv
<1>1. PICK r : Submit(r) /\ Asks(r)
  BY HostAsks
<1>2. UNCHANGED ioVars /\ UNCHANGED <<map, mt, gcSt, mv, reqSt, req, pwr>> /\ pwr /\ pend' = r
  BY <1>1 DEF Submit, mapVars, gcVars
<1>3. VerStays /\ ~Held /\ Elems(reqQ') = {r} /\ Under["User"] = {}
      /\ dict' = [l \in LPN |-> dict'[l]] /\ (\A l \in LPN : dict'[l] \in Nat) /\ IsPend'
  BY <1>0, <1>1, SubmitVer
<1>4. Under' = Under
  BY <1>0, <1>2, SameIo
<1>5. PendInv'
  BY <1>2, <1>3, <1>4 DEF PendInv, Held
<1>6. QueuedReads' /\ DoneReads'
  BY <1>3, <1>4, NoUserReads
<1>7. mv'.swl \in Nat /\ SrcKept /\ (Loaded' => Loaded)
  BY <1>0, <1>2 DEF SrcInv, SrcKept, Loaded
<1>8. \E t, P : Calm(t, P)
  BY <1>2, CalmQuiet
<1>. QED
  BY <1>0, <1>2, <1>3, <1>5, <1>6, <1>7, <1>8, DevCalm

\* As the power comes on.
LEMMA FreshDev ==
  Fresh /\ dict = [l \in LPN |-> dict[l]] /\ (\A l \in LPN : dict[l] \in Nat) /\ nq = <<>> => DevInv
<1> SUFFICES ASSUME Fresh, dict = [l \in LPN |-> dict[l]], \A l \in LPN : dict[l] \in Nat, nq = <<>>
             PROVE  DevInv
  OBVIOUS
<1>1. IoTypes /\ \A k \in CbKey : Under[k] = {}
  <2>1. IoTypes /\ \A k \in CbKey : NoneOf(k)
    BY DEF Fresh, Rested
  <2>. QED
    BY <2>1, NoUnder DEF NoneOf, Cnts, Ops
<1>2. Elems(nq) = {} /\ Elems(reqQ) = {} /\ \A i \in DOMAIN nq : FALSE
  <2>1. Elems(<<>>) = {}
    BY NoneFacts
  <2>. QED
    BY <2>1 DEF Fresh, Elems
<1>3. PendInv
  BY <1>1, <1>2, KeysDiffer DEF Fresh, Rested, PendInv, IsPend
<1>4. ErbPages /\ QueuedReads
  BY <1>2 DEF ErbPages, QueuedReads
<1>5. DoneReads
  BY <1>1, DoneIsUnder, KeysDiffer DEF DoneReads
<1>6. SrcInv /\ MapSound
  BY DEF Fresh, Rested, SrcInv, MvIdle, MapSound, Loaded
<1>. QED
  BY <1>3, <1>4, <1>5, <1>6 DEF DevInv

LEMMA InitDev == Init => DevInv
<1> SUFFICES ASSUME Init PROVE DevInv
  OBVIOUS
<1>1. Fresh
  BY InitFresh
<1>2. dict = [l \in LPN |-> dict[l]] /\ (\A l \in LPN : dict[l] \in Nat) /\ nq = <<>>
  BY DEF Init, IoInit
<1>. QED
  BY <1>1, <1>2, FreshDev

LEMMA DevInductive ==
  ASSUME MapInv, RestInv, RestInv', AllocInv, AllocInv', FlashInv, DevInv, [Next]_vars,
         Opening /\ Loaded' => MapSound'
  PROVE  DevInv'
<1>1. CASE TaskReq
  BY <1>1, ReqDev DEF TaskReq
<1>2. CASE TaskResp
  BY <1>2, RespDev DEF TaskResp
<1>3. CASE TaskGc
  BY <1>3, GcDev DEF TaskGc, GcOnly
<1>4. CASE TaskMeta
  <2>1. MetaOnly /\ dict' = dict /\ (MetaSave \/ MetaOpen)
    BY <1>4 DEF TaskMeta, MetaOnly
  <2>2. CASE MetaOpen
    <3>1. Opening
      BY <2>2 DEF MetaOpen, MetaInit, BlkScanIssue, BlkScanPop, BlkScanReturn, MetaFormat, BlkScanDone,
         PageScanPop, PageScanReturn, PageScanDone, MtLoadPop, MtLoadReturn, MtLoadDone,
         ScanPop, ScanReturn, GcScanDone, UserScanDone, ScanOver, ScanPhase, Phase, Opening
    <3>2. MapSound'
      BY <3>1 DEF MapSound
    <3>. QED
      BY <2>1, <2>2, <3>1, <3>2, OpenDev
  <2>. QED
    BY <2>1, <2>2, SaveDev
<1>5. CASE SchedRound \/ UNCHANGED vars
  <2>1. UNCHANGED otherThanSched
    BY <1>5 DEF SchedRound, RoundWith, vars, otherThanSched
  <2>. QED
    BY <2>1, QuietDev DEF otherThanSched, mapVars, gcVars, reqVars
<1>6. CASE Nand
  BY <1>6, NandDev
<1>7. CASE Host
  BY <1>7, HostDev
<1>8. CASE PowerCycle
  <2>1. Fresh'
    BY <1>8, PowerCycleFresh
  <2>2. dict' = dict /\ nq' = <<>>
    BY <1>8 DEF PowerCycle
  <2>3. dict' = [l \in LPN |-> dict'[l]] /\ (\A l \in LPN : dict'[l] \in Nat)
    BY <2>2 DEF DevInv, PendInv
  <2>4. (Fresh /\ dict = [l \in LPN |-> dict[l]] /\ (\A l \in LPN : dict[l] \in Nat) /\ nq = <<>> => DevInv)'
    BY FreshDev, PTL
  <2>. QED
    BY <2>1, <2>2, <2>3, <2>4
<1>. QED
  BY <1>1, <1>2, <1>3, <1>4, <1>5, <1>6, <1>7, <1>8 DEF Next, Task

\* While META opens, only META and the host do anything.
LEMMA OpeningStep ==
  ASSUME MapInv, RestInv, AllocInv, [Next]_vars, ~PowerCycle, Opening
  PROVE  /\ mt' = mt \/ (TaskMeta /\ MetaOpen)
         /\ Host \/ (dict' = dict /\ pend' = pend /\ reqQ' = reqQ /\ reqSt' = "WaitOpen")
<1>0. reqSt = "WaitOpen" /\ gcSt = "WaitOpen"
  BY DEF MapInv
<1>1. CASE TaskReq
  <2>1. mt' = mt
    BY <1>1, ReqLeaves DEF TaskReq
  <2>2. ReqWaitOpen
    <3>1. ~(reqSt = "WaitCmd") /\ ~(reqSt = "Run") /\ ~META_Ready
      BY <1>0 DEF Opening, META_Ready
    <3>. QED
      BY <1>1, <3>1 DEF TaskReq, Req_Run, ReqOpened, ReqIdle, Handling
  <2>. QED
    BY <1>0, <1>1, <2>1, <2>2 DEF ReqWaitOpen, TaskReq, reqVars, hostVars
<1>2. CASE TaskResp
  <2>1. mt' = mt
    BY <1>2, ReqLeaves DEF TaskResp
  <2>2. RespWait
    <3>1. ~HasDone("User")
      <4>1. Under["User"] = {} /\ IoTypes
        BY DEF AllocInv, HostInv, RestInv
      <4>. QED
        BY <4>1, HeadUnder, KeysDiffer
    <3>. QED
      BY <1>2, <3>1 DEF TaskResp, ReqResp_Run, RespDone
  <2>. QED
    BY <1>0, <1>2, <2>1, <2>2 DEF RespWait, TaskResp, reqVars, hostVars
<1>3. CASE TaskGc
  BY <1>0, <1>3, GcLeaves DEF TaskGc, reqVars, hostVars
<1>4. CASE TaskMeta
  <2>1. dict' = dict /\ pend' = pend /\ reqQ' = reqQ /\ reqSt' = "WaitOpen"
    BY <1>0, <1>4 DEF TaskMeta, reqVars, hostVars
  <2>2. CASE MetaOpen
    BY <1>4, <2>1, <2>2
  <2>3. CASE MetaSave
    <3>1. mt' = mt
      BY <2>3 DEF MetaSave, MetaIdle, MetaSaveStart, MetaSaveWait, MetaSaveErased, MetaSaveDone, Opening
    <3>. QED
      BY <2>1, <3>1
  <2>. QED
    BY <1>4, <2>2, <2>3 DEF TaskMeta
<1>5. CASE SchedRound \/ UNCHANGED vars
  BY <1>0, <1>5 DEF SchedRound, RoundWith, vars, otherThanSched, reqVars, hostVars
<1>6. CASE Nand
  BY <1>0, <1>6 DEF Nand, reqVars, hostVars
<1>7. CASE Host
  BY <1>7 DEF Host, HostWrite, HostRead, HostShutdown, Submit
<1>. QED
  BY <1>1, <1>2, <1>3, <1>4, <1>5, <1>6, <1>7 DEF Next, Task

\* The start ends with the format or with the scan of the USER stream.
LEMMA OpenEnds ==
  ASSUME MapInv, RestInv, AllocInv, [Next]_vars, Opening, Loaded'
  PROVE  /\ ~PowerCycle /\ dict' = dict /\ pend' = pend /\ reqQ' = reqQ
         /\ mt' = "Ready" /\ gcSt' = "WaitOpen" /\ reqSt' = "WaitOpen"
         /\ UNCHANGED ioVars
         /\ MetaFormat \/ UserScanDone
<1>1. ~PowerCycle
  BY DEF PowerCycle, Loaded
<1>2. mt' # mt
  BY DEF Opening, Loaded
<1>3. TaskMeta /\ MetaOpen
  BY <1>1, <1>2, OpeningStep
<1>4. MetaFormat \/ UserScanDone
  BY <1>3 DEF MetaOpen, MetaInit, BlkScanIssue, BlkScanPop, BlkScanReturn, BlkScanDone,
     PageScanPop, PageScanReturn, PageScanDone, MtLoadPop, MtLoadReturn, MtLoadDone,
     ScanPop, ScanReturn, GcScanDone, Opening, Loaded
<1>5. mt' = "Ready" /\ UNCHANGED ioVars
  BY <1>4 DEF MetaFormat, UserScanDone
<1>6. gcSt' = "WaitOpen" /\ reqSt' = "WaitOpen" /\ dict' = dict /\ pend' = pend /\ reqQ' = reqQ
  BY <1>3 DEF TaskMeta, MapInv, gcVars, reqVars, hostVars
<1>. QED
  BY <1>1, <1>4, <1>5, <1>6

\* What META has loaded is what the host was told of: nothing else is mapped.
LEMMA LoadedSound ==
  /\ LoadsLatest /\ HostInv /\ IoTypes /\ Under["User"] = {}
  /\ mt = "Ready" /\ gcSt = "WaitOpen" /\ reqSt = "WaitOpen"
  => MapSound
<1> SUFFICES ASSUME LoadsLatest, HostInv, IoTypes, Under["User"] = {},
                    mt = "Ready", gcSt = "WaitOpen", reqSt = "WaitOpen",
                    NEW l \in LPN
             PROVE  Sound(l)
  BY DEF MapSound
<1>1. pend # NoReq => Held
  BY OneHeld
<1>2. Ver(l) = Acked(l)
  BY <1>1 DEF Ver, Acked, NoReq
<1>3. CASE Acked(l) = 0
  BY <1>2, <1>3 DEF LoadsLatest, Sound
<1>4. CASE Acked(l) # 0
  <2>1. map[l] \in Addr /\ PageAt(map[l]) = DataPage(l, Acked(l))
    BY <1>4 DEF LoadsLatest
  <2>2. PICK b \in UBlk, w \in WL : map[l] = VAddr(b, w)
    BY <2>1 DEF Addr, VAddr
  <2>3. Holds(l, b, w)
    BY <1>2, <2>1, <2>2 DEF Holds
  <2>. QED
    BY <1>2, <1>4, <2>2, <2>3 DEF Sound
<1>. QED
  BY <1>3, <1>4

LEMMA DevHolds == Spec /\ []ResumeSound /\ []LoadsLatest => []DevInv
<1>1. IInv /\ IInv' /\ AllocInv /\ AllocInv' /\ FlashInv /\ DevInv /\ [Next]_vars /\ LoadsLatest' => DevInv'
  <2> SUFFICES ASSUME IInv, IInv', AllocInv, AllocInv', FlashInv, DevInv, [Next]_vars, LoadsLatest'
               PROVE  DevInv'
    OBVIOUS
  <2>1. MapInv /\ RestInv /\ RestInv' /\ IoTypes /\ HostInv /\ IoTypes' /\ HostInv'
    BY DEF IInv, RestInv, AllocInv
  <2>2. ASSUME Opening, Loaded'
        PROVE  MapSound'
    <3>1. mt' = "Ready" /\ gcSt' = "WaitOpen" /\ reqSt' = "WaitOpen" /\ UNCHANGED ioVars
      BY <2>1, <2>2, OpenEnds
    <3>2. Under'["User"] = {}
      BY <2>1, <2>2, <3>1, SameIo DEF HostInv
    <3>3. (/\ LoadsLatest /\ HostInv /\ IoTypes /\ Under["User"] = {}
           /\ mt = "Ready" /\ gcSt = "WaitOpen" /\ reqSt = "WaitOpen"
           => MapSound)'
      BY LoadedSound, PTL
    <3>. QED
      BY <2>1, <3>1, <3>2, <3>3
  <2>. QED
    BY <2>1, <2>2, DevInductive
<1>. QED
  BY <1>1, InitDev, IInvHolds, AllocHolds, FlashHolds, PTL DEF Spec

\* Before the first power off the start finds an empty device.
FirstDev == cycle = 0 => DevInv /\ (Opening => \A l \in LPN : Ver(l) = 0)

LEMMA FirstDevHolds == Spec => []FirstDev
<1>1. /\ IInv /\ IInv' /\ FirstAlloc /\ FirstAlloc' /\ FirstFlash /\ FirstDev /\ [Next]_vars
      => FirstDev'
  <2> SUFFICES ASSUME IInv, IInv', FirstAlloc, FirstAlloc', FirstFlash, FirstDev, [Next]_vars, cycle' = 0
               PROVE  DevInv' /\ (Opening' => \A l \in LPN : Ver(l)' = 0)
    BY DEF FirstDev
  <2>0. cycle = 0 /\ ~PowerCycle
    <3>1. cycle = 0
      BY FirstCycle DEF FirstAlloc
    <3>. QED
      BY <3>1 DEF PowerCycle
  <2>1. MapInv /\ RestInv /\ RestInv' /\ AllocInv /\ AllocInv' /\ FirstInv /\ FlashInv /\ DevInv
    BY <2>0 DEF IInv, FirstAlloc, FirstFlash, FirstDev
  <2>2. Opening => \A l \in LPN : Ver(l) = 0
    BY <2>0 DEF FirstDev
  <2>3. ASSUME Opening
        PROVE  VerStays
    <3>1. CASE Host
      BY <2>1, <3>1, HostDev
    <3>2. CASE dict' = dict /\ pend' = pend /\ reqQ' = reqQ /\ reqSt' = "WaitOpen"
      BY <2>1, <2>3, <3>2 DEF MapInv, VerStays, Ver, Held
    <3>. QED
      BY <2>0, <2>1, <2>3, <3>1, <3>2, OpeningStep
  <2>4. ASSUME Opening, Loaded'
        PROVE  MapSound'
    <3>1. FirstOpen
      BY <2>0, <2>1, <2>4 DEF FirstInv
    <3>2. MetaFormat
      BY <2>1, <2>4, <3>1, OpenEnds DEF FirstOpen, UserScanDone, ScanOver, ScanPhase, Phase
    <3>3. \A l \in LPN : map'[l] = FF32
      BY <2>1, <3>2 DEF MetaFormat, MapInv, AllUnmapped
    <3>. QED
      BY <2>2, <2>3, <2>4, <3>3 DEF VerStays, MapSound, Sound
  <2>5. Opening' => Opening
    <3>1. CASE ~Opening
      <4>1. ASSUME TaskMeta
            PROVE  mt' \notin {"Init", "Open", "Assert"} \/ mt' = mt
        BY <2>1, <3>1, <4>1 DEF TaskMeta, MetaOpen, MetaInit, BlkScanIssue, BlkScanPop, BlkScanReturn, MetaFormat,
           BlkScanDone, PageScanPop, PageScanReturn, PageScanDone, MtLoadPop, MtLoadReturn, MtLoadDone,
           ScanPop, ScanReturn, GcScanDone, UserScanDone, ScanOver, ScanPhase, Phase, Opening,
           MetaSave, MetaIdle, MetaSaveStart, MetaSaveWait, MetaSaveErased, MetaSaveDone
      <4>2. CASE TaskReq \/ TaskResp
        BY <2>1, <3>1, <4>2, ReqLeaves DEF TaskReq, TaskResp, Opening
      <4>3. CASE TaskGc
        BY <2>1, <3>1, <4>3, GcLeaves DEF TaskGc, Opening
      <4>4. CASE TaskMeta
        BY <3>1, <4>1, <4>4 DEF Opening
      <4>5. CASE SchedRound \/ Nand \/ Host \/ UNCHANGED vars
        BY <3>1, <4>5 DEF SchedRound, RoundWith, otherThanSched, Nand, Host, HostWrite, HostRead,
           HostShutdown, Submit, vars, Opening
      <4>. QED
        BY <2>0, <4>2, <4>3, <4>4, <4>5 DEF Next, Task
    <3>. QED
      BY <3>1
  <2>6. DevInv'
    BY <2>1, <2>4, DevInductive
  <2>. QED
    BY <2>2, <2>3, <2>5, <2>6 DEF VerStays
<1>2. Init => FirstDev
  <2> SUFFICES ASSUME Init PROVE FirstDev
    OBVIOUS
  <2>1. \A l \in LPN : Ver(l) = 0
    BY DEF Init, Ver, NoReq
  <2>. QED
    BY <2>1, InitDev DEF FirstDev
<1>. QED
  BY <1>1, <1>2, IInvHolds, FirstHolds, FirstFlashHolds, PTL DEF Spec

-----------------------------------------------------------------------------
(* The map leads to the last write the host was told of.                   *)

\* The write that is mapped is that write, or the one the host waits for.
LEMMA SoundIsLatest ==
  ASSUME PendInv, NEW l \in LPN, Sound(l)
  PROVE  MapsLatest(l)
<1> SUFFICES ASSUME Acked(l) > 0
             PROVE  /\ map[l] # FF32 /\ PageAt(map[l]).k = "data"
                    /\ PageAt(map[l]).lpn = l /\ PageAt(map[l]).ver >= Acked(l)
  BY DEF MapsLatest
<1>1. dict[l] \in Nat
  BY DEF PendInv
<1>2. Ver(l) >= Acked(l) /\ Ver(l) # 0
  BY <1>1 DEF Ver, Acked
<1>3. PICK b \in UBlk, w \in WL : Holds(l, b, w)
  BY <1>2 DEF Sound
<1>4. map[l] = VAddr(b, w) /\ PageAt(map[l]) = DataPage(l, Ver(l))
  BY <1>3 DEF Holds
<1>5. VAddr(b, w) # FF32
  BY SizeAssumption DEF VAddr, FF32, UBlk
<1>. QED
  BY <1>2, <1>4, <1>5 DEF DataPage

LEMMA DevIsLatest == DevInv => LatestIsMapped
BY SoundIsLatest DEF DevInv, MapSound, LatestIsMapped

(* Through every interleaving of writes, moves, erases and saves, and over *)
(* power cycles, the map of a page leads to the last write the host was    *)
(* told of, if each start loads that map and resumes sound blocks.         *)
THEOREM LatestIsMappedHolds == Spec /\ []ResumeSound /\ []LoadsLatest => []LatestIsMapped
BY DevIsLatest, DevHolds, PTL

(* Up to the first power off no hypothesis is needed: the start finds an   *)
(* empty device.                                                           *)
THEOREM LatestIsMappedFirst == Spec => [](cycle = 0 => LatestIsMapped)
<1>1. FirstDev => (cycle = 0 => LatestIsMapped)
  BY DevIsLatest DEF FirstDev
<1>. QED
  BY <1>1, FirstDevHolds, PTL

-----------------------------------------------------------------------------
(* The FTL implements the device of BlockDev.                              *)

DevVars == <<dict, pend, rsp, pwr>>

LEMMA InitIsDev == Init => Dev!DevInit
BY DEF Init, NoRsp, Dev!DevInit, LPN, Dev!LPN

\* The host asks the device.
LEMMA HostIsDev ==
  ASSUME Host
  PROVE  Dev!DevNext
<1>1. PICK r : Submit(r) /\ Asks(r)
  BY HostAsks
<1>2. Dev!DevSubmit(r)
  BY <1>1 DEF Submit, NoRsp, Dev!DevSubmit
<1>. QED
  BY <1>1, <1>2 DEF Asks, WriteReq, ReadReq, ShutdownReq, Dev!DevWrite, Dev!DevRead, Dev!DevShutdown,
     Dev!DevNext, LPN, Dev!LPN

\* An answer to the request the host waits for is one of the device.
LEMMA RespondIsDev ==
  ASSUME pwr, pend # NoReq, dict' = dict, NEW pg, Respond(pend, pg),
         pg = IF pend.cmd = "read" THEN Dev!Contents(pend.lpn) ELSE Erased
  PROVE  Dev!DevAnswer
  BY DEF Respond, Dev!DevAnswer

\* The answer of REQ_RESP, to a program or a read that has completed.
LEMMA RespDoneIsDev ==
  ASSUME RestInv, AllocInv, DevInv, pwr, RespDone, dict' = dict
  PROVE  Dev!DevAnswer
<1>0. IoTypes /\ HostInv /\ PendInv /\ DoneReads /\ HasDone("User")
  BY DEF RestInv, AllocInv, DevInv, RespDone
<1>1. PICK c : c = DoneHead("User")
  OBVIOUS
<1>2. c \in Under["User"] /\ c \in Elems(done["User"])
  <2>1. GoodCmds(done["User"]) /\ done["User"] # <<>>
    BY <1>0, KeysDiffer DEF IoTypes, HasDone
  <2>2. Head(done["User"]) \in Elems(done["User"])
    BY <2>1, TailFacts DEF GoodCmds
  <2>. QED
    BY <1>0, <1>1, <2>2, HeadUnder, KeysDiffer DEF DoneHead
<1>3. /\ c.req = pend
      /\ (c.op = "PGM" /\ pend.cmd = "write") \/ (c.op = "READ" /\ pend.cmd = "read")
  BY <1>0, <1>2 DEF PendInv
<1>4. pend # NoReq
  BY <1>3 DEF NoReq
<1>5. PICK pg : pg = IF c.op = "READ" THEN c.pg ELSE Erased
  OBVIOUS
<1>6. Respond(pend, pg)
  BY <1>1, <1>3, <1>5 DEF RespDone
<1>7. pg = IF pend.cmd = "read" THEN Dev!Contents(pend.lpn) ELSE Erased
  BY <1>0, <1>2, <1>3, <1>5 DEF DoneReads, Dev!Contents, DataPage
<1>. QED
  BY <1>4, <1>6, <1>7, RespondIsDev

\* A page that is not mapped was never written.
LEMMA UnmappedIsDev ==
  ASSUME MapInv, RestInv, AllocInv, DevInv, NEW r, NEW at, Handling(r, at), ReqReadUnmapped(r, at),
         dict' = dict
  PROVE  Dev!DevAnswer
<1>0. PendInv /\ MapSound /\ Loaded
  BY ReqWorks, NotOpening DEF DevInv
<1>1. r = pend /\ pend # NoReq /\ pwr
  BY <1>0, HandledPend
<1>2. PICK l \in LPN : pend = ReadReq(l)
  BY <1>0, <1>1 DEF PendInv, IsPend, NoReq, WriteReq, ShutdownReq, ReqReadUnmapped
<1>3. pend.lpn = l /\ pend.cmd = "read" /\ map[l] = FF32 /\ Ver(l) = dict[l]
  BY <1>1, <1>2 DEF ReadReq, META_GetMap, ReqReadUnmapped, Ver
<1>4. \A b \in UBlk, w \in WL : VAddr(b, w) # FF32
  BY SizeAssumption DEF VAddr, FF32, UBlk
<1>5. dict[l] = 0
  BY <1>0, <1>3, <1>4 DEF MapSound, Sound, Holds
<1>6. Respond(pend, Erased)
  BY <1>1 DEF ReqReadUnmapped
<1>. QED
  BY <1>1, <1>3, <1>5, <1>6, RespondIsDev DEF Dev!Contents

LEMMA ReqIsDev ==
  ASSUME MapInv, RestInv, AllocInv, DevInv, Req_Run, dict' = dict
  PROVE  Dev!DevAnswer \/ UNCHANGED DevVars
<1>1. CASE ReqWaitOpen \/ ReqOpened \/ ReqIdle
  BY <1>1 DEF ReqWaitOpen, ReqOpened, ReqIdle, hostVars, DevVars
<1>2. ASSUME NEW r, NEW at, Handling(r, at), ReqStep(r, at)
      PROVE  Dev!DevAnswer \/ UNCHANGED DevVars
  <2>1. CASE ReqReadUnmapped(r, at)
    BY <1>2, <2>1, UnmappedIsDev
  <2>2. CASE ShutdownSudden(r, at) \/ ShutdownSaved(r, at)
    <3>1. r = pend /\ pend # NoReq /\ pwr
      BY <1>2, HandledPend DEF DevInv
    <3>2. Respond(pend, Erased) /\ pend.cmd # "read"
      BY <2>2, <3>1 DEF ShutdownSudden, ShutdownSaved
    <3>. QED
      BY <3>1, <3>2, RespondIsDev
  <2>3. CASE ~(ReqReadUnmapped(r, at) \/ ShutdownSudden(r, at) \/ ShutdownSaved(r, at))
    BY <1>2, <2>3 DEF ReqStep, ReqReadMapped, ReqNeedsBlk, ReqErasing, ReqNewBlk, ReqProgram, ReqJnlBusy,
       ShutdownWaitIo, ShutdownSave, ShutdownSaving, hostVars, DevVars
  <2>. QED
    BY <2>1, <2>2, <2>3
<1>. QED
  BY <1>1, <1>2 DEF Req_Run

LEMMA StepIsDev ==
  ASSUME MapInv, RestInv, AllocInv, DevInv, [Next]_vars
  PROVE  [Dev!DevNext]_DevVars
<1>1. CASE TaskReq
  BY <1>1, ReqIsDev DEF TaskReq, Dev!DevNext
<1>2. CASE TaskResp
  BY <1>2, RespDoneIsDev DEF TaskResp, ReqResp_Run, RespWait, hostVars, DevVars, Dev!DevNext
<1>3. CASE TaskGc \/ TaskMeta \/ SchedRound \/ Nand \/ UNCHANGED vars
  BY <1>3 DEF TaskGc, TaskMeta, SchedRound, RoundWith, otherThanSched, Nand, vars, hostVars, DevVars
<1>4. CASE Host
  BY <1>4, HostIsDev
<1>5. CASE PowerCycle
  <2>1. pend' = pend
    BY <1>5 DEF PowerCycle, DevInv, PendInv
  <2>. QED
    BY <1>5, <2>1 DEF PowerCycle, Dev!DevPowerOn, Dev!DevNext
<1>. QED
  BY <1>1, <1>2, <1>3, <1>4, <1>5 DEF Next, Task

(* To its host the FTL is a device that keeps the last write of every      *)
(* page, whatever the host asks for, in whatever order the tasks and the   *)
(* flash get to work on it, and over power cycles, if each start loads the *)
(* map of that and resumes sound blocks (test.cpp:26-48).                  *)
THEOREM ImplementsDevHolds == Spec /\ []ResumeSound /\ []LoadsLatest => ImplementsDev
<1>1. Init => Dev!DevInit
  BY InitIsDev
<1>2. IInv /\ AllocInv /\ DevInv /\ [Next]_vars => [Dev!DevNext]_DevVars
  BY StepIsDev DEF IInv
<1>. QED
  BY <1>1, <1>2, IInvHolds, AllocHolds, DevHolds, PTL DEF Spec, ImplementsDev, Dev!DevSpec, Dev!devVars, DevVars

(* While the power is not switched off no hypothesis is needed.            *)
THEOREM ImplementsDevFirst == Spec /\ [](cycle = 0) => ImplementsDev
<1>1. Init => Dev!DevInit
  BY InitIsDev
<1>2. IInv /\ FirstAlloc /\ FirstDev /\ cycle = 0 /\ [Next]_vars => [Dev!DevNext]_DevVars
  BY StepIsDev DEF IInv, FirstAlloc, FirstDev
<1>. QED
  BY <1>1, <1>2, IInvHolds, FirstHolds, FirstDevHolds, PTL DEF Spec, ImplementsDev, Dev!DevSpec, Dev!devVars, DevVars

-----------------------------------------------------------------------------
(* The journal of an erase is in flash before its block is used.           *)

\* Stream o waits for the save of its erase, and is not GC that was stopped.
WaitsSave(o) == erb[o].step = "WaitMtSave" /\ ~(o = "GC" /\ gcSt = "Stop")

TellsOf(pg, o) ==
  pg.k = "meta" /\ pg.age >= erb[o].age /\ JnlErase(erb[o].blk, o) \in Elems(pg.ent)

\* A page of the ring tells of the erase, and META does not erase it next.
EntryKept(o) ==
  \E x \in MBlk, w \in WL :
    TellsOf(die[x][w], o) /\ (mctx.wl = 0 => x # MtBlk2PBN(mctx.bo))

\* The entry is in the journal that is saved next.
Unsaved(o) ==
  /\ mctx.age = erb[o].age /\ jnl.busy
  /\ JnlErase(erb[o].blk, o) \in Elems(jnl.ent)

\* The save is over, and the task has its turn before META can end another.
JustSaved(o) ==
  /\ mctx.age > erb[o].age
  /\ EntryKept(o)
  /\ TID_META \in run => mt = "Ready"
  /\ TaskOf(o) \notin run => "META" \in evt /\ TID_META \notin run /\ mt = "Ready"

WaitInv(o) ==
  WaitsSave(o) =>
    /\ erb[o].age \in Nat
    /\ TaskOf(o) \in run \/ "META" \in wait[TaskOf(o)]
    /\ Unsaved(o) \/ JustSaved(o)

\* What a save programs is a page of its age, and in flash when it is done.
SavePages ==
  /\ mt = "SaveProgram" => \A c \in Pgms("Meta") : c.pg.k = "meta" /\ c.pg.age = mctx.age
  /\ \A c \in Elems(done["Meta"]) : c.op = "PGM" => die[c.blk][c.wl] = c.pg

ErsInv == SavePages /\ \A o \in OpenType : WaitInv(o)

-----------------------------------------------------------------------------
(* Turns, as the other tasks see them.                                     *)

Passes(t) ==
  /\ \A u \in TaskId \ {t} : (u \in run' <=> u \in run) /\ wait'[u] = wait[u]
  /\ run' \subseteq run
  /\ evt \subseteq evt'

LEMMA StayPasses ==
  ASSUME NEW t, NEW trig, Stay(t, trig)
  PROVE  Passes(t)
  BY DEF Stay, Passes

LEMMA WaitPasses ==
  ASSUME SchedTypeOK, NEW t \in TaskId, NEW w, NEW trig, WaitFor(t, w, trig)
  PROVE  Passes(t) /\ t \notin run' /\ wait'[t] = w
  BY DEF SchedTypeOK, WaitFor, Finish, Passes

LEMMA YieldPasses ==
  ASSUME SchedTypeOK, NEW t \in TaskId, NEW trig, Yield(t, trig)
  PROVE  Passes(t) /\ t \notin run' /\ trig \subseteq evt'
  BY DEF SchedTypeOK, Yield, Finish, Passes

LEMMA FinishPasses ==
  ASSUME SchedTypeOK, NEW t \in TaskId, NEW w, NEW trig, Finish(t, w, TRUE, trig)
  PROVE  Passes(t)
  BY DEF SchedTypeOK, Finish, Passes

LEMMA TasksDiffer ==
  /\ \A o : TaskOf(o) \in TaskId /\ TaskOf(o) # TID_META /\ TaskOf(o) # TID_REQ_RESP
  /\ TaskOf("USER") = TID_REQ /\ TaskOf("GC") = TID_GC /\ TID_REQ # TID_GC
  BY DEF TaskOf, TaskId, NUM_TASK, TID_REQ, TID_REQ_RESP, TID_GC, TID_META

LEMMA ErbStartPasses ==
  ASSUME SchedTypeOK, NEW o, NEW b, NEW trig, ErbStart(o, b, trig)
  PROVE  Passes(TaskOf(o))
  BY WaitPasses, TasksDiffer DEF ErbStart

LEMMA ErbGoesPasses ==
  ASSUME SchedTypeOK, NEW o, ErbGoesOn(o)
  PROVE  Passes(TaskOf(o))
<1>1. CASE ErbErased(o) \/ ErbRetry(o)
  BY <1>1, WaitPasses, TasksDiffer DEF ErbErased, ErbRetry, ErbJournal
<1>2. CASE ErbWait(o)
  BY <1>2, WaitPasses, TasksDiffer DEF ErbWait
<1>. QED
  BY <1>1, <1>2 DEF ErbGoesOn

LEMMA ReqPasses ==
  ASSUME SchedTypeOK, Req_Run
  PROVE  Passes(TID_REQ)
<1>. USE TaskIds
<1>1. CASE ReqWaitOpen \/ ReqIdle
  BY <1>1, WaitPasses DEF ReqWaitOpen, ReqIdle
<1>2. CASE ReqOpened
  BY <1>2, YieldPasses DEF ReqOpened
<1>3. ASSUME NEW r, NEW at, ReqStep(r, at)
      PROVE  Passes(TID_REQ)
  <2>1. CASE ReqReadMapped(r, at) \/ ReqReadUnmapped(r, at)
    BY <2>1, YieldPasses DEF ReqReadMapped, ReqReadUnmapped
  <2>2. CASE ReqNeedsBlk(r, at)
    <3>1. CASE ReqMayTake
      BY <2>2, <3>1, ErbStartPasses, TasksDiffer DEF ReqNeedsBlk
    <3>2. CASE ~ReqMayTake
      BY <2>2, <3>2, WaitPasses DEF ReqNeedsBlk
    <3>. QED
      BY <3>1, <3>2
  <2>3. CASE ReqErasing(r, at)
    BY <2>3, ErbGoesPasses, TasksDiffer DEF ReqErasing
  <2>4. CASE ReqNewBlk(r, at) \/ ReqProgram(r, at)
    BY <2>4, YieldPasses DEF ReqNewBlk, ReqProgram
  <2>5. CASE ReqJnlBusy(r, at)
    BY <2>5, WaitPasses DEF ReqJnlBusy
  <2>6. CASE ShutdownWaitIo(r, at) \/ ShutdownSave(r, at) \/ ShutdownSaving(r, at)
    BY <2>6, WaitPasses DEF ShutdownWaitIo, ShutdownSave, ShutdownSaving
  <2>7. CASE ShutdownSudden(r, at) \/ ShutdownSaved(r, at)
    BY <2>7, YieldPasses DEF ShutdownSudden, ShutdownSaved
  <2>. QED
    BY <1>3, <2>1, <2>2, <2>3, <2>4, <2>5, <2>6, <2>7 DEF ReqStep
<1>. QED
  BY <1>1, <1>2, <1>3 DEF Req_Run

LEMMA GcPasses ==
  ASSUME SchedTypeOK, GC_Run
  PROVE  Passes(TID_GC)
<1>. USE TaskIds
<1>1. CASE GcWaitOpen \/ GcReadNext \/ GcMoveWait \/ GcStop
  BY <1>1, WaitPasses DEF GcWaitOpen, GcReadNext, GcMoveWait, GcStop
<1>2. CASE GcResume \/ GcErsDstDone \/ GcPgmDone \/ GcReadMoved \/ GcReadDropped
  BY <1>2, StayPasses DEF GcResume, GcErsDstDone, GcPgmDone, GcReadMoved, GcReadDropped
<1>3. CASE GcOpened \/ GcDstFull \/ GcSrcDone
  BY <1>3, YieldPasses DEF GcOpened, GcDstFull, GcSrcDone
<1>4. CASE GcWaitReq
  BY <1>4, YieldPasses, WaitPasses DEF GcWaitReq
<1>5. CASE GcGetDst
  BY <1>5, ErbStartPasses, TasksDiffer DEF GcGetDst
<1>6. CASE GcErsDst
  BY <1>6, ErbGoesPasses, TasksDiffer DEF GcErsDst
<1>7. CASE GcNewSrc
  BY <1>7, FinishPasses DEF GcNewSrc
<1>. QED
  BY <1>1, <1>2, <1>3, <1>4, <1>5, <1>6, <1>7 DEF GC_Run, GcMove

LEMMA RespPasses ==
  ASSUME SchedTypeOK, ReqResp_Run
  PROVE  Passes(TID_REQ_RESP)
  BY WaitPasses, YieldPasses, TaskIds DEF ReqResp_Run, RespWait, RespDone

LEMMA SavePasses ==
  ASSUME SchedTypeOK, MetaSave
  PROVE  Passes(TID_META) /\ TID_META \notin run'
<1>. USE TaskIds
<1>1. CASE MetaIdle \/ MetaSaveStart \/ MetaSaveWait \/ MetaSaveErased
  BY <1>1, WaitPasses DEF MetaIdle, MetaSaveStart, MetaSaveWait, MetaSaveErased
<1>2. CASE MetaSaveDone
  BY <1>2, YieldPasses DEF MetaSaveDone
<1>. QED
  BY <1>1, <1>2 DEF MetaSave

-----------------------------------------------------------------------------
(* REQ, REQ_RESP and GC.                                                   *)

LEMMA WritersLeave ==
  ASSUME TaskReq \/ TaskResp \/ TaskGc
  PROVE  UNCHANGED <<die, mctx, mt>>
<1>1. CASE TaskReq
  <2>1. CASE ReqWaitOpen \/ ReqOpened \/ ReqIdle
    BY <2>1 DEF ReqWaitOpen, ReqOpened, ReqIdle, ioVars, otherThanReq
  <2>2. ASSUME NEW r, NEW at, ReqStep(r, at)
        PROVE  UNCHANGED <<die, mctx, mt>>
    <3>1. CASE ReqErasing(r, at)
      BY <3>1 DEF ReqErasing, ErbGoesOn, ErbErased, ErbRetry, ErbWait, ioVars
    <3>2. CASE \/ ReqReadMapped(r, at) \/ ReqReadUnmapped(r, at) \/ ReqNeedsBlk(r, at)
               \/ ReqNewBlk(r, at) \/ ReqProgram(r, at) \/ ReqJnlBusy(r, at)
      BY <3>2 DEF ReqReadMapped, ReqReadUnmapped, ReqNeedsBlk, ReqNewBlk, ReqProgram, ReqJnlBusy,
                  ioVars, otherThanReq
    <3>3. CASE \/ ShutdownWaitIo(r, at) \/ ShutdownSudden(r, at) \/ ShutdownSave(r, at)
               \/ ShutdownSaving(r, at) \/ ShutdownSaved(r, at)
      BY <3>3 DEF ShutdownWaitIo, ShutdownSudden, ShutdownSave, ShutdownSaving, ShutdownSaved,
                  ioVars, otherThanReq
    <3>. QED
      BY <2>2, <3>1, <3>2, <3>3 DEF ReqStep
  <2>. QED
    BY <1>1, <2>1, <2>2 DEF TaskReq, Req_Run
<1>2. CASE TaskResp
  BY <1>2 DEF TaskResp, ReqResp_Run, RespWait, RespDone, ioVars, otherThanReq
<1>3. CASE TaskGc
  <2>1. CASE GcErsDst
    BY <2>1 DEF GcErsDst, ErbGoesOn, ErbErased, ErbRetry, ErbWait, ioVars
  <2>2. CASE \/ GcWaitOpen \/ GcResume \/ GcOpened \/ GcWaitReq \/ GcGetDst \/ GcErsDstDone
             \/ GcPgmDone \/ GcReadMoved \/ GcReadDropped
    BY <2>2 DEF GcWaitOpen, GcResume, GcOpened, GcWaitReq, GcGetDst, GcErsDstDone,
                GcPgmDone, GcReadMoved, GcReadDropped, ioVars, otherThanGc
  <2>3. CASE GcDstFull \/ GcNewSrc \/ GcReadNext \/ GcSrcDone \/ GcMoveWait \/ GcStop
    BY <2>3 DEF GcDstFull, GcNewSrc, GcReadNext, GcSrcDone, GcMoveWait, GcStop,
                ioVars, otherThanGc
  <2>. QED
    BY <1>3, <2>1, <2>2, <2>3 DEF TaskGc, GC_Run, GcMove
<1>. QED
  BY <1>1, <1>2, <1>3

LEMMA WritersKeepPages ==
  ASSUME IoTypes, SavePages, TaskReq \/ TaskResp \/ TaskGc
  PROVE  SavePages'
<1>1. UNCHANGED <<die, mctx, mt>>
  BY WritersLeave
<1>2. Keeps("Meta") /\ done'["Meta"] = done["Meta"]
  BY TaskOthers, OthersKeepMeta DEF Others
<1>. QED
  BY <1>1, <1>2 DEF SavePages, Keeps

\* The turn of another task.
LEMMA OtherKeepsWait ==
  ASSUME NEW o, WaitInv(o), NEW t, Passes(t), TaskOf(o) # t,
         erb'[o] = erb[o], gcSt = "Stop" => gcSt' = "Stop", UNCHANGED <<die, mctx, mt>>,
         jnl' = jnl \/ JnlAccepts
  PROVE  WaitInv(o)'
<1>1. WaitsSave(o)' => WaitsSave(o)
  BY DEF WaitsSave
<1>2. TaskOf(o)' = TaskOf(o) /\ TaskOf(o) \in TaskId
  BY TasksDiffer DEF TaskOf
<1>3. Unsaved(o) => Unsaved(o)'
  BY DEF Unsaved, JnlAccepts
<1>4. EntryKept(o) => EntryKept(o)'
  BY DEF EntryKept, TellsOf
<1>5. JustSaved(o) => JustSaved(o)'
  BY <1>2, <1>4 DEF JustSaved, Passes
<1>. QED
  BY <1>1, <1>2, <1>3, <1>5 DEF WaitInv, Passes

\* The opener of a block journals its erase, or waits for the save.
LEMMA JournalWaits ==
  ASSUME SchedTypeOK, AddrInv, NEW o \in OpenType, NEW trig, ErbJournal(o, trig), mctx' = mctx,
         erb[o].step # "Init"
  PROVE  WaitInv(o)'
<1>1. wait'[TaskOf(o)] = {"META"}
  BY WaitPasses, TasksDiffer DEF ErbJournal
<1>2. CASE ~JnlAccepts
  <2>1. erb' = [erb EXCEPT ![o].step = "WaitJnlAdd"]
    BY <1>2 DEF ErbJournal
  <2>2. erb'[o].step = "WaitJnlAdd"
    BY <2>1 DEF AddrInv, IsErb
  <2>. QED
    BY <2>2 DEF WaitInv, WaitsSave
<1>3. CASE JnlAccepts
  <2>1. /\ jnl' = JnlPlusErase(erb[o].blk, o)
        /\ erb' = [erb EXCEPT ![o].step = "WaitMtSave", ![o].age = mctx.age]
    BY <1>3 DEF ErbJournal
  <2>2. erb'[o] = [step |-> "WaitMtSave", blk |-> erb[o].blk, age |-> mctx.age]
    <3>1. erb = [u \in OpenType |-> erb[u]] /\ IsErb(erb[o])
      BY DEF AddrInv
    <3>. QED
      BY <2>1, <3>1 DEF IsErb
  <2>3. jnl'.busy /\ jnl'.ent = Append(jnl.ent, JnlErase(erb[o].blk, o))
    BY <2>1 DEF JnlPlusErase
  <2>4. JnlErase(erb[o].blk, o) \in Elems(jnl'.ent)
    BY <2>3, AppendFacts DEF AddrInv, GoodEnts
  <2>5. Unsaved(o)'
    BY <2>2, <2>3, <2>4 DEF Unsaved
  <2>6. mctx.age \in Nat
    BY DEF AddrInv, IsCtx
  <2>. QED
    BY <1>1, <2>2, <2>5, <2>6 DEF WaitInv, TaskOf
<1>. QED
  BY <1>2, <1>3

LEMMA OpenerWaits ==
  ASSUME SchedTypeOK, AddrInv, NEW o \in OpenType, WaitInv(o), ErbGoesOn(o), mctx' = mctx,
         gcSt' = gcSt
  PROVE  WaitInv(o)'
<1>1. CASE ErbErased(o) \/ ErbRetry(o)
  BY <1>1, JournalWaits DEF ErbErased, ErbRetry
<1>2. CASE ErbWait(o)
  <2>1. wait'[TaskOf(o)] = {"META"} \/ erb[o].step = "WaitErb"
    BY <1>2, WaitPasses, TasksDiffer DEF ErbWait
  <2>2. UNCHANGED <<jnl, erb>> /\ (erb[o].step = "WaitErb" \/ mctx.age <= erb[o].age)
    BY <1>2 DEF ErbWait, jnlVars
  <2>3. CASE erb[o].step = "WaitErb"
    BY <2>2, <2>3 DEF WaitInv, WaitsSave
  <2>4. CASE erb[o].step # "WaitErb"
    <3>1. WaitsSave(o)' => WaitsSave(o)
      BY <2>2 DEF WaitsSave
    <3>2. mctx.age \in Nat
      BY DEF AddrInv, IsCtx
    <3>3. WaitsSave(o) => Unsaved(o)
      BY <2>2, <2>4, <3>2 DEF WaitInv, JustSaved
    <3>4. Unsaved(o) => Unsaved(o)'
      BY <2>2 DEF Unsaved
    <3>. QED
      BY <2>1, <2>2, <2>4, <3>1, <3>3, <3>4 DEF WaitInv, TaskOf
  <2>. QED
    BY <2>3, <2>4
<1>. QED
  BY <1>1, <1>2 DEF ErbGoesOn

\* A turn that ends with stream o not waiting for a save.
LEMMA NotWaiting == ASSUME NEW o, erb'[o].step # "WaitMtSave" PROVE WaitInv(o)'
  BY DEF WaitInv, WaitsSave

LEMMA ErbGoesOther ==
  ASSUME AddrInv, NEW o \in OpenType, ErbGoesOn(o), NEW u \in OpenType, u # o
  PROVE  erb'[u] = erb[u]
  BY DEF ErbGoesOn, ErbErased, ErbRetry, ErbWait, ErbJournal, AddrInv

\* REQ, as its own stream and that of GC see it.
LEMMA ReqStepErs ==
  ASSUME SchedTypeOK, RestInv, WaitInv("USER"), NEW r, NEW at, Handling(r, at), ReqStep(r, at),
         mctx' = mctx
  PROVE  /\ WaitInv("USER")'
         /\ erb'["GC"] = erb["GC"] /\ (gcSt = "Stop" => gcSt' = "Stop")
<1>0. AddrInv /\ "USER" \in OpenType /\ "GC" \in OpenType /\ "USER" # "GC"
      /\ erb = [o \in OpenType |-> erb[o]]
  BY DEF RestInv, AddrInv, OpenType
<1>1. WaitsSave("USER") => r = req /\ at = "BlkErsWait" /\ r.cmd = "write" /\ UserBlkFull
  BY DEF WaitsSave, RestInv, ErbInv, Handling
<1>2. CASE ReqErasing(r, at)
  BY <1>0, <1>2, OpenerWaits, ErbGoesOther DEF ReqErasing
<1>3. CASE ReqNewBlk(r, at)
  <2>1. erb' = [erb EXCEPT !["USER"] = ErbIdle] /\ gcSt' = gcSt
    BY <1>3 DEF ReqNewBlk, ErbOver
  <2>2. erb'["USER"].step = "Init" /\ erb'["GC"] = erb["GC"]
    BY <1>0, <2>1 DEF ErbIdle
  <2>. QED
    BY <2>1, <2>2, NotWaiting
<1>4. CASE ReqNeedsBlk(r, at)
  <2>0. ~WaitsSave("USER")
    BY <1>1, <1>4 DEF ReqNeedsBlk
  <2>1. CASE ReqMayTake
    <3>1. erb' = [erb EXCEPT !["USER"] = [step |-> "WaitErb", blk |-> Head(pool), age |-> 0]]
          /\ gcSt' = gcSt
      BY <1>4, <2>1 DEF ReqNeedsBlk, ErbStart
    <3>2. erb'["USER"].step = "WaitErb" /\ erb'["GC"] = erb["GC"]
      BY <1>0, <3>1
    <3>. QED
      BY <3>1, <3>2, NotWaiting
  <2>2. CASE ~ReqMayTake
    BY <1>4, <2>0, <2>2 DEF ReqNeedsBlk, WaitInv, WaitsSave
  <2>. QED
    BY <2>1, <2>2
<1>5. ASSUME ~ReqErasing(r, at), ~ReqNewBlk(r, at), ~ReqNeedsBlk(r, at)
      PROVE  erb' = erb /\ (gcSt = "Stop" => gcSt' = "Stop") /\ ~WaitsSave("USER")
  <2>1. CASE ReqReadMapped(r, at) \/ ReqReadUnmapped(r, at) \/ ReqProgram(r, at) \/ ReqJnlBusy(r, at)
    BY <1>1, <2>1 DEF ReqReadMapped, ReqReadUnmapped, ReqProgram, ReqJnlBusy, otherThanReq, gcVars
  <2>2. CASE \/ ShutdownWaitIo(r, at) \/ ShutdownSudden(r, at) \/ ShutdownSave(r, at)
             \/ ShutdownSaving(r, at) \/ ShutdownSaved(r, at)
    BY <1>1, <2>2 DEF ShutdownWaitIo, ShutdownSudden, ShutdownSave, ShutdownSaving, ShutdownSaved,
                      StopGc, otherThanReq, gcVars
  <2>. QED
    BY <1>5, <2>1, <2>2 DEF ReqStep
<1>6. CASE ~ReqErasing(r, at) /\ ~ReqNewBlk(r, at) /\ ~ReqNeedsBlk(r, at)
  BY <1>5, <1>6 DEF WaitInv, WaitsSave
<1>. QED
  BY <1>2, <1>3, <1>4, <1>6

LEMMA ReqErs ==
  ASSUME SchedTypeOK, MapInv, RestInv, AskedInv, ErsInv, TaskReq
  PROVE  \A o \in OpenType : WaitInv(o)'
<1>0. AddrInv /\ "USER" \in OpenType /\ "GC" \in OpenType /\ TID_REQ # TID_GC
      /\ TaskOf("GC") # TID_REQ /\ WaitInv("USER") /\ WaitInv("GC")
  BY TasksDiffer DEF RestInv, OpenType, ErsInv
<1>1. UNCHANGED <<die, mctx, mt>>
  BY WritersLeave
<1>2. Passes(TID_REQ)
  BY ReqPasses DEF TaskReq
<1>3. jnl' = jnl \/ JnlAccepts
  BY TaskJnl DEF TurnOf, JnlStep, JnlKept, JnlFills, ShutdownAsks
<1>4. WaitInv("USER")' /\ erb'["GC"] = erb["GC"] /\ (gcSt = "Stop" => gcSt' = "Stop")
  <2>1. CASE ReqWaitOpen \/ ReqOpened \/ ReqIdle
    <3>1. UNCHANGED gcVars /\ reqSt # "Run"
      BY <2>1 DEF ReqWaitOpen, ReqOpened, ReqIdle, otherThanReq
    <3>2. ~WaitsSave("USER")
      BY <3>1 DEF WaitsSave, RestInv, ErbInv
    <3>. QED
      BY <3>1, <3>2 DEF gcVars, WaitInv, WaitsSave
  <2>2. ASSUME NEW r, NEW at, Handling(r, at), ReqStep(r, at)
        PROVE  WaitInv("USER")' /\ erb'["GC"] = erb["GC"] /\ (gcSt = "Stop" => gcSt' = "Stop")
    BY <1>0, <1>1, <2>2, ReqStepErs
  <2>. QED
    BY <2>1, <2>2 DEF TaskReq, Req_Run
<1>5. WaitInv("GC")'
  BY <1>0, <1>1, <1>2, <1>3, <1>4, OtherKeepsWait
<1>. QED
  BY <1>4, <1>5 DEF OpenType

LEMMA RespErs ==
  ASSUME SchedTypeOK, MapInv, RestInv, AskedInv, ErsInv, TaskResp
  PROVE  \A o \in OpenType : WaitInv(o)'
<1>1. UNCHANGED <<die, mctx, mt>>
  BY WritersLeave
<1>2. Passes(TID_REQ_RESP)
  BY RespPasses DEF TaskResp
<1>3. jnl' = jnl \/ JnlAccepts
  BY TaskJnl DEF TurnOf, JnlStep, JnlKept, JnlFills, ShutdownAsks
<1>4. erb' = erb /\ gcSt' = gcSt
  BY DEF TaskResp, ReqResp_Run, RespWait, RespDone, otherThanReq, gcVars
<1>. QED
  BY <1>1, <1>2, <1>3, <1>4, OtherKeepsWait, TasksDiffer DEF ErsInv

LEMMA GcErs ==
  ASSUME SchedTypeOK, MapInv, RestInv, AskedInv, ErsInv, TaskGc
  PROVE  \A o \in OpenType : WaitInv(o)'
<1>0. AddrInv /\ "USER" \in OpenType /\ "GC" \in OpenType /\ "USER" # "GC"
      /\ TaskOf("USER") # TID_GC /\ WaitInv("USER") /\ WaitInv("GC")
      /\ erb = [o \in OpenType |-> erb[o]]
  BY TasksDiffer DEF RestInv, AddrInv, OpenType, ErsInv
<1>1. UNCHANGED <<die, mctx, mt>>
  BY WritersLeave
<1>2. Passes(TID_GC)
  BY GcPasses DEF TaskGc
<1>3. jnl' = jnl \/ JnlAccepts
  BY TaskJnl DEF TurnOf, JnlStep, JnlKept, JnlFills, ShutdownAsks
<1>4. WaitsSave("GC") => gcSt = "ErsDst"
  BY DEF WaitsSave, RestInv, ErbInv
<1>5. WaitInv("GC")' /\ erb'["USER"] = erb["USER"] /\ (gcSt = "Stop" => gcSt' = "Stop")
  <2>1. CASE GcErsDst
    BY <1>0, <1>1, <2>1, OpenerWaits, ErbGoesOther DEF GcErsDst
  <2>2. CASE GcErsDstDone
    <3>1. erb' = [erb EXCEPT !["GC"] = ErbIdle]
      BY <2>2 DEF GcErsDstDone, ErbOver
    <3>2. erb'["GC"].step = "Init" /\ erb'["USER"] = erb["USER"]
      BY <1>0, <3>1 DEF ErbIdle
    <3>. QED
      BY <2>2, <3>2, NotWaiting DEF GcErsDstDone
  <2>3. CASE GcGetDst
    <3>1. erb' = [erb EXCEPT !["GC"] = [step |-> "WaitErb", blk |-> Head(pool), age |-> 0]]
      BY <2>3 DEF GcGetDst, ErbStart
    <3>2. erb'["GC"].step = "WaitErb" /\ erb'["USER"] = erb["USER"]
      BY <1>0, <3>1
    <3>. QED
      BY <2>3, <3>2, NotWaiting DEF GcGetDst
  <2>4. ASSUME ~GcErsDst, ~GcErsDstDone, ~GcGetDst
        PROVE  erb' = erb /\ gcSt # "ErsDst" /\ (gcSt = "Stop" => gcSt' = "Stop")
    <3>1. CASE GcWaitOpen \/ GcResume \/ GcOpened \/ GcWaitReq \/ GcStop
      BY <3>1 DEF GcWaitOpen, GcResume, GcOpened, GcWaitReq, GcStop, gcVars
    <3>2. CASE GcPgmDone \/ GcReadMoved \/ GcReadDropped
      BY <3>2 DEF GcPgmDone, GcReadMoved, GcReadDropped, Moving
    <3>3. CASE GcDstFull \/ GcNewSrc \/ GcReadNext \/ GcSrcDone \/ GcMoveWait
      BY <3>3 DEF GcDstFull, GcNewSrc, GcReadNext, GcSrcDone, GcMoveWait, Collected, gcVars
    <3>. QED
      BY <2>4, <3>1, <3>2, <3>3 DEF TaskGc, GC_Run, GcMove
  <2>5. CASE ~GcErsDst /\ ~GcErsDstDone /\ ~GcGetDst
    BY <1>4, <2>4, <2>5 DEF WaitInv, WaitsSave
  <2>. QED
    BY <2>1, <2>2, <2>3, <2>5
<1>6. WaitInv("USER")'
  BY <1>0, <1>1, <1>2, <1>3, <1>5, OtherKeepsWait
<1>. QED
  BY <1>5, <1>6 DEF OpenType

-----------------------------------------------------------------------------
(* META.                                                                   *)

LEMMA PagesTurn ==
  ASSUME IoTypes, SavePages, NEW t, NEW P, Turns(t, P),
         mt' = "SaveProgram" => \A c \in Pgms("Meta")' : c.pg.k = "meta" /\ c.pg.age = mctx'.age
  PROVE  SavePages'
<1>1. die' = die /\ Elems(done'["Meta"]) \subseteq Elems(done["Meta"])
  BY TurnUnder, KeysDiffer
<1>. QED
  BY <1>1 DEF SavePages

\* META issues the page, the only one under way.
LEMMA PagesIssue ==
  ASSUME IoTypes, SavePages, Pgms("Meta") = {}, mctx' = mctx, NEW P, Turns(<<MetaPgm>>, P)
  PROVE  SavePages'
<1>1. Elems(<<MetaPgm>>) = {MetaPgm}
  BY OneFacts
<1>2. Pgms("Meta")' \subseteq Pgms("Meta")
                        \cup {c \in Elems(<<MetaPgm>>) : c.cb = "Meta" /\ c.op = "PGM"}
  BY TurnWrites, KeysDiffer
<1>3. Pgms("Meta")' \subseteq {MetaPgm}
  BY <1>1, <1>2
<1>4. MetaPgm.pg.k = "meta" /\ MetaPgm.pg.age = mctx.age
  BY SavedIs DEF SavedPage
<1> HIDE DEF MetaPgm
<1>. QED
  BY <1>3, <1>4, PagesTurn

\* A turn of META that ends no save.
LEMMA MetaKeepsWait ==
  ASSUME NEW o, WaitInv(o), SchedTypeOK, MetaSave, TID_META \in run,
         UNCHANGED <<die, mctx, jnl, erb, gcSt>>, mt = "Ready" \/ mt' = mt \/ mt = "SaveErase"
  PROVE  WaitInv(o)'
<1>1. Passes(TID_META) /\ TID_META \notin run'
  BY SavePasses
<1>2. (WaitsSave(o)' <=> WaitsSave(o)) /\ TaskOf(o)' = TaskOf(o) /\ TaskOf(o) \in TaskId
      /\ TaskOf(o) # TID_META
  BY TasksDiffer DEF WaitsSave, TaskOf
<1>3. Unsaved(o) => Unsaved(o)'
  BY DEF Unsaved
<1>4. EntryKept(o) => EntryKept(o)'
  BY DEF EntryKept, TellsOf
<1>5. JustSaved(o) => JustSaved(o)'
  BY <1>1, <1>2, <1>4 DEF JustSaved, Passes
<1>. QED
  BY <1>1, <1>2, <1>3, <1>5 DEF WaitInv, Passes

\* The two blocks of the ring differ.
LEMMA NextBlkDiffers ==
  ASSUME NUM_META_BLK >= 2, NEW b \in MOff
  PROVE  MtBlk2PBN((b + 1) % NUM_META_BLK) # MtBlk2PBN(b)
<1>1. b \in Nat /\ b < NUM_META_BLK /\ NUM_META_BLK \in Nat /\ NUM_USER_BLK \in Nat
  BY SizeAssumption DEF MOff
<1>2. (b + 1) % NUM_META_BLK \in Nat /\ (b + 1) % NUM_META_BLK # b
  <2>1. CASE b + 1 < NUM_META_BLK
    <3>1. (b + 1) % NUM_META_BLK = b + 1
      BY <1>1, <2>1
    <3>. QED
      BY <1>1, <3>1
  <2>2. CASE b + 1 = NUM_META_BLK
    <3>1. NUM_META_BLK % NUM_META_BLK = 0
      BY <1>1
    <3>. QED
      BY <1>1, <2>2, <3>1
  <2>. QED
    BY <1>1, <2>1, <2>2
<1> DEFINE n == (b + 1) % NUM_META_BLK
<1>3. n \in Nat /\ n # b
  BY <1>2
<1> HIDE DEF n
<1>4. MtBlk2PBN(n) # MtBlk2PBN(b)
  BY <1>1, <1>3 DEF MtBlk2PBN
<1>. QED
  BY <1>4 DEF n

\* The end of a save: the page in flash tells of every erase that waits.
LEMMA SaveDoneWait ==
  ASSUME SchedTypeOK, RestInv, AllocInv, FlashInv, SavedInv, SavePages, NUM_META_BLK >= 2,
         NEW o, WaitInv(o), MetaSaveDone, TID_META \in run, UNCHANGED <<erb, gcSt>>
  PROVE  WaitInv(o)'
<1>0. IoTypes /\ mctx.bo \in MOff /\ mctx.wl \in WL /\ "Meta" \in CbKey
      /\ mt = "SaveProgram" /\ mt' = "Ready" /\ die' = die
      /\ HasDone("Meta") /\ mctx' = NextSave /\ mctx.age \in Nat
  BY KeysDiffer DEF RestInv, AddrInv, IsCtx, AllocInv, RingAddr, FlashInv, RingInv, MetaSaveDone
<1>1. PICK c : c = DoneHead("Meta")
  OBVIOUS
<1>2. c \in Pgms("Meta") /\ c \in Elems(done["Meta"]) /\ c.op = "PGM"
  <2>2. c \in Under["Meta"] /\ c.op \in Ops /\ Cnt["Meta"][c.op] > 0
    BY <1>0, <1>1, HeadUnder
  <2>3. Cnt["Meta"]["READ"] = 0 /\ Cnt["Meta"]["ERB"] = 0
    BY <1>0 DEF RestInv, MetaInv, SaveInv, Cnts
  <2>4. c.op = "PGM"
    BY <2>2, <2>3 DEF Ops
  <2>5. IsSeq(done["Meta"]) /\ done["Meta"] # <<>>
    BY <1>0 DEF IoTypes, GoodCmds, HasDone
  <2>. QED
    BY <1>1, <2>2, <2>4, <2>5, TailFacts DEF DoneHead, Pgms
<1>3. /\ c.blk = MtBlk2PBN(mctx.bo) /\ c.wl = mctx.wl /\ c.blk \in MBlk
      /\ c.pg.k = "meta" /\ c.pg.age = mctx.age /\ c.pg.ent = jnl.ent
      /\ die[c.blk][c.wl] = c.pg
  BY <1>0, <1>2, RingBlk DEF FlashInv, MetaCmds, SavedInv, SavePages
<1>4. mctx'.age = mctx.age + 1 /\ (mctx'.wl = 0 => MtBlk2PBN(mctx'.bo) # c.blk)
  <2>1. mctx'.age = mctx.age + 1
    BY <1>0 DEF NextSave
  <2>2. CASE mctx.wl + 1 >= NUM_WL
    <3>1. mctx'.bo = (mctx.bo + 1) % NUM_META_BLK
      BY <1>0, <2>2 DEF NextSave
    <3>. QED
      BY <1>0, <1>3, <2>1, <3>1, NextBlkDiffers
  <2>3. CASE ~(mctx.wl + 1 >= NUM_WL)
    <3>1. mctx'.wl = mctx.wl + 1
      BY <1>0, <2>3 DEF NextSave
    <3>. QED
      BY <1>0, <2>1, <3>1, SizeAssumption DEF WL
  <2>. QED
    BY <2>2, <2>3
<1>5. Yield(TID_META, {"IO_FREE", "META"})
  BY DEF MetaSaveDone
<1>6. Passes(TID_META) /\ TID_META \notin run' /\ "META" \in evt'
  BY <1>5, YieldPasses, TaskIds
<1>7. (WaitsSave(o)' <=> WaitsSave(o)) /\ TaskOf(o)' = TaskOf(o) /\ TaskOf(o) \in TaskId
      /\ TaskOf(o) # TID_META
  BY TasksDiffer DEF WaitsSave, TaskOf
<1> SUFFICES ASSUME WaitsSave(o)
             PROVE  /\ erb'[o].age \in Nat
                    /\ TaskOf(o) \in run' \/ "META" \in wait'[TaskOf(o)]
                    /\ JustSaved(o)'
  BY <1>7 DEF WaitInv
<1>8. Unsaved(o) /\ erb[o].age \in Nat
  BY <1>0 DEF WaitInv, JustSaved
<1>9. EntryKept(o)'
  <2>1. TellsOf(die[c.blk][c.wl], o)'
    BY <1>0, <1>3, <1>8 DEF TellsOf, Unsaved
  <2>. QED
    BY <1>0, <1>3, <1>4, <2>1 DEF EntryKept
<1>10. JustSaved(o)'
  BY <1>0, <1>4, <1>6, <1>8, <1>9 DEF JustSaved, Unsaved
<1>. QED
  BY <1>6, <1>7, <1>8, <1>10 DEF WaitInv, Passes

LEMMA OpeningWait ==
  ASSUME MapInv, RestInv, Opening, UNCHANGED erb, NEW o \in OpenType
  PROVE  WaitInv(o)'
<1>1. erb[o].step = "Init"
  BY DEF MapInv, RestInv, ErbInv, OpenType
<1>. QED
  BY <1>1, NotWaiting

LEMMA MetaErs ==
  ASSUME SchedTypeOK, MapInv, RestInv, AllocInv, FlashInv, SavedInv, ErsInv, NUM_META_BLK >= 2,
         TaskMeta
  PROVE  ErsInv'
<1>0. IoTypes /\ "Meta" \in CbKey /\ TID_META \in run /\ UNCHANGED <<erb, gcSt>> /\ SavePages
      /\ \A o \in OpenType : WaitInv(o)
  BY KeysDiffer DEF RestInv, TaskMeta, Turn, gcVars, ErsInv
<1>1. CASE MetaIdle \/ MetaSaveWait
  <2>1. UNCHANGED <<ioVars, mctx, mt, jnl>> /\ MetaSave
    BY <1>1 DEF MetaIdle, MetaSaveWait, jnlVars, MetaSave
  <2>2. SavePages'
    <3>1. Keeps("Meta")
      BY <1>0, <2>1, QuietKeeps
    <3>. QED
      BY <1>0, <2>1, <3>1 DEF SavePages, Keeps, ioVars
  <2>. QED
    BY <1>0, <2>1, <2>2, MetaKeepsWait DEF ErsInv, ioVars
<1>2. CASE MetaSaveStart
  <2>1. mt = "Ready" /\ UNCHANGED <<die, done, mctx, jnl>> /\ MetaSave
    BY <1>2 DEF MetaSaveStart, MetaSave
  <2>2. SavePages'
    <3>1. CASE MetaNeedsErase
      BY <1>0, <1>2, <2>1, <3>1 DEF MetaSaveStart, SavePages
    <3>2. CASE ~MetaNeedsErase
      <4>1. Issue(<<MetaPgm>>)
        BY <1>2, <3>2 DEF MetaSaveStart
      <4>2. Pgms("Meta") = {}
        BY <2>1, NoneOfMeta
      <4>3. Turns(<<MetaPgm>>, {})
        BY <1>0, <2>1, <4>1, SavedPageGood, IssueTurn DEF RestInv
      <4>. QED
        BY <1>0, <2>1, <4>2, <4>3, PagesIssue
    <3>. QED
      BY <3>1, <3>2
  <2>. QED
    BY <1>0, <2>1, <2>2, MetaKeepsWait DEF ErsInv
<1>3. CASE MetaSaveErased
  <2>1. mt = "SaveErase" /\ UNCHANGED <<die, mctx, jnl>> /\ MetaSave
        /\ Issue(<<MetaPgm>>) /\ HasDone("Meta") /\ PopDone("Meta")
    BY <1>3 DEF MetaSaveErased, MetaSave, jnlVars
  <2>2. SavePages'
    <3>1. Pgms("Meta") = {}
      BY <2>1, NoneOfMeta
    <3>2. Turns(<<MetaPgm>>, {"Meta"})
      BY <1>0, <2>1, SavedPageGood, PopIssueTurn DEF RestInv
    <3>. QED
      BY <1>0, <2>1, <3>1, <3>2, PagesIssue
  <2>. QED
    BY <1>0, <2>1, <2>2, MetaKeepsWait DEF ErsInv
<1>4. CASE MetaSaveDone
  <2>1. SavePages'
    <3>1. Turns(<<>>, {"Meta"}) /\ mt' = "Ready"
      BY <1>0, <1>4, PopTurn DEF MetaSaveDone
    <3>. QED
      BY <1>0, <3>1, PagesTurn
  <2>. QED
    BY <1>0, <1>4, <2>1, SaveDoneWait DEF ErsInv
<1>5. CASE MetaOpen
  <2>1. Opening /\ mt' # "SaveProgram"
    BY <1>5 DEF Opening, MetaOpen, MetaInit, BlkScanIssue, BlkScanPop, BlkScanReturn,
       MetaFormat, BlkScanDone, PageScanPop, PageScanReturn, PageScanDone, MtLoadPop,
       MtLoadReturn, MtLoadDone, ScanPop, ScanReturn, GcScanDone, ScanOver, UserScanDone,
       Phase, ScanPhase
  <2>2. PICK t, P : Turns(t, P)
    BY <1>5, OpenTurn DEF ReadsOnly
  <2>3. SavePages'
    BY <1>0, <2>1, <2>2, PagesTurn
  <2>. QED
    BY <1>0, <2>1, <2>3, OpeningWait DEF ErsInv
<1>. QED
  BY <1>1, <1>2, <1>3, <1>4, <1>5 DEF TaskMeta, MetaSave

-----------------------------------------------------------------------------
(* The device, the scheduler, the host and the power.                      *)

LEMMA NandPages ==
  ASSUME RestInv, AllocInv, FlashInv, SavePages, NEW c, NandNext(c)
  PROVE  SavePages'
<1>0. /\ IoTypes /\ c \in Elems(nq) /\ c.op \in Ops /\ c.cb \in CbKey /\ Executed(c)
      /\ Elems(done'[c.cb]) = Elems(done[c.cb]) \cup {Answered(c)}
      /\ \A k \in CbKey \ {c.cb} : done'[k] = done[k]
      /\ "Meta" \in CbKey /\ mt' = mt /\ mctx' = mctx
  BY NandDoes, KeysDiffer DEF RestInv, NandNext
<1>1. Keeps("Meta")
  BY <1>0, NandKeepsCmds DEF NandNext
<1>2. ASSUME NEW d \in Elems(done["Meta"]), d.op = "PGM"
      PROVE  die'[d.blk][d.wl] = d.pg
  <2>1. d \in Pgms("Meta") /\ d.cb = "Meta"
    BY <1>0, <1>2, DoneIsUnder DEF Pgms, IoTypes
  <2>2. d.blk \in MBlk /\ d.wl \in WL
    BY <2>1, RingBlk DEF FlashInv, MetaCmds, RingInv, AllocInv, RingAddr
  <2>3. c.op = "READ" \/ c.blk # d.blk
    <3> SUFFICES ASSUME c.op # "READ", c.blk = d.blk PROVE FALSE
      OBVIOUS
    <3>1. c.cb = "Meta"
      BY <1>0, <2>2, RingIsMeta
    <3>. QED
      BY <1>2, <2>1, <3>1, MetaSole
  <2>4. ~Programs(c, d.blk, d.wl) /\ ~Erases(c, d.blk)
    BY <2>3 DEF Programs, Erases
  <2>. QED
    BY <1>0, <1>2, <2>2, <2>4, BlksAre DEF Executed, SavePages
<1>3. ASSUME c.cb = "Meta", c.op = "PGM"
      PROVE  Answered(c) = c /\ die'[c.blk][c.wl] = c.pg
  <2>1. c.blk \in MBlk /\ c.wl \in WL
    BY <1>0, <1>3, PgmIs
  <2>. QED
    BY <1>0, <1>3, <2>1, BlksAre DEF Executed, Programs, Erases, Answered
<1>4. Answered(c).op = c.op
  BY <1>0, NandDoes, AnsweredIsGood DEF NandNext
<1>5. \A d \in Elems(done'["Meta"]) : d.op = "PGM" => die'[d.blk][d.wl] = d.pg
  BY <1>0, <1>2, <1>3, <1>4
<1>. QED
  BY <1>0, <1>1, <1>5 DEF SavePages, Keeps

LEMMA NandKeepsEntry ==
  ASSUME RestInv, AllocInv, FlashInv, NEW c, NandNext(c), NEW o, EntryKept(o)
  PROVE  EntryKept(o)'
<1>0. IoTypes /\ c \in Elems(nq) /\ Executed(c) /\ UNCHANGED <<mctx, erb>>
  BY NandDoes DEF RestInv, NandNext
<1>1. PICK x \in MBlk, w \in WL : TellsOf(die[x][w], o) /\ (mctx.wl = 0 => x # MtBlk2PBN(mctx.bo))
  BY DEF EntryKept
<1>2. ~IsErased(die[x][w])
  BY <1>1 DEF TellsOf, IsErased
<1>3. ~Programs(c, x, w)
  <2> SUFFICES ASSUME Programs(c, x, w) PROVE FALSE
    OBVIOUS
  <2>1. c.op = "PGM" /\ c.blk = x /\ c.wl = w
    BY DEF Programs
  <2>2. c.cb = "Meta"
    BY <1>0, <2>1, RingIsMeta
  <2>3. FilledTo(x, w)
    BY <1>0, <2>1, <2>2 DEF FlashInv, RingInv
  <2>. QED
    BY <1>2, <2>3 DEF FilledTo, WL
<1>4. ~Erases(c, x)
  <2> SUFFICES ASSUME Erases(c, x) PROVE FALSE
    OBVIOUS
  <2>1. c.op = "ERB" /\ c.blk = x
    BY DEF Erases
  <2>2. c \in Erbs("Meta")
    BY <1>0, <2>1, RingIsMeta DEF Pgms
  <2>3. mt = "SaveErase" /\ c.blk = MtBlk2PBN(mctx.bo)
    BY <2>2, MetaOne DEF FlashInv, MetaCmds
  <2>4. mctx.wl = 0
    BY <2>3 DEF FlashInv, RingInv
  <2>. QED
    BY <1>1, <2>1, <2>3, <2>4
<1>5. die'[x][w] = die[x][w]
  BY <1>0, <1>3, <1>4, BlksAre DEF Executed
<1>6. TellsOf(die[x][w], o)'
  BY <1>0, <1>1, <1>5 DEF TellsOf
<1>. QED
  BY <1>0, <1>1, <1>6 DEF EntryKept

LEMMA NandErs ==
  ASSUME RestInv, AllocInv, FlashInv, ErsInv, Nand
  PROVE  ErsInv'
<1>1. PICK c : c = Head(nq)
  OBVIOUS
<1>2. NandNext(c) /\ UNCHANGED <<jnl, run, wait>> /\ evt \subseteq evt'
  BY <1>1 DEF Nand, NandNext, NandDone, TrigAsync, mapVars, jnlVars, openVars, gcVars
<1>3. SavePages'
  BY <1>2, NandPages DEF ErsInv
<1>4. ASSUME NEW o \in OpenType
      PROVE  WaitInv(o)'
  <2>1. (WaitsSave(o)' <=> WaitsSave(o)) /\ TaskOf(o)' = TaskOf(o)
        /\ UNCHANGED <<mctx, mt, erb>>
    BY <1>2 DEF WaitsSave, TaskOf, NandNext
  <2>2. Unsaved(o) => Unsaved(o)'
    BY <1>2, <2>1 DEF Unsaved
  <2>3. EntryKept(o) => EntryKept(o)'
    BY <1>2, NandKeepsEntry
  <2>4. JustSaved(o) => JustSaved(o)'
    BY <1>2, <2>1, <2>3 DEF JustSaved
  <2>. QED
    BY <1>2, <2>1, <2>2, <2>4 DEF WaitInv, ErsInv
<1>. QED
  BY <1>3, <1>4 DEF ErsInv

\* The round after a save runs the task that waits for it.
LEMMA RoundErs ==
  ASSUME RestInv, ErsInv, SchedRound
  PROVE  ErsInv'
<1>1. PICK expired : Round(expired) /\ UNCHANGED otherThanSched
  BY DEF SchedRound, RoundWith
<1>2. UNCHANGED <<ioVars, mctx, mt, jnl, erb, gcSt>> /\ run = {}
  BY <1>1 DEF otherThanSched, jnlVars, gcVars, Round
<1>3. /\ \A t \in TaskId : wait[t] \cap evt # {} => t \in run'
      /\ \A t \in TaskId : t \in run' \/ wait'[t] = wait[t]
  BY <1>1 DEF Round
<1>4. SavePages'
  <2>1. Keeps("Meta")
    BY <1>2, QuietKeeps, KeysDiffer DEF RestInv
  <2>. QED
    BY <1>2, <2>1 DEF ErsInv, SavePages, Keeps, ioVars
<1>5. ASSUME NEW o \in OpenType
      PROVE  WaitInv(o)'
  <2>1. (WaitsSave(o)' <=> WaitsSave(o)) /\ TaskOf(o)' = TaskOf(o) /\ TaskOf(o) \in TaskId
    BY <1>2, TasksDiffer DEF WaitsSave, TaskOf
  <2>2. Unsaved(o) => Unsaved(o)'
    BY <1>2 DEF Unsaved
  <2>3. EntryKept(o) => EntryKept(o)'
    BY <1>2 DEF EntryKept, TellsOf, ioVars
  <2>4. WaitsSave(o) => "META" \in wait[TaskOf(o)]
    BY <1>2 DEF ErsInv, WaitInv
  <2>5. WaitsSave(o) /\ JustSaved(o) => TaskOf(o) \in run' /\ mt = "Ready"
    BY <1>2, <1>3, <2>1, <2>4 DEF JustSaved
  <2>6. WaitsSave(o) /\ JustSaved(o) => JustSaved(o)'
    BY <1>2, <2>1, <2>3, <2>5 DEF JustSaved
  <2>. QED
    BY <1>2, <1>3, <2>1, <2>2, <2>4, <2>6 DEF ErsInv, WaitInv
<1>. QED
  BY <1>4, <1>5 DEF ErsInv

LEMMA QuietErs ==
  ASSUME RestInv, ErsInv, UNCHANGED <<ioVars, mctx, mt, jnl, erb, gcSt, run, wait>>,
         evt \subseteq evt'
  PROVE  ErsInv'
<1>1. SavePages'
  <2>1. Keeps("Meta")
    BY QuietKeeps, KeysDiffer DEF RestInv
  <2>. QED
    BY <2>1 DEF ErsInv, SavePages, Keeps, ioVars
<1>2. ASSUME NEW o \in OpenType
      PROVE  WaitInv(o)'
  <2>1. (WaitsSave(o)' <=> WaitsSave(o)) /\ TaskOf(o)' = TaskOf(o)
    BY DEF WaitsSave, TaskOf
  <2>2. Unsaved(o) => Unsaved(o)'
    BY DEF Unsaved
  <2>3. EntryKept(o) => EntryKept(o)'
    BY DEF EntryKept, TellsOf, ioVars
  <2>4. JustSaved(o) => JustSaved(o)'
    BY <2>1, <2>3 DEF JustSaved
  <2>. QED
    BY <2>1, <2>2, <2>4 DEF ErsInv, WaitInv
<1>. QED
  BY <1>1, <1>2 DEF ErsInv

LEMMA PowerErs ==
  ASSUME ErsInv, PowerCycle
  PROVE  ErsInv'
<1>1. mt' # "SaveProgram" /\ UNCHANGED <<die, done>>
  BY DEF PowerCycle
<1>2. \A o \in OpenType : erb'[o].step = "Init"
  BY DEF PowerCycle, ErbIdle
<1>3. \A o \in OpenType : WaitInv(o)'
  BY <1>2, NotWaiting
<1>. QED
  BY <1>1, <1>3 DEF ErsInv, SavePages

LEMMA ErsInductive ==
  ASSUME SchedTypeOK, MapInv, RestInv, AskedInv, AllocInv, FlashInv, SavedInv, ErsInv,
         NUM_META_BLK >= 2, [Next]_vars
  PROVE  ErsInv'
<1>1. CASE TaskReq \/ TaskResp \/ TaskGc
  <2>1. SavePages'
    BY <1>1, WritersKeepPages DEF RestInv, ErsInv
  <2>2. \A o \in OpenType : WaitInv(o)'
    BY <1>1, ReqErs, RespErs, GcErs
  <2>. QED
    BY <2>1, <2>2 DEF ErsInv
<1>2. CASE TaskMeta
  BY <1>2, MetaErs
<1>3. CASE SchedRound
  BY <1>3, RoundErs
<1>4. CASE Nand
  BY <1>4, NandErs
<1>5. CASE Host
  <2>1. UNCHANGED <<ioVars, mctx, mt, jnl, erb, gcSt, run, wait>> /\ evt \subseteq evt'
    BY <1>5 DEF Host, HostWrite, HostRead, HostShutdown, Submit, TrigAsync, jnlVars, gcVars
  <2>. QED
    BY <2>1, QuietErs
<1>6. CASE PowerCycle
  BY <1>6, PowerErs
<1>7. CASE UNCHANGED vars
  BY <1>7, QuietErs DEF vars, schedVars, jnlVars, gcVars
<1>. QED
  BY <1>1, <1>2, <1>3, <1>4, <1>5, <1>6, <1>7 DEF Next, Task

LEMMA InitErs == Init => ErsInv
<1> SUFFICES ASSUME Init PROVE ErsInv
  OBVIOUS
<1>1. erb = [o \in OpenType |-> ErbIdle] /\ mt = "Init" /\ done["Meta"] = <<>>
  BY KeysDiffer DEF Init, GcInit, IoInit
<1>2. \A o \in OpenType : erb[o].step = "Init"
  BY <1>1 DEF ErbIdle
<1>3. Elems(<<>>) = {}
  BY NoneFacts
<1>. QED
  BY <1>1, <1>2, <1>3 DEF ErsInv, SavePages, WaitInv, WaitsSave

\* The stream whose opener is done is told of.
LEMMA OverTold ==
  ASSUME AddrInv, NEW o \in OpenType, WaitInv(o), WaitsSave(o), ErbOver(o),
         META_SetOpen(o, erb[o].blk)
  PROVE  NewBlkTold
<1>1. mctx.age > erb[o].age /\ mctx.age \in Nat
  BY DEF ErbOver, AddrInv, IsCtx
<1>2. JustSaved(o)
  BY <1>1 DEF WaitInv, Unsaved
<1>3. PICK x \in MBlk, w \in WL : TellsOf(die[x][w], o)
  BY <1>2 DEF JustSaved, EntryKept
<1>4. TellsErase(o, erb[o].blk, erb[o].age)
  BY <1>3 DEF TellsErase, TellsOf, MBlk, Elems
<1>5. opn'[o].blk = erb[o].blk /\ \A u \in OpenType \ {o} : opn'[u] = opn[u]
  BY DEF META_SetOpen, AddrInv, VAddr
<1>. QED
  BY <1>4, <1>5 DEF NewBlkTold

\* Only those two turns give a stream of a running device another block.
LEMMA StepTells ==
  ASSUME RestInv, ErsInv, [Next]_vars
  PROVE  NewBlkTold
<1>0. AddrInv /\ "USER" \in OpenType /\ "GC" \in OpenType
      /\ \A o \in OpenType : WaitInv(o)
  BY DEF RestInv, OpenType, ErsInv
<1>1. CASE \E r, at : ReqNewBlk(r, at)
  <2>1. PICK r, at : ReqNewBlk(r, at)
    BY <1>1
  <2>2. ErbOver("USER") /\ META_SetOpen("USER", erb["USER"].blk)
    BY <2>1 DEF ReqNewBlk
  <2>3. WaitsSave("USER")
    BY <2>2 DEF ErbOver, WaitsSave
  <2>. QED
    BY <1>0, <2>2, <2>3, OverTold
<1>2. CASE GcErsDstDone
  <2>1. ErbOver("GC") /\ META_SetOpen("GC", erb["GC"].blk) /\ gcSt = "ErsDst"
    BY <1>2 DEF GcErsDstDone
  <2>2. WaitsSave("GC")
    BY <2>1 DEF ErbOver, WaitsSave
  <2>. QED
    BY <1>0, <2>1, <2>2, OverTold
<1>3. CASE UNCHANGED opn \/ ~Loaded \/ ~pwr
  BY <1>3 DEF NewBlkTold
<1>4. CASE \E r, at : ReqProgram(r, at)
  <2>1. opn' = [opn EXCEPT !["USER"].wl = @ + 1]
    BY <1>4 DEF ReqProgram
  <2>2. \A o \in OpenType : opn'[o].blk = opn[o].blk
    <3>1. opn = [o \in OpenType |-> opn[o]] /\ IsNext(opn["USER"])
      BY <1>0 DEF AddrInv
    <3>. QED
      BY <2>1, <3>1 DEF IsNext
  <2>. QED
    BY <2>2 DEF NewBlkTold
<1>5. TaskReq => \/ \E r, at : ReqNewBlk(r, at) \/ ReqProgram(r, at)
                \/ UNCHANGED opn
  <2>1. ReqWaitOpen \/ ReqOpened \/ ReqIdle => UNCHANGED opn
    BY DEF ReqWaitOpen, ReqOpened, ReqIdle, otherThanReq, mapVars
  <2>2. ASSUME NEW r, NEW at, ReqStep(r, at)
        PROVE  ReqNewBlk(r, at) \/ ReqProgram(r, at) \/ UNCHANGED opn
    <3>1. CASE \/ ReqReadMapped(r, at) \/ ReqReadUnmapped(r, at) \/ ReqNeedsBlk(r, at)
               \/ ReqErasing(r, at) \/ ReqJnlBusy(r, at)
      BY <3>1 DEF ReqReadMapped, ReqReadUnmapped, ReqNeedsBlk, ReqErasing, ReqJnlBusy,
                  otherThanReq, mapVars
    <3>2. CASE \/ ShutdownWaitIo(r, at) \/ ShutdownSudden(r, at) \/ ShutdownSave(r, at)
               \/ ShutdownSaving(r, at) \/ ShutdownSaved(r, at)
      BY <3>2 DEF ShutdownWaitIo, ShutdownSudden, ShutdownSave, ShutdownSaving, ShutdownSaved,
                  otherThanReq, mapVars
    <3>. QED
      BY <2>2, <3>1, <3>2 DEF ReqStep
  <2>. QED
    BY <2>1, <2>2 DEF TaskReq, Req_Run
<1>6. TaskResp => UNCHANGED opn
  BY DEF TaskResp, ReqResp_Run, RespWait, RespDone, otherThanReq, mapVars
<1>7. TaskGc => GcErsDstDone \/ UNCHANGED opn
  <2>1. GcWaitOpen \/ GcResume \/ GcOpened \/ GcWaitReq \/ GcGetDst \/ GcErsDst => UNCHANGED opn
    BY DEF GcWaitOpen, GcResume, GcOpened, GcWaitReq, GcGetDst, GcErsDst, otherThanGc, mapVars
  <2>2. GcPgmDone \/ GcReadMoved \/ GcReadDropped \/ GcStop => UNCHANGED opn
    BY DEF GcPgmDone, GcReadMoved, GcReadDropped, GcStop, otherThanGc, mapVars
  <2>3. GcDstFull \/ GcNewSrc \/ GcReadNext \/ GcSrcDone \/ GcMoveWait => UNCHANGED opn
    BY DEF GcDstFull, GcNewSrc, GcReadNext, GcSrcDone, GcMoveWait, otherThanGc, mapVars
  <2>. QED
    BY <2>1, <2>2, <2>3 DEF TaskGc, GC_Run, GcMove
<1>8. TaskMeta => ~Loaded \/ UNCHANGED opn
  <2>1. MetaSave => UNCHANGED opn
    BY DEF MetaSave, MetaIdle, MetaSaveStart, MetaSaveWait, MetaSaveErased, MetaSaveDone, mapVars
  <2>2. MetaOpen => ~Loaded
    BY DEF Loaded, MetaOpen, MetaInit, BlkScanIssue, BlkScanPop, BlkScanReturn,
       MetaFormat, BlkScanDone, PageScanPop, PageScanReturn, PageScanDone, MtLoadPop,
       MtLoadReturn, MtLoadDone, ScanPop, ScanReturn, GcScanDone, ScanOver, UserScanDone,
       Phase, ScanPhase
  <2>. QED
    BY <2>1, <2>2 DEF TaskMeta
<1>9. SchedRound \/ Nand \/ Host => UNCHANGED opn
  BY DEF SchedRound, RoundWith, otherThanSched, Nand, Host, HostWrite, HostRead, HostShutdown,
         Submit, mapVars
<1>10. PowerCycle => ~pwr
  BY DEF PowerCycle
<1>11. UNCHANGED vars => UNCHANGED opn
  BY DEF vars, mapVars
<1>. QED
  BY <1>1, <1>2, <1>3, <1>4, <1>5, <1>6, <1>7, <1>8, <1>9, <1>10, <1>11 DEF Next, Task

LEMMA ErsHolds ==
  ASSUME NUM_META_BLK >= 2, NoSudden
  PROVE  Spec /\ []ResumeSound => []ErsInv
<1> DEFINE Saved == cycle = 0 \/ NoSudden => SavedInv
<1>1. SchedTypeOK /\ IInv /\ AskedInv /\ AllocInv /\ FlashInv /\ Saved /\ ErsInv /\ [Next]_vars => ErsInv'
  BY ErsInductive DEF IInv
<1> HIDE DEF Saved
<1>2. Spec => []Saved
  BY SavedHolds DEF Saved
<1>. QED
  BY <1>1, <1>2, InitErs, SchedTypeCorrect, IInvHolds, AskedHolds, AllocHolds, FlashHolds, PTL DEF Spec

(* The journal of an erase is in flash before its block is opened for      *)
(* writing, in a page META does not erase next: comparing the ages alone   *)
(* is enough (page_gc.cpp:455-460), for two streams, any sizes and any     *)
(* number of clean restarts, if what a start resumes is sound.             *)
THEOREM EraseSavedHolds ==
  ASSUME NUM_META_BLK >= 2, NoSudden
  PROVE  Spec /\ []ResumeSound => EraseSavedBeforeUse
<1>1. IInv /\ ErsInv /\ [Next]_vars => NewBlkTold
  BY StepTells DEF IInv
<1>. QED
  BY <1>1, ErsHolds, IInvHolds, PTL DEF Spec, EraseSavedBeforeUse

FirstErs == cycle = 0 => ErsInv

LEMMA FirstErsHolds ==
  ASSUME NUM_META_BLK >= 2
  PROVE  Spec => []FirstErs
<1> DEFINE Saved == cycle = 0 \/ NoSudden => SavedInv
<1>1. SchedTypeOK /\ IInv /\ AskedInv /\ FirstAlloc /\ FirstFlash /\ Saved /\ FirstErs
        /\ [Next]_vars => FirstErs'
  <2> SUFFICES ASSUME SchedTypeOK, IInv, AskedInv, FirstAlloc, FirstFlash, Saved, FirstErs,
                      [Next]_vars, cycle' = 0
               PROVE  ErsInv'
    BY DEF FirstErs
  <2>1. cycle = 0
    BY FirstCycle DEF FirstAlloc
  <2>. QED
    BY <2>1, ErsInductive DEF IInv, FirstAlloc, FirstFlash, FirstErs
<1>2. Init => FirstErs
  BY InitErs DEF FirstErs
<1> HIDE DEF Saved
<1>3. Spec => []Saved
  BY SavedHolds DEF Saved
<1>. QED
  BY <1>1, <1>2, <1>3, SchedTypeCorrect, IInvHolds, AskedHolds, FirstHolds, FirstFlashHolds, PTL
     DEF Spec

(* Up to the first power off it needs no hypothesis on the start, nor on   *)
(* how the host ends the run.                                              *)
THEOREM EraseSavedFirst ==
  ASSUME NUM_META_BLK >= 2
  PROVE  Spec => [][cycle = 0 => NewBlkTold]_vars
<1>1. IInv /\ FirstErs /\ [Next]_vars => (cycle = 0 => NewBlkTold)
  BY StepTells DEF IInv, FirstErs
<1>. QED
  BY <1>1, FirstErsHolds, IInvHolds, PTL DEF Spec

-----------------------------------------------------------------------------
(* What a turn and the device leave under way.                             *)

\* A turn keeps what it does not collect, and adds what it issues.
LEMMA TurnLeaves ==
  ASSUME IoTypes, NEW t, NEW P, Turns(t, P), NEW k \in CbKey
  PROVE  /\ \A c \in Under[k] : c \in Under'[k] \/ (k \in P /\ c = DoneHead(k))
         /\ \A c \in Elems(t) : c.cb = k => c \in Under'[k]
<1>1. Elems(nq') = Elems(nq) \cup Elems(t)
  BY TurnUnder
<1>2. Under'[k] = {c \in Elems(nq') : c.cb = k} \cup Elems(done'[k])
  BY DEF Under
<1>3. Under[k] = {c \in Elems(nq) : c.cb = k} \cup Elems(done[k])
  BY DEF Under
<1>4. ASSUME NEW c \in Elems(done[k]), c \notin Elems(done'[k])
      PROVE  k \in P /\ c = DoneHead(k)
  <2>1. done'[k] = IF k \in P THEN Tail(done[k]) ELSE done[k]
    BY DEF Turns
  <2>2. k \in P
    BY <1>4, <2>1
  <2>3. IsSeq(done[k]) /\ done[k] # <<>>
    BY <2>2 DEF IoTypes, GoodCmds, Turns, HasDone
  <2>4. Elems(done[k]) = {Head(done[k])} \cup Elems(Tail(done[k]))
    BY <2>3, TailFacts
  <2>. QED
    BY <1>4, <2>1, <2>2, <2>4 DEF DoneHead
<1>. QED
  BY <1>1, <1>2, <1>3, <1>4

LEMMA RestsLeave ==
  ASSUME IoTypes, MigRests
  PROVE  Under["Mig"] \subseteq Under'["Mig"]
<1>1. "Mig" \in CbKey
  BY KeysDiffer
<1>2. PICK t : IsSeq(t) /\ nq' = nq \o t
  BY DEF MigRests, KeyRests
<1>3. Elems(nq') = Elems(nq) \cup Elems(t)
  BY <1>2, ConcatFacts DEF IoTypes, GoodCmds
<1>4. done'["Mig"] = done["Mig"]
  BY DEF MigRests, KeyRests
<1>. QED
  BY <1>1, <1>3, <1>4 DEF Under

LEMMA NandLeaves ==
  ASSUME RestInv, NandDone, NEW k \in CbKey, NEW c \in Under[k]
  PROVE  \E d \in Under'[k] : d.op = c.op /\ d.wl = c.wl
<1>1. IoTypes /\ IsSeq(nq) /\ nq # <<>> /\ nq' = Tail(nq)
  BY DEF RestInv, IoTypes, GoodCmds, NandDone
<1>2. PICK h : h = Head(nq)
  OBVIOUS
<1>3. Elems(nq) = {h} \cup Elems(Tail(nq))
  BY <1>1, <1>2, TailFacts
<1>4. /\ h.cb \in CbKey /\ Answered(h).op = h.op /\ Answered(h).wl = h.wl /\ Answered(h).cb = h.cb
  BY <1>2, AnswerKeeps
<1>5. Under'[k] = {x \in Elems(nq') : x.cb = k} \cup Elems(done'[k])
  BY DEF Under
<1>6. Under[k] = {x \in Elems(nq) : x.cb = k} \cup Elems(done[k])
  BY DEF Under
<1>7. done' = [done EXCEPT ![h.cb] = Append(@, Answered(h))]
  BY <1>2 DEF NandDone, Answered
<1>8. /\ Elems(done[k]) \subseteq Elems(done'[k])
      /\ h.cb = k => Answered(h) \in Elems(done'[k])
  <2>1. IsSeq(done[k]) /\ done = [j \in CbKey |-> done[j]]
    BY <1>1 DEF IoTypes, GoodCmds
  <2>2. CASE h.cb = k
    <3>1. done'[k] = Append(done[k], Answered(h))
      BY <1>7, <2>1, <2>2
    <3>2. Elems(done'[k]) = Elems(done[k]) \cup {Answered(h)}
      BY <2>1, <3>1, AppendFacts
    <3>. QED
      BY <3>2
  <2>3. CASE h.cb # k
    BY <1>7, <2>1, <2>3
  <2>. QED
    BY <2>2, <2>3
<1>9. CASE c \in Under'[k]
  BY <1>9
<1>10. CASE c \notin Under'[k]
  <2>1. c = h /\ c.cb = k
    BY <1>1, <1>3, <1>5, <1>6, <1>8, <1>10
  <2>. QED
    BY <1>4, <1>5, <1>8, <2>1
<1>. QED
  BY <1>9, <1>10

-----------------------------------------------------------------------------
(* Pages of a block, and blocks of the pool.                               *)

\* No two logical pages share a page, so no block has more than its pages.
LEMMA FewValid ==
  ASSUME Loaded, MapSound, Counted, NEW b \in UBlk
  PROVE  vpc[b] \in Nat /\ vpc[b] <= NUM_WL
<1> DEFINE S == {l \in LPN : map[l].blk = b}
           f == [l \in S |-> map[l].wl]
<1>1. ASSUME NEW l \in S
      PROVE  \E w \in WL : Holds(l, b, w)
  <2>1. map[l] # FF32 /\ l \in LPN
    BY <1>1, SizeAssumption DEF FF32, VAddr, UBlk
  <2>2. PICK c \in UBlk, w \in WL : Holds(l, c, w)
    BY <2>1 DEF MapSound, Sound
  <2>3. c = b
    BY <1>1, <2>2 DEF Holds, VAddr
  <2>. QED
    BY <2>2, <2>3
<1>2. \A l \in S : f[l] \in WL /\ map[l] = VAddr(b, f[l]) /\ PageAt(VAddr(b, f[l])).lpn = l
  <2>1. ASSUME NEW l \in S
        PROVE  f[l] \in WL /\ map[l] = VAddr(b, f[l]) /\ PageAt(VAddr(b, f[l])).lpn = l
    <3>1. PICK w \in WL : Holds(l, b, w)
      BY <1>1, <2>1
    <3>2. map[l] = VAddr(b, w) /\ PageAt(VAddr(b, w)) = DataPage(l, Ver(l))
      BY <3>1 DEF Holds
    <3>3. f[l] = w
      BY <2>1, <3>2 DEF VAddr
    <3>. QED
      BY <3>2, <3>3 DEF DataPage
  <2>. QED
    BY <2>1
<1> HIDE DEF f
<1>3. f \in [S -> WL]
  BY <1>2 DEF f
<1>4. \A k, l \in S : f[k] = f[l] => k = l
  BY <1>2
<1>5. f \in Injection(S, WL)
  BY <1>3, <1>4 DEF Injection, IsInjective
<1>6. IsFiniteSet(WL) /\ Cardinality(WL) = NUM_WL
  <2>1. 0 \in Int /\ NUM_WL - 1 \in Int /\ ~(0 > NUM_WL - 1) /\ NUM_WL - 1 - 0 + 1 = NUM_WL
    BY SizeAssumption
  <2>. QED
    BY <2>1, FS_Interval DEF WL
<1>7. Cardinality(S) <= NUM_WL
  BY <1>5, <1>6, FS_Injection
<1>8. vpc[b] = Cardinality(S) /\ vpc[b] \in Nat
  <2>1. vpc[b] = CountValid(map, b)
    BY DEF Counted
  <2>2. CountValid(map, b) \in Nat
    BY CountType
  <2>3. CountValid(map, b) = Cardinality(S)
    BY DEF CountValid
  <2>. QED
    BY <2>1, <2>2, <2>3
<1>. QED
  BY <1>7, <1>8

\* gc_ScanFree finds a block if there is one to find.
LEMMA ScanTakes ==
  ASSUME IsSeq(pool), NEW bs, ScanFree(bs),
         pool # <<>> \/ \E b \in UBlk : bs[b] = "Closed" /\ vpc[b] = 0
  PROVE  pool' # <<>>
<1> DEFINE n == Lesser(SIZE_FREE_POOL - Len(pool), Cardinality(FreeBlks(bs)))
<1>1. PICK s \in [1 .. n -> FreeBlks(bs)] : pool' = pool \o s
  BY DEF ScanFree, Taken
<1>2. Len(pool) \in Nat /\ DOMAIN pool = 1 .. Len(pool)
  BY SeqFacts
<1>3. IsFiniteSet(FreeBlks(bs)) /\ Cardinality(FreeBlks(bs)) \in Nat
  <2>1. 0 \in Int /\ NUM_USER_BLK - 1 \in Int
    BY SizeAssumption
  <2>2. IsFiniteSet(UBlk)
    BY <2>1, FS_Interval DEF UBlk
  <2>3. FreeBlks(bs) \subseteq UBlk
    BY DEF FreeBlks
  <2>. QED
    BY <2>2, <2>3, FS_Subset, FS_CardinalityType
<1>4. n \in Int
  BY <1>2, <1>3, GcAssumption DEF Lesser
<1>5. pool = <<>> => n > 0
  <2> SUFFICES ASSUME pool = <<>> PROVE n > 0
    OBVIOUS
  <2>1. PICK b \in UBlk : bs[b] = "Closed" /\ vpc[b] = 0
    OBVIOUS
  <2>2. FreeBlks(bs) # {}
    BY <2>1 DEF FreeBlks
  <2>3. Cardinality(FreeBlks(bs)) # 0
    BY <1>3, <2>2, FS_EmptySet
  <2>4. Len(pool) = 0
    OBVIOUS
  <2>. QED
    BY <1>3, <2>3, <2>4, GcAssumption DEF Lesser
<1> HIDE DEF n
<1>6. PICK m \in Nat : 1 .. n = 1 .. m /\ (n > 0 => m > 0)
  <2>1. CASE n \in Nat
    BY <2>1
  <2>2. CASE n \notin Nat
    <3>1. 1 .. n = 1 .. 0 /\ ~(n > 0)
      BY <1>4, <2>2
    <3>. QED
      BY <3>1
  <2>. QED
    BY <2>1, <2>2
<1>7. s \in Seq(FreeBlks(bs)) /\ Len(s) = m
  <2>1. s \in [1 .. m -> FreeBlks(bs)]
    BY <1>6
  <2>. QED
    BY <2>1
<1>8. IsSeq(s)
  BY <1>7, SeqOfAny
<1>9. Len(pool \o s) = Len(pool) + m
  BY <1>7, <1>8, ConcatFacts
<1>10. pool # <<>> => Len(pool) > 0
  BY <1>2 DEF IsSeq
<1>11. Len(pool') > 0
  BY <1>1, <1>2, <1>5, <1>6, <1>9, <1>10
<1>. QED
  BY <1>11

-----------------------------------------------------------------------------
(* The pool is not empty when GC needs a block: the move before has made   *)
(* one, because it moved a block into an erased one.                       *)

\* Of the pages of the victim the move has passed, those still valid are
\* being read.
SrcRest ==
  gcSt = "Move" /\ mv.src # NoBlk =>
    \A l \in LPN, w \in WL :
      w < mv.swl /\ map[l] = VAddr(mv.src, w) =>
        \E c \in Under["Mig"] : c.op = "READ" /\ c.wl = w

Spare == \E b \in UBlk : bst[b] = "Closed" /\ vpc[b] = 0

\* What is left of the victim fits into what is left of the destination.
Fits ==
  \/ mv.src = NoBlk /\ mv.dwl = 0 /\ mv.rd = 0
  \/ mv.src \in UBlk /\ vpc[mv.src] + mv.dwl <= NUM_WL

Lasts ==
  /\ gcSt = "WaitReq" => pool # <<>> \/ Spare
  /\ gcSt = "GetDst" => pool # <<>>
  /\ gcSt = "Move" /\ pool = <<>> => Spare \/ Fits

\* Before GC starts on a formatted device every block is free.
AtStart ==
  Loaded /\ gcSt = "WaitOpen" =>
    /\ pool = <<>> /\ erb["USER"].step = "Init"
    /\ \A b \in UBlk : bst[b] = "Closed" /\ vpc[b] = 0
    /\ opn = [o \in OpenType |-> FF32]

LastInv == SrcRest /\ Lasts /\ AtStart

\* Block b loses valid pages at most.
Drains(b) ==
  /\ vpc'[b] = vpc[b] \/ vpc'[b] = vpc[b] - 1
  /\ \A l \in LPN, w \in WL : map'[l] = VAddr(b, w) => map[l] = VAddr(b, w)

\* The reads of the move stay under way.
ReadsGoOn ==
  \A c \in Under["Mig"] : c.op = "READ" => \E d \in Under'["Mig"] : d.op = "READ" /\ d.wl = c.wl

LEMMA NothingValid ==
  ASSUME NEW b \in UBlk, Counted, \A l \in LPN : map[l].blk # b
  PROVE  vpc[b] = 0
  BY CountsNone DEF Counted

\* A step of anyone but GC.
LEMMA DrainsLast ==
  ASSUME MapInv, MapInv', RestInv, AllocInv, Loaded, Loaded', SrcRest, Lasts, ReadsGoOn,
         mv' = mv, gcSt' = gcSt \/ gcSt' = "Stop",
         pool' = pool \/ (Len(pool) > 1 /\ pool' = Tail(pool)),
         \A b \in UBlk : bst[b] = "Closed" => bst'[b] = "Closed",
         \A b \in UBlk : bst[b] \in {"Closed", "Victim"} => Drains(b)
  PROVE  SrcRest' /\ Lasts'
<1>1. \A b \in UBlk : vpc[b] \in Nat /\ vpc'[b] \in Nat
  <2>1. Counted /\ Counted'
    BY DEF MapInv
  <2>2. ASSUME NEW b \in UBlk
        PROVE  vpc[b] \in Nat /\ vpc'[b] \in Nat
    <3>1. vpc[b] = CountValid(map, b) /\ vpc'[b] = CountValid(map', b)
      BY <2>1, <2>2 DEF Counted, CountValid
    <3>2. CountValid(map, b) \in Nat /\ CountValid(map', b) \in Nat
      BY CountType
    <3>. QED
      BY <3>1, <3>2
  <2>. QED
    BY <2>2
<1>2. gcSt = "Move" /\ mv.src # NoBlk => mv.src \in UBlk /\ bst[mv.src] = "Victim"
  BY DEF AllocInv, OpenInv
<1>3. SrcRest'
  <2> SUFFICES ASSUME gcSt = "Move", mv.src # NoBlk, NEW l \in LPN, NEW w \in WL,
                      w < mv.swl, map'[l] = VAddr(mv.src, w)
               PROVE  \E d \in Under'["Mig"] : d.op = "READ" /\ d.wl = w
    BY DEF SrcRest
  <2>1. map[l] = VAddr(mv.src, w)
    BY <1>2 DEF Drains
  <2>2. PICK c \in Under["Mig"] : c.op = "READ" /\ c.wl = w
    BY <2>1 DEF SrcRest
  <2>. QED
    BY <2>2 DEF ReadsGoOn
<1>4. Spare => Spare'
  <2>1. ASSUME NEW b \in UBlk, bst[b] = "Closed", vpc[b] = 0
        PROVE  bst'[b] = "Closed" /\ vpc'[b] = 0
    BY <1>1, <2>1 DEF Drains
  <2>. QED
    BY <2>1 DEF Spare
<1>5. pool # <<>> => pool' # <<>>
  <2> SUFFICES ASSUME pool' # pool PROVE pool' # <<>>
    OBVIOUS
  <2>1. IsSeq(pool) /\ pool # <<>>
    BY DEF RestInv, AddrInv
  <2>2. Len(Tail(pool)) = Len(pool) - 1 /\ Len(pool) \in Nat
    BY <2>1, TailFacts, SeqFacts
  <2>3. Len(pool') # 0
    BY <2>2
  <2>. QED
    BY <2>3
<1>6. pool' = <<>> => pool = <<>>
  BY <1>5
<1>7. gcSt = "Move" /\ Fits => Fits'
  <2> SUFFICES ASSUME gcSt = "Move", Fits, mv.src \in UBlk, vpc[mv.src] + mv.dwl <= NUM_WL
               PROVE  vpc'[mv.src] + mv.dwl <= NUM_WL
    BY DEF Fits
  <2>1. Drains(mv.src) /\ mv.dwl \in Nat
    BY <1>2, NoBlkIs DEF RestInv, MigInv
  <2>2. vpc'[mv.src] <= vpc[mv.src]
    BY <1>1, <2>1 DEF Drains
  <2>. QED
    BY <1>1, <2>1, <2>2, SizeAssumption
<1>8. Lasts'
  BY <1>4, <1>5, <1>6, <1>7 DEF Lasts
<1>. QED
  BY <1>3, <1>8

LEMMA RestsGoOn == ASSUME IoTypes, MigRests PROVE ReadsGoOn
  BY RestsLeave DEF ReadsGoOn

\* REQ maps pages to its open block only, takes no last block of the pool,
\* and opens a block that was free.
LEMMA ReqDrains ==
  ASSUME MapInv, RestInv, AllocInv, Loaded, TaskReq
  PROVE  /\ mv' = mv /\ (gcSt' = gcSt \/ gcSt' = "Stop")
         /\ pool' = pool \/ (Len(pool) > 1 /\ pool' = Tail(pool))
         /\ \A b \in UBlk : bst[b] = "Closed" => bst'[b] = "Closed"
         /\ \A b \in UBlk : bst[b] \in {"Closed", "Victim"} => Drains(b)
<1>1. CASE ReqWaitOpen \/ ReqOpened \/ ReqIdle
  BY <1>1 DEF ReqWaitOpen, ReqOpened, ReqIdle, otherThanReq, mapVars, gcVars, Drains
<1>2. ASSUME NEW r, NEW at, Handling(r, at), ReqStep(r, at)
      PROVE  /\ mv' = mv /\ (gcSt' = gcSt \/ gcSt' = "Stop")
             /\ pool' = pool \/ (Len(pool) > 1 /\ pool' = Tail(pool))
             /\ \A b \in UBlk : bst[b] = "Closed" => bst'[b] = "Closed"
             /\ \A b \in UBlk : bst[b] \in {"Closed", "Victim"} => Drains(b)
  <2>1. CASE \/ ReqReadMapped(r, at) \/ ReqReadUnmapped(r, at) \/ ReqJnlBusy(r, at)
             \/ ShutdownSaving(r, at) \/ ShutdownSaved(r, at)
    BY <2>1 DEF ReqReadMapped, ReqReadUnmapped, ReqJnlBusy, ShutdownSaving, ShutdownSaved,
       otherThanReq, mapVars, gcVars, Drains
  <2>2. CASE ShutdownWaitIo(r, at) \/ ShutdownSudden(r, at) \/ ShutdownSave(r, at)
    BY <2>2 DEF ShutdownWaitIo, ShutdownSudden, ShutdownSave, StopGc, mapVars, Drains
  <2>3. CASE ReqNeedsBlk(r, at) \/ ReqErasing(r, at)
    BY <2>3 DEF ReqNeedsBlk, ReqErasing, ReqMayTake, mapVars, Drains
  <2>4. CASE ReqNewBlk(r, at)
    <3>1. /\ UNCHANGED <<map, vpc, gcSt, mv, pool>> /\ erb["USER"].step = "WaitMtSave"
          /\ bst' = [bst EXCEPT ![erb["USER"].blk] = "Open"]
      BY <2>4 DEF ReqNewBlk, ErbOver, META_SetOpen
    <3>2. bst[erb["USER"].blk] = "InFree" /\ bst = [b \in UBlk |-> bst[b]]
      BY <3>1, StreamsDiffer DEF AllocInv, PoolInv
    <3>. QED
      BY <3>1, <3>2 DEF Drains
  <2>5. CASE ReqProgram(r, at)
    <3>1. /\ UNCHANGED <<bst, gcSt, mv, pool>> /\ opn["USER"].wl < NUM_WL
          /\ MetaUpdate(r.lpn, opn["USER"], "USER")
      <4>1. opn["USER"].wl \in Nat
        BY StreamsDiffer DEF RestInv, AddrInv, IsNext
      <4>. QED
        BY <2>5, <4>1, SizeAssumption DEF ReqProgram, UserBlkFull, gcVars
    <3>2. bst[opn["USER"].blk] = "Open"
      BY <3>1 DEF AllocInv, OpenInv, UserOpen, InUse
    <3>3. ASSUME NEW b \in UBlk, bst[b] \in {"Closed", "Victim"}
          PROVE  Drains(b)
      <4>1. opn["USER"].blk # b
        BY <3>2, <3>3
      <4>2. CASE r.lpn \notin LPN
        BY <3>1, <4>2 DEF MetaUpdate, Drains
      <4>3. CASE r.lpn \in LPN
        <5>1. map' = [map EXCEPT ![r.lpn] = opn["USER"]] /\ vpc' = VpcMoved(map[r.lpn], opn["USER"])
          BY <3>1, <4>3 DEF MetaUpdate
        <5>2. \A l \in LPN : map'[l] = IF l = r.lpn THEN opn["USER"] ELSE map[l]
          BY <4>3, <5>1 DEF MapInv
        <5>3. \A l \in LPN, w \in WL : map'[l] = VAddr(b, w) => map[l] = VAddr(b, w)
          BY <4>1, <5>2 DEF VAddr
        <5>4. vpc'[b] = vpc[b] - (IF map[r.lpn].blk = b THEN 1 ELSE 0) + 0
          BY <3>3, <4>1, <5>1 DEF VpcMoved
        <5>5. vpc[b] \in Nat
          <6>1. vpc[b] = CountValid(map, b)
            BY DEF MapInv, Counted
          <6>. QED
            BY <6>1, CountType
        <5>. QED
          BY <5>3, <5>4, <5>5 DEF Drains
      <4>. QED
        BY <4>2, <4>3
    <3>. QED
      BY <3>1, <3>3
  <2>. QED
    BY <1>2, <2>1, <2>2, <2>3, <2>4, <2>5 DEF ReqStep
<1>. QED
  BY <1>1, <1>2 DEF TaskReq, Req_Run

\* Before GC starts REQ finds no block to write to.
LEMMA ReqAtStart ==
  ASSUME MapInv, RestInv, AllocInv, AtStart, Loaded, TaskReq, gcSt = "WaitOpen"
  PROVE  UNCHANGED <<vpc, bst, opn, pool>> /\ erb'["USER"] = erb["USER"]
<1>1. pool = <<>> /\ erb["USER"].step = "Init" /\ UserBlkFull
  BY SizeAssumption, StreamsDiffer DEF AtStart, FF32, VAddr, UserBlkFull
<1>2. ~ReqMayTake
  <2>1. Len(pool) = 0
    BY <1>1
  <2>. QED
    BY <2>1 DEF ReqMayTake
<1>3. CASE ReqWaitOpen \/ ReqOpened \/ ReqIdle
  BY <1>3 DEF ReqWaitOpen, ReqOpened, ReqIdle, otherThanReq, mapVars, gcVars
<1>4. ASSUME NEW r, NEW at, ReqStep(r, at)
      PROVE  UNCHANGED <<vpc, bst, opn, pool>> /\ erb'["USER"] = erb["USER"]
  <2>1. CASE \/ ReqReadMapped(r, at) \/ ReqReadUnmapped(r, at) \/ ReqJnlBusy(r, at)
             \/ ShutdownSaving(r, at) \/ ShutdownSaved(r, at)
    BY <2>1 DEF ReqReadMapped, ReqReadUnmapped, ReqJnlBusy, ShutdownSaving, ShutdownSaved,
       otherThanReq, mapVars, gcVars
  <2>2. CASE ShutdownWaitIo(r, at) \/ ShutdownSudden(r, at) \/ ShutdownSave(r, at)
    BY <2>2 DEF ShutdownWaitIo, ShutdownSudden, ShutdownSave, mapVars
  <2>3. CASE ReqNeedsBlk(r, at)
    BY <1>2, <2>3 DEF ReqNeedsBlk, mapVars
  <2>4. ~ReqErasing(r, at) /\ ~ReqNewBlk(r, at) /\ ~ReqProgram(r, at)
    BY <1>1 DEF ReqErasing, ReqNewBlk, ReqProgram, ErbGoesOn, ErbErased, ErbRetry, ErbWait, ErbOver
  <2>. QED
    BY <1>4, <2>1, <2>2, <2>3, <2>4 DEF ReqStep
<1>. QED
  BY <1>3, <1>4 DEF TaskReq, Req_Run

-----------------------------------------------------------------------------
(* GC itself.                                                              *)

LEMMA VpcIsNat == ASSUME Counted, NEW b \in UBlk PROVE vpc[b] \in Nat
<1>1. vpc[b] = CountValid(map, b)
  BY DEF Counted
<1>. QED
  BY <1>1, CountType

\* The page a read of the move returns is that of the victim, and the logical
\* page mapped there is the one it names.
LEMMA ReadFound ==
  ASSUME RestInv, AllocInv, FlashInv, DevInv, Loaded, gcSt = "Move", HasDone("Mig"),
         DoneHead("Mig").op = "READ", NEW l \in LPN,
         map[l] = VAddr(mv.src, DoneHead("Mig").wl)
  PROVE  StillValid(DoneHead("Mig")) /\ DoneHead("Mig").pg.lpn = l
<1>0. IoTypes /\ "Mig" \in CbKey /\ MoveAcc /\ SrcInv /\ MapSound
  BY KeysDiffer, MoveFacts DEF RestInv, DevInv
<1>1. PICK c : c = DoneHead("Mig")
  OBVIOUS
<1>2. c \in Under["Mig"] /\ c \in Elems(done["Mig"]) /\ mv.rd > 0
  <2>1. IsSeq(done["Mig"]) /\ done["Mig"] # <<>>
    BY <1>0 DEF IoTypes, GoodCmds, HasDone
  <2>2. c \in Under["Mig"] /\ Cnt["Mig"]["READ"] > 0
    BY <1>0, <1>1, HeadUnder
  <2>. QED
    BY <1>0, <1>1, <2>1, <2>2, TailFacts DEF DoneHead, MoveAcc, Cnts
<1>3. c.blk = mv.src /\ mv.src \in UBlk /\ c.wl \in WL /\ c.pg = die[c.blk][c.wl]
  BY <1>0, <1>1, <1>2 DEF SrcInv
<1>4. bst[mv.src] = "Victim"
  BY <1>3, NoBlkIs DEF AllocInv, OpenInv
<1>5. PICK b \in UBlk, w \in WL : Holds(l, b, w)
  <2>1. map[l] # FF32
    BY <1>3, SizeAssumption DEF VAddr, FF32, UBlk
  <2>. QED
    BY <1>0, <2>1 DEF MapSound, Sound
<1>6. b = mv.src /\ w = c.wl
  BY <1>1, <1>5 DEF Holds, VAddr
<1>7. PageAt(VAddr(b, w)) = die[b][w]
  BY <1>4, <1>6, VictimQuiet
<1>8. c.pg = DataPage(l, Ver(l))
  BY <1>3, <1>5, <1>6, <1>7 DEF Holds
<1>9. mv.dwl < NUM_WL
  BY <1>0, <1>2, SizeAssumption DEF MoveAcc
<1>. QED
  BY <1>1, <1>8, <1>9 DEF StillValid, IsData, DataPage, META_GetMap

\* Nothing of the victim is valid when all its pages are read and programmed.
LEMMA SrcEmpty ==
  ASSUME RestInv, AllocInv, DevInv, Counted, Loaded, SrcRest, gcSt = "Move", mv.src \in UBlk,
         mv.swl = NUM_WL, mv.rd = 0
  PROVE  vpc[mv.src] = 0
<1>1. ASSUME NEW l \in LPN, map[l].blk = mv.src
      PROVE  FALSE
  <2>1. map[l] # FF32
    BY <1>1, SizeAssumption DEF FF32, VAddr, UBlk
  <2>2. PICK b \in UBlk, w \in WL : Holds(l, b, w)
    BY <2>1 DEF DevInv, MapSound, Sound
  <2>3. map[l] = VAddr(mv.src, w)
    BY <1>1, <2>2 DEF Holds, VAddr
  <2>4. w < mv.swl /\ mv.src # NoBlk
    BY SizeAssumption, NoBlkIs DEF WL
  <2>5. \E c \in Under["Mig"] : c.op = "READ"
    BY <2>3, <2>4 DEF SrcRest
  <2>. QED
    BY <2>5, MigQuiet
<1>. QED
  BY <1>1, NothingValid

\* The steps of a move that leave blocks, map and pool alone.
LEMMA MoveKeeps ==
  ASSUME Lasts, gcSt = "Move", gcSt' = "Move", UNCHANGED <<bst, vpc, pool>>,
         mv'.src = mv.src, mv'.dwl = mv.dwl,
         mv'.rd = mv.rd \/ mv.src # NoBlk
  PROVE  Lasts'
<1>1. Spare => Spare'
  BY DEF Spare
<1>2. Fits => Fits'
  BY DEF Fits
<1>. QED
  BY <1>1, <1>2 DEF Lasts

LEMMA PgmDoneLast ==
  ASSUME RestInv, SrcRest, Lasts, GcPgmDone
  PROVE  SrcRest' /\ Lasts'
<1>0. IoTypes /\ IsMv(mv) /\ "Mig" \in CbKey /\ gcSt = "Move" /\ HasDone("Mig")
  BY KeysDiffer DEF RestInv, MigInv, GcPgmDone, Moving
<1>1. /\ mv' = [mv EXCEPT !.pg = @ - 1] /\ UNCHANGED <<map, vpc, bst, gcSt, pool>>
      /\ PopDone("Mig") /\ UNCHANGED <<die, nq>> /\ DoneHead("Mig").op = "PGM"
  BY DEF GcPgmDone, otherThanGc
<1>2. mv'.src = mv.src /\ mv'.swl = mv.swl /\ mv'.dwl = mv.dwl /\ mv'.rd = mv.rd
  BY <1>0, <1>1 DEF IsMv, MvFields
<1>3. \A c \in Under["Mig"] : c.op = "READ" => c \in Under'["Mig"]
  <2>1. PICK P : P = {"Mig"}
    OBVIOUS
  <2>2. Turns(<<>>, P)
    BY <1>0, <1>1, <2>1, PopTurn
  <2>. QED
    BY <1>0, <1>1, <2>2, TurnLeaves
<1>4. SrcRest'
  BY <1>0, <1>1, <1>2, <1>3 DEF SrcRest
<1>. QED
  BY <1>0, <1>1, <1>2, <1>4, MoveKeeps

LEMMA ReadDroppedLast ==
  ASSUME RestInv, AllocInv, FlashInv, DevInv, Loaded, SrcRest, Lasts, GcReadDropped
  PROVE  SrcRest' /\ Lasts'
<1>0. IoTypes /\ IsMv(mv) /\ "Mig" \in CbKey /\ gcSt = "Move" /\ HasDone("Mig") /\ SrcInv
  BY KeysDiffer DEF RestInv, MigInv, GcReadDropped, Moving, DevInv
<1>1. /\ mv' = [mv EXCEPT !.data = @ - 1, !.rd = @ - 1] /\ UNCHANGED <<map, vpc, bst, gcSt, pool>>
      /\ PopDone("Mig") /\ UNCHANGED <<die, nq>> /\ DoneHead("Mig").op = "READ"
      /\ ~StillValid(DoneHead("Mig"))
  BY DEF GcReadDropped, otherThanGc
<1>2. mv'.src = mv.src /\ mv'.swl = mv.swl /\ mv'.dwl = mv.dwl
  BY <1>0, <1>1 DEF IsMv, MvFields
<1>3. mv.src # NoBlk
  <2>1. DoneHead("Mig") \in Under["Mig"]
    BY <1>0, HeadUnder
  <2>. QED
    BY <1>0, <1>1, <2>1, NoBlkIs DEF SrcInv
<1>4. PICK P : P = {"Mig"}
  OBVIOUS
<1>5. Turns(<<>>, P)
  BY <1>0, <1>1, <1>4, PopTurn
<1>6. \A c \in Under["Mig"] : c \in Under'["Mig"] \/ c = DoneHead("Mig")
  BY <1>0, <1>5, TurnLeaves
<1>7. SrcRest'
  <2> SUFFICES ASSUME NEW l \in LPN, NEW w \in WL, w < mv.swl, map[l] = VAddr(mv.src, w)
               PROVE  \E c \in Under'["Mig"] : c.op = "READ" /\ c.wl = w
    BY <1>1, <1>2 DEF SrcRest
  <2>1. PICK c \in Under["Mig"] : c.op = "READ" /\ c.wl = w
    BY <1>0, <1>3 DEF SrcRest
  <2>2. c # DoneHead("Mig")
    BY <1>0, <1>1, <2>1, ReadFound
  <2>. QED
    BY <1>6, <2>1, <2>2
<1>. QED
  BY <1>0, <1>1, <1>2, <1>3, <1>7, MoveKeeps

LEMMA ReadNextLast ==
  ASSUME RestInv, AllocInv, DevInv, SrcRest, Lasts, GcReadNext
  PROVE  SrcRest' /\ Lasts'
<1>0. IoTypes /\ IsMv(mv) /\ "Mig" \in CbKey /\ gcSt = "Move" /\ mv.src # NoBlk /\ mv.swl \in Nat
  BY KeysDiffer DEF RestInv, MigInv, GcReadNext, Collected, DevInv, SrcInv
<1>1. /\ mv' = [mv EXCEPT !.swl = @ + 1, !.rd = @ + 1, !.data = @ + 1]
      /\ UNCHANGED <<map, vpc, bst, gcSt, pool, die, done>>
  BY DEF GcReadNext, otherThanGc
<1>2. mv'.src = mv.src /\ mv'.swl = mv.swl + 1 /\ mv'.dwl = mv.dwl
  BY <1>0, <1>1 DEF IsMv, MvFields
<1>3. PICK c : c = ReadCmd("Mig", mv.src, mv.swl)
  OBVIOUS
<1>4. GoodCmd(c) /\ c.cb = "Mig" /\ c.op = "READ" /\ c.wl = mv.swl
  BY <1>0, <1>3, PlainCmds DEF ReadCmd, Cmd
<1>5. Turns(<<c>>, {}) /\ Elems(<<c>>) = {c}
  BY <1>0, <1>1, <1>3, <1>4, IssueTurn, OneFacts DEF GcReadNext
<1>6. PICK P : P = {}
  OBVIOUS
<1>7. Under["Mig"] \subseteq Under'["Mig"] /\ c \in Under'["Mig"]
  <2>1. Turns(<<c>>, P)
    BY <1>5, <1>6
  <2>. QED
    BY <1>0, <1>4, <1>5, <1>6, <2>1, TurnLeaves
<1>8. SrcRest'
  <2> SUFFICES ASSUME NEW l \in LPN, NEW w \in WL, w < mv.swl + 1, map[l] = VAddr(mv.src, w)
               PROVE  \E d \in Under'["Mig"] : d.op = "READ" /\ d.wl = w
    BY <1>1, <1>2 DEF SrcRest
  <2>1. CASE w < mv.swl
    BY <1>0, <1>7, <2>1 DEF SrcRest
  <2>2. CASE ~(w < mv.swl)
    <3>1. w = mv.swl
      BY <1>0, <2>2, SizeAssumption DEF WL
    <3>. QED
      BY <1>4, <1>7, <3>1
  <2>. QED
    BY <2>1, <2>2
<1>. QED
  BY <1>0, <1>1, <1>2, <1>8, MoveKeeps

LEMMA ReadMovedLast ==
  ASSUME MapInv, RestInv, AllocInv, FlashInv, DevInv, Loaded, SrcRest, Lasts, GcReadMoved
  PROVE  SrcRest' /\ Lasts'
<1>0. IoTypes /\ IsMv(mv) /\ "Mig" \in CbKey /\ gcSt = "Move" /\ gcSt' = "Move" /\ HasDone("Mig")
      /\ SrcInv /\ Counted /\ mv.dst \in UBlk /\ mv.dwl \in Nat
  BY KeysDiffer DEF RestInv, MigInv, GcReadMoved, Moving, DevInv, MapInv
<1>1. PICK c0, l, b : c0 = DoneHead("Mig") /\ l = c0.pg.lpn /\ b = mv.src
  OBVIOUS
<1>2. c0 \in Under["Mig"] /\ c0.op = "READ" /\ c0.blk = b /\ b \in UBlk /\ c0.wl \in WL
  <2>1. c0 \in Under["Mig"] /\ c0.op = "READ"
    BY <1>0, <1>1, HeadUnder DEF GcReadMoved
  <2>. QED
    BY <1>0, <1>1, <2>1 DEF SrcInv
<1>3. l \in LPN /\ map[l] = VAddr(b, c0.wl)
  <2>1. StillValid(c0)
    BY <1>1 DEF GcReadMoved
  <2>2. VAddr(b, c0.wl) # FF32
    BY <1>2, SizeAssumption DEF VAddr, FF32, UBlk
  <2>. QED
    BY <1>1, <2>1, <2>2 DEF StillValid, META_GetMap
<1>4. bst[b] = "Victim" /\ bst[mv.dst] = "Open"
  BY <1>0, <1>1, <1>2, NoBlkIs DEF AllocInv, OpenInv, GcOpen, GcBlk
<1>5. PICK c : c = PgmCmd("Mig", mv.dst, mv.dwl, c0.pg)
  OBVIOUS
<1>6. GoodCmd(c)
  BY <1>0, <1>5, UserPgm
<1>7. /\ PopDone("Mig") /\ Issue(<<c>>) /\ UNCHANGED <<die, bst, pool>>
      /\ MetaUpdate(l, VAddr(mv.dst, mv.dwl), "GC")
      /\ mv' = [mv EXCEPT !.dwl = @ + 1, !.pg = @ + 1, !.rd = @ - 1]
  BY <1>1, <1>5 DEF GcReadMoved
<1>8. map' = [map EXCEPT ![l] = VAddr(mv.dst, mv.dwl)] /\ vpc' = VpcMoved(map[l], VAddr(mv.dst, mv.dwl))
  BY <1>3, <1>7 DEF MetaUpdate
<1>9. mv'.src = b /\ mv'.swl = mv.swl /\ mv'.dwl = mv.dwl + 1
  BY <1>0, <1>1, <1>7 DEF IsMv, MvFields
<1>10. \A x \in Under["Mig"] : x \in Under'["Mig"] \/ x = c0
  <2>1. PICK P : P = {"Mig"}
    OBVIOUS
  <2>2. Turns(<<c>>, P)
    BY <1>0, <1>6, <1>7, <2>1, PopIssueTurn
  <2>. QED
    BY <1>0, <1>1, <2>1, <2>2, TurnLeaves
<1>11. SrcRest'
  <2> SUFFICES ASSUME NEW k \in LPN, NEW w \in WL, w < mv.swl, map'[k] = VAddr(b, w)
               PROVE  \E x \in Under'["Mig"] : x.op = "READ" /\ x.wl = w
    BY <1>9 DEF SrcRest
  <2>1. k # l /\ map[k] = VAddr(b, w)
    <3>1. map'[k] = IF k = l THEN VAddr(mv.dst, mv.dwl) ELSE map[k]
      BY <1>3, <1>8 DEF MapInv
    <3>2. VAddr(mv.dst, mv.dwl) # VAddr(b, w)
      BY <1>4 DEF VAddr
    <3>. QED
      BY <3>1, <3>2
  <2>2. PICK x \in Under["Mig"] : x.op = "READ" /\ x.wl = w
    BY <1>0, <1>1, <1>2, <2>1, NoBlkIs DEF SrcRest
  <2>3. x # c0
    BY <1>0, <1>1, <1>2, <2>1, <2>2, ReadFound
  <2>. QED
    BY <1>10, <2>2, <2>3
<1>12. \A x \in UBlk : x # mv.dst => vpc'[x] = vpc[x] - (IF x = b THEN 1 ELSE 0)
  <2>1. \A x \in UBlk : vpc[x] \in Nat
    BY <1>0, VpcIsNat
  <2>2. \A x \in UBlk : x # mv.dst => vpc'[x] = vpc[x] - (IF x = b THEN 1 ELSE 0) + 0
    BY <1>3, <1>8 DEF VpcMoved, VAddr
  <2>. QED
    BY <2>1, <2>2
<1>13. Spare => Spare'
  <2>1. ASSUME NEW x \in UBlk, bst[x] = "Closed", vpc[x] = 0
        PROVE  bst'[x] = "Closed" /\ vpc'[x] = 0
    <3>1. x # mv.dst /\ x # b
      BY <1>4, <2>1
    <3>2. vpc'[x] = vpc[x] - 0
      BY <1>12, <3>1
    <3>. QED
      BY <1>7, <2>1, <3>2
  <2>. QED
    BY <2>1 DEF Spare
<1>14. Fits => Fits'
  <2> SUFFICES ASSUME Fits PROVE vpc'[b] + mv'.dwl <= NUM_WL
    BY <1>2, <1>9 DEF Fits
  <2>1. vpc[b] + mv.dwl <= NUM_WL
    BY <1>1, <1>2, NoBlkIs DEF Fits
  <2>2. vpc[b] \in Nat
    BY <1>0, <1>2, VpcIsNat
  <2>3. vpc'[b] = vpc[b] - 1
    BY <1>2, <1>4, <1>12
  <2>. QED
    BY <1>0, <1>9, <2>1, <2>2, <2>3, SizeAssumption
<1>. QED
  BY <1>0, <1>7, <1>11, <1>13, <1>14 DEF Lasts

\* A full destination has taken all the valid pages of the victim.
LEMMA DstFullLast ==
  ASSUME MapInv, RestInv, AllocInv, Lasts, Loaded, GcDstFull
  PROVE  SrcRest' /\ Lasts'
<1>0. /\ gcSt = "Move" /\ gcSt' = "WaitReq" /\ mv.dwl = NUM_WL /\ UNCHANGED <<vpc, pool>> /\ Counted
      /\ bst' = [b \in UBlk |-> IF b \in {mv.src, mv.dst} THEN "Closed" ELSE bst[b]]
  BY DEF GcDstFull, Collected, DstFull, otherThanGc, MapInv
<1>1. SrcRest'
  BY <1>0 DEF SrcRest
<1>2. Spare => Spare'
  BY <1>0 DEF Spare
<1>3. Fits => Spare'
  <2> SUFFICES ASSUME Fits PROVE Spare'
    OBVIOUS
  <2>1. NUM_WL \in Nat /\ NUM_WL > 0
    BY SizeAssumption
  <2>2. mv.src \in UBlk /\ vpc[mv.src] + mv.dwl <= NUM_WL
    BY <1>0, <2>1 DEF Fits
  <2>3. vpc[mv.src] = 0
    <3>1. vpc[mv.src] \in Nat
      BY <1>0, <2>2, VpcIsNat
    <3>. QED
      BY <1>0, <2>1, <2>2, <3>1
  <2>. QED
    BY <1>0, <2>2, <2>3 DEF Spare
<1>. QED
  BY <1>0, <1>1, <1>2, <1>3 DEF Lasts

\* A victim fits into an erased destination.
LEMMA NewSrcLast ==
  ASSUME MapInv, RestInv, AllocInv, DevInv, Loaded, SrcRest, Lasts, GcNewSrc
  PROVE  SrcRest' /\ Lasts'
<1>0. IsMv(mv) /\ Counted /\ MapSound
  BY DEF RestInv, MigInv, MapInv, DevInv
<1>1. /\ gcSt = "Move" /\ gcSt' = "Move" /\ UNCHANGED <<map, vpc, pool>> /\ mv.src = NoBlk /\ mv.rd = 0
  BY DEF GcNewSrc, Collected, otherThanGc
<1>2. PICK b \in Victims : /\ mv' = [mv EXCEPT !.src = b, !.swl = 0]
                           /\ bst' = [c \in UBlk |-> IF c = b THEN "Victim" ELSE bst[c]]
  BY DEF GcNewSrc
<1>3. mv'.src = b /\ mv'.swl = 0 /\ mv'.dwl = mv.dwl /\ mv'.rd = mv.rd
  BY <1>0, <1>2 DEF IsMv, MvFields
<1>4. b = NoBlk \/ (b \in UBlk /\ bst[b] = "Closed" /\ vpc[b] # 0)
  BY DEF Victims
<1>5. SrcRest'
  BY <1>3, SizeAssumption DEF SrcRest, WL
<1>6. Spare => Spare'
  <2>1. ASSUME NEW x \in UBlk, bst[x] = "Closed", vpc[x] = 0
        PROVE  bst'[x] = "Closed" /\ vpc'[x] = 0
    <3>1. x # b
      BY <1>4, <2>1, NoBlkIs
    <3>. QED
      BY <1>1, <1>2, <2>1, <3>1
  <2>. QED
    BY <2>1 DEF Spare
<1>7. Fits => Fits'
  <2> SUFFICES ASSUME Fits PROVE Fits'
    OBVIOUS
  <2>1. mv.dwl = 0
    BY <1>1, NoBlkIs DEF Fits
  <2>2. CASE b = NoBlk
    BY <1>1, <1>3, <2>1, <2>2 DEF Fits
  <2>3. CASE b # NoBlk
    <3>1. b \in UBlk /\ vpc[b] \in Nat /\ vpc[b] <= NUM_WL
      BY <1>0, <1>4, <2>3, FewValid
    <3>2. vpc[b] + 0 <= NUM_WL
      BY <3>1, SizeAssumption
    <3>. QED
      BY <1>1, <1>3, <2>1, <3>1, <3>2 DEF Fits
  <2>. QED
    BY <2>2, <2>3
<1>. QED
  BY <1>1, <1>5, <1>6, <1>7 DEF Lasts

\* The victim moved is empty, so gc_ScanFree finds it.
LEMMA SrcDoneLast ==
  ASSUME MapInv, RestInv, AllocInv, DevInv, Loaded, SrcRest, GcSrcDone
  PROVE  SrcRest' /\ Lasts'
<1>0. IsMv(mv) /\ Counted /\ IsSeq(pool)
  BY DEF RestInv, MigInv, MapInv, AddrInv
<1>1. /\ gcSt = "Move" /\ gcSt' = "Move" /\ mv.src # NoBlk /\ mv.swl = NUM_WL /\ ~UnderWay
      /\ mv' = [mv EXCEPT !.src = NoBlk] /\ ScanFree([bst EXCEPT ![mv.src] = "Closed"])
  BY DEF GcSrcDone, Collected, SrcRead
<1>2. mv.src \in UBlk /\ mv'.src = NoBlk /\ mv.rd = 0
  <2>1. mv.rd \in Nat
    BY <1>1, MoveFacts DEF MoveAcc
  <2>. QED
    BY <1>0, <1>1, <2>1 DEF AllocInv, OpenInv, IsMv, MvFields, UnderWay
<1>3. vpc[mv.src] = 0
  BY <1>0, <1>1, <1>2, SrcEmpty
<1>4. PICK bs : bs = [bst EXCEPT ![mv.src] = "Closed"]
  OBVIOUS
<1>5. bs[mv.src] = "Closed"
  BY <1>2, <1>4 DEF AllocInv, PoolInv
<1>6. pool' # <<>>
  BY <1>0, <1>1, <1>2, <1>3, <1>4, <1>5, ScanTakes
<1>. QED
  BY <1>1, <1>2, <1>6 DEF SrcRest, Lasts

LEMMA GcLast ==
  ASSUME MapInv, MapInv', RestInv, AllocInv, FlashInv, DevInv, Loaded, LastInv, GC_Run
  PROVE  LastInv'
<1>0. /\ IoTypes /\ IsSeq(pool) /\ SrcRest /\ Lasts /\ AtStart
      /\ mt' = mt /\ Loaded'
  BY GcLeaves DEF RestInv, AddrInv, LastInv, Loaded
<1>1. CASE GcWaitOpen \/ GcMoveWait
  <2>1. UNCHANGED <<map, vpc, bst, opn, gcSt, mv, pool, erb, nq, done>>
    BY <1>1 DEF GcWaitOpen, GcMoveWait, otherThanGc, ioVars, gcVars
  <2>2. ReadsGoOn
    BY <1>0, <2>1, QuietMig, RestsGoOn
  <2>3. \A b \in UBlk : Drains(b)
    BY <2>1 DEF Drains
  <2>4. SrcRest' /\ Lasts'
    BY <1>0, <2>1, <2>2, <2>3, DrainsLast
  <2>5. AtStart'
    BY <1>0, <2>1 DEF AtStart
  <2>. QED
    BY <2>4, <2>5 DEF LastInv
<1>2. ~GcResume
  BY <1>0, SizeAssumption, StreamsDiffer DEF GcResume, AtStart, FF32, VAddr
<1>3. CASE GcOpened
  <2>1. gcSt = "WaitOpen" /\ gcSt' = "WaitReq" /\ UNCHANGED <<vpc, bst, pool>>
    BY <1>3 DEF GcOpened, otherThanGc
  <2>2. 0 \in UBlk
    BY SizeAssumption DEF UBlk
  <2>3. Spare'
    BY <1>0, <2>1, <2>2 DEF AtStart, Spare
  <2>. QED
    BY <2>1, <2>3 DEF LastInv, SrcRest, Lasts, AtStart
<1>4. CASE GcWaitReq
  <2>1. gcSt = "WaitReq" /\ gcSt' \in {"WaitReq", "GetDst"} /\ ScanFree(bst)
    BY <1>4 DEF GcWaitReq
  <2>2. pool # <<>> \/ \E b \in UBlk : bst[b] = "Closed" /\ vpc[b] = 0
    BY <1>0, <2>1 DEF Lasts, Spare
  <2>3. PICK bs : bs = bst
    OBVIOUS
  <2>4. pool' # <<>>
    BY <1>0, <2>1, <2>2, <2>3, ScanTakes
  <2>. QED
    BY <2>1, <2>4 DEF LastInv, SrcRest, Lasts, AtStart
<1>5. CASE GcGetDst \/ GcErsDst \/ GcStop
  <2>1. gcSt' \in {"ErsDst", "Stop"}
    BY <1>5 DEF GcGetDst, GcErsDst, GcStop, gcVars
  <2>. QED
    BY <2>1 DEF LastInv, SrcRest, Lasts, AtStart
<1>6. CASE GcErsDstDone
  <2>1. gcSt' = "Move" /\ mv' = MoveInto(erb["GC"].blk, 0)
    BY <1>6 DEF GcErsDstDone
  <2>2. mv'.src = NoBlk /\ mv'.dwl = 0 /\ mv'.rd = 0
    BY <2>1 DEF MoveInto, MvIdle
  <2>3. Fits'
    BY <2>2 DEF Fits
  <2>. QED
    BY <2>1, <2>2, <2>3 DEF LastInv, SrcRest, Lasts, AtStart
<1>7. CASE GcMove
  <2>1. gcSt' # "WaitOpen"
    BY <1>7 DEF GcMove, GcPgmDone, GcReadMoved, GcReadDropped, GcDstFull, GcNewSrc, GcReadNext, GcSrcDone,
       GcMoveWait, Moving, Collected, gcVars
  <2>2. SrcRest' /\ Lasts'
    BY <1>0, <1>1, <1>7, PgmDoneLast, ReadMovedLast, ReadDroppedLast, DstFullLast, NewSrcLast, ReadNextLast,
       SrcDoneLast DEF GcMove, LastInv
  <2>. QED
    BY <2>1, <2>2 DEF LastInv, AtStart
<1>. QED
  BY <1>1, <1>2, <1>3, <1>4, <1>5, <1>6, <1>7 DEF GC_Run

\* What is loaded is not loaded again.
LEMMA LoadedSaves ==
  ASSUME Loaded, TaskMeta
  PROVE  MetaSave
  BY DEF Loaded, TaskMeta, MetaOpen, MetaInit, BlkScanIssue, BlkScanPop, BlkScanReturn, MetaFormat,
     BlkScanDone, PageScanPop, PageScanReturn, PageScanDone, MtLoadPop, MtLoadReturn, MtLoadDone,
     ScanPop, ScanReturn, GcScanDone, UserScanDone, ScanOver, ScanPhase, Phase

LEMMA OthersLast ==
  ASSUME MapInv, MapInv', RestInv, AllocInv, Loaded, Loaded', LastInv,
         TaskReq \/ TaskResp \/ TaskMeta \/ SchedRound \/ Nand \/ Host \/ UNCHANGED vars
  PROVE  LastInv'
<1>0. IoTypes /\ SrcRest /\ Lasts /\ AtStart /\ "Mig" \in CbKey
  BY KeysDiffer DEF RestInv, LastInv
<1>1. CASE TaskReq
  <2>1. ReadsGoOn
    BY <1>0, <1>1, ReqMig, RestsGoOn
  <2>2. SrcRest' /\ Lasts'
    BY <1>0, <1>1, <2>1, ReqDrains, DrainsLast
  <2>3. AtStart'
    <3> SUFFICES ASSUME gcSt' = "WaitOpen" PROVE AtStart'
      BY DEF AtStart
    <3>1. gcSt = "WaitOpen"
      BY <1>1, ReqDrains
    <3>. QED
      BY <1>0, <1>1, <3>1, ReqAtStart DEF AtStart
  <2>. QED
    BY <2>2, <2>3 DEF LastInv
<1>2. ASSUME UNCHANGED <<map, vpc, opn, gcSt, mv, pool, erb>>, ReadsGoOn,
             \A b \in UBlk : bst[b] = "Closed" => bst'[b] = "Closed"
      PROVE  LastInv'
  <2>1. \A b \in UBlk : Drains(b)
    BY <1>2 DEF Drains
  <2>2. SrcRest' /\ Lasts'
    BY <1>0, <1>2, <2>1, DrainsLast
  <2>3. AtStart'
    BY <1>0, <1>2 DEF AtStart
  <2>. QED
    BY <2>2, <2>3 DEF LastInv
<1>3. CASE TaskResp
  <2>1. ReadsGoOn
    BY <1>0, <1>3, RespMig, RestsGoOn
  <2>2. UNCHANGED <<map, vpc, opn, gcSt, mv, pool, erb>>
        /\ \A b \in UBlk : bst[b] = "Closed" => bst'[b] = "Closed"
    <3>1. CASE RespWait
      BY <3>1 DEF RespWait, otherThanReq, mapVars, gcVars
    <3>2. CASE RespDone
      <4>1. bst = [b \in UBlk |-> bst[b]]
        BY DEF AllocInv, PoolInv
      <4>2. bst' = bst \/ bst' = [bst EXCEPT ![DoneHead("User").blk] = "Closed"]
        BY <3>2 DEF RespDone
      <4>3. UNCHANGED <<map, vpc, opn, gcSt, mv, pool, erb>>
        BY <3>2 DEF RespDone, gcVars
      <4>. QED
        BY <4>1, <4>2, <4>3
    <3>. QED
      BY <1>3, <3>1, <3>2 DEF TaskResp, ReqResp_Run
  <2>. QED
    BY <1>2, <2>1, <2>2
<1>4. CASE TaskMeta
  <2>1. MetaSave
    BY <1>4, LoadedSaves
  <2>2. "Mig" \in CbKey \ {"Meta"}
    BY KeysDiffer
  <2>3. MigRests
    BY <1>4, <2>2, MetaKeyRests DEF MigRests
  <2>4. ReadsGoOn
    BY <1>0, <2>3, RestsGoOn
  <2>5. UNCHANGED <<map, vpc, bst, opn>>
    BY <2>1 DEF MetaSave, MetaIdle, MetaSaveStart, MetaSaveWait, MetaSaveErased, MetaSaveDone, mapVars
  <2>6. UNCHANGED <<gcSt, mv, pool, erb>>
    BY <1>4 DEF TaskMeta, gcVars
  <2>. QED
    BY <1>2, <2>4, <2>5, <2>6
<1>5. CASE Nand
  <2>1. NandDone /\ UNCHANGED <<map, vpc, bst, opn, gcSt, mv, pool, erb>>
    BY <1>5 DEF Nand, mapVars, gcVars
  <2>2. ReadsGoOn
    <3>1. ASSUME NEW c \in Under["Mig"], c.op = "READ"
          PROVE  \E d \in Under'["Mig"] : d.op = "READ" /\ d.wl = c.wl
      BY <1>0, <2>1, <3>1, NandLeaves
    <3>. QED
      BY <3>1 DEF ReadsGoOn
  <2>. QED
    BY <1>2, <2>1, <2>2
<1>6. CASE SchedRound \/ Host \/ UNCHANGED vars
  <2>1. UNCHANGED <<map, vpc, bst, opn, gcSt, mv, pool, erb, nq, done>>
    BY <1>6 DEF SchedRound, RoundWith, otherThanSched, Host, HostWrite, HostRead, HostShutdown, Submit,
       vars, mapVars, gcVars, ioVars
  <2>2. ReadsGoOn
    BY <1>0, <2>1, QuietMig, RestsGoOn
  <2>. QED
    BY <1>2, <2>1, <2>2
<1>. QED
  BY <1>1, <1>3, <1>4, <1>5, <1>6

FirstLast == cycle = 0 => LastInv

LEMMA FirstLastHolds == Spec => []FirstLast
<1>1. /\ IInv /\ IInv' /\ FirstAlloc /\ FirstAlloc' /\ FirstFlash /\ FirstDev /\ FirstLast /\ [Next]_vars
      => FirstLast'
  <2> SUFFICES ASSUME IInv, IInv', FirstAlloc, FirstAlloc', FirstFlash, FirstDev, FirstLast, [Next]_vars,
                      cycle' = 0
               PROVE  LastInv'
    BY DEF FirstLast
  <2>0. cycle = 0 /\ ~PowerCycle
    <3>1. cycle = 0
      BY FirstCycle DEF FirstAlloc
    <3>. QED
      BY <3>1 DEF PowerCycle
  <2>1. MapInv /\ MapInv' /\ RestInv /\ RestInv' /\ AllocInv /\ AllocInv' /\ FirstInv /\ FlashInv /\ DevInv
        /\ LastInv
    BY <2>0 DEF IInv, FirstAlloc, FirstFlash, FirstDev, FirstLast
  <2>2. (RestInv /\ ~Opening => Loaded)'
    BY NotOpening, PTL
  <2>3. CASE Opening'
    <3>1. gcSt' = "WaitOpen" /\ ~Loaded'
      BY <2>1, <2>3 DEF MapInv, Opening, Loaded
    <3>. QED
      BY <3>1 DEF LastInv, SrcRest, Lasts, AtStart
  <2>4. CASE ~Opening /\ ~Opening'
    <3>1. Loaded /\ Loaded'
      BY <2>1, <2>2, <2>4, NotOpening
    <3>. QED
      BY <2>0, <2>1, <3>1, GcLast, OthersLast DEF Next, Task, TaskGc
  <2>5. CASE Opening /\ ~Opening'
    <3>1. Loaded'
      BY <2>1, <2>2, <2>5
    <3>2. gcSt' = "WaitOpen" /\ reqSt' = "WaitOpen"
      BY <2>1, <2>5, <3>1, OpenEnds
    <3>3. FirstOpen
      BY <2>0, <2>1, <2>5 DEF FirstInv
    <3>4. MetaFormat
      BY <2>1, <2>5, <3>1, <3>3, OpenEnds DEF FirstOpen, UserScanDone, ScanOver, ScanPhase, Phase
    <3>5. \A b \in UBlk : bst'[b] = "Closed" /\ vpc'[b] = 0
      BY <3>4 DEF MetaFormat
    <3>6. opn' = [o \in OpenType |-> FF32]
      BY <2>1, <3>4 DEF MetaFormat, AllocInv, RingAddr
    <3>7. pool' = <<>> /\ erb'["USER"].step = "Init"
      BY <2>1, <3>2 DEF AllocInv, PoolInv, RestInv, ErbInv
    <3>. QED
      BY <3>2, <3>5, <3>6, <3>7 DEF LastInv, SrcRest, Lasts, AtStart
  <2>. QED
    BY <2>3, <2>4, <2>5
<1>2. Init => FirstLast
  <2> SUFFICES ASSUME Init PROVE LastInv
    BY DEF FirstLast
  <2>1. gcSt = "WaitOpen" /\ mt = "Init"
    BY DEF Init, GcInit
  <2>. QED
    BY <2>1 DEF LastInv, SrcRest, Lasts, AtStart, Loaded
<1>. QED
  BY <1>1, <1>2, IInvHolds, FirstHolds, FirstFlashHolds, FirstDevHolds, PTL DEF Spec

(* Until the first power off GC never pops the empty pool: PopHead's       *)
(* assert cannot fail.  A move takes one block out of the pool and, before *)
(* it asks for the next one, has emptied the victim it started with an     *)
(* erased destination, so gc_ScanFree finds at least that block            *)
(* (page_gc.cpp:245-262, 323-333).                                         *)
THEOREM PoolLastsFirst == Spec => [](cycle = 0 => PoolLasts)
<1>1. FirstLast => (cycle = 0 => PoolLasts)
  BY DEF FirstLast, LastInv, Lasts, PoolLasts
<1>. QED
  BY <1>1, FirstLastHolds, PTL
=============================================================================
