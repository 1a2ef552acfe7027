---------------------------- MODULE FlashProofs -----------------------------
(***************************************************************************)
(* The order of programming: from the next address of a stream on, and     *)
(* from the page of every queued program on, the block is erased, and the  *)
(* blocks of the meta ring fill up (FlashInv). Every step preserves that,  *)
(* given that a start resumes sound streams; hence programs reach the die  *)
(* in order. At the end, where each block is: in the free pool, with a     *)
(* stream, the victim of a move, or seen closed (UseInv), so that no block *)
(* is lost to all of them.                                                 *)
(***************************************************************************)
EXTENDS AllocProofs

-----------------------------------------------------------------------------
(* The inductive invariant of the order of programming.                    *)

\* The pages of block b from w on are erased; in a filled block the others
\* are not.
ErasedFrom(b, w) == \A v \in WL : v >= w => IsErased(die[b][v])
FilledTo(b, w)   == \A v \in WL : IsErased(die[b][v]) <=> v >= w

\* META programs and erases the block its context points to.
MetaCmds ==
  /\ \A c \in Pgms("Meta") \cup Erbs("Meta") : c.blk = MtBlk2PBN(mctx.bo)
  /\ \A c \in Pgms("Meta") : c.wl = mctx.wl /\ ~IsErased(c.pg)
  /\ mt \in {"Open", "Assert"} => Pgms("Meta") = {} /\ Erbs("Meta") = {}

\* A block is still erased when the completion of its erase is collected.
DoneInv == \A k \in CbKey : \A c \in Elems(done[k]) : c.op = "ERB" => ErasedFrom(c.blk, 0)

\* From the page of a queued program on its block is erased, and the programs
\* of a block are queued in the order of their pages.
OrderInv ==
  \A i \in DOMAIN nq : nq[i].op = "PGM" =>
     /\ ErasedFrom(nq[i].blk, nq[i].wl)
     /\ \A j \in DOMAIN nq :
          i < j /\ nq[j].op = "PGM" /\ nq[j].blk = nq[i].blk => nq[i].wl < nq[j].wl

\* From its next address on the block of a stream is erased.
RoomInv ==
  /\ \A o \in OpenType : erb[o].step \in {"WaitJnlAdd", "WaitMtSave"} => ErasedFrom(erb[o].blk, 0)
  /\ Loaded /\ opn["USER"].wl < NUM_WL => ErasedFrom(opn["USER"].blk, opn["USER"].wl)
  /\ Loaded /\ gcSt = "WaitOpen" /\ opn["GC"].wl < NUM_WL =>
       ErasedFrom(opn["GC"].blk, opn["GC"].wl)
  /\ gcSt = "Move" => ErasedFrom(mv.dst, mv.dwl)

\* The scan of a stream has read what is in flash.
ScanRead ==
  /\ us.ers # FF16 => IsErased(die[us.blk][us.ers])
  /\ \A c \in Elems(done["Meta"]) : c.pg = die[c.blk][c.wl]

\* What a scan starts from, and what the scan of GC leaves for that of USER.
LookInv ==
  /\ Phase("GcScan") => ScanRead /\ (opn["GC"].wl < NUM_WL => FillsUp("GC"))
  /\ Phase("UserScan") => ScanRead
                       /\ (opn["GC"].wl < NUM_WL => ErasedFrom(opn["GC"].blk, opn["GC"].wl))
  /\ Scanning => (opn["USER"].wl < NUM_WL => FillsUp("USER"))

\* The context points to the page META writes next.
Pointed == mt \in {"Ready", "SaveErase"} \/ Phase("MtLoad") \/ Scanning

\* The blocks of the ring fill up, and the current one is full up to the next
\* page to write.
RingInv ==
  /\ mctx.wl \in WL
  /\ \A b \in MBlk, v, w \in WL : v < w /\ IsErased(die[b][v]) => IsErased(die[b][w])
  /\ Pointed /\ mctx.wl # 0 => FilledTo(MtBlk2PBN(mctx.bo), mctx.wl)
  /\ mt = "SaveErase" => mctx.wl = 0
  /\ \A c \in Elems(nq) : c.cb = "Meta" /\ c.op = "PGM" => FilledTo(c.blk, c.wl)
  /\ \A c \in Elems(done["Meta"]) : c.op = "PGM" => FilledTo(c.blk, c.wl + 1)

PageAtScan(c, i) == c.blk = MtBlk2PBN(os.bo) /\ c.wl = os.dn + i

\* The search for the last page of the newest block reads its pages in order
\* and remembers the first erased one.
PageScanInv ==
  Phase("PageScan") =>
    /\ \A i \in DOMAIN done["Meta"] :
         /\ PageAtScan(done["Meta"][i], i - 1)
         /\ done["Meta"][i].pg = die[done["Meta"][i].blk][done["Meta"][i].wl]
    /\ \A i \in DOMAIN nq : PageAtScan(nq[i], Len(done["Meta"]) + i - 1)
    /\ os.iss = os.dn + Len(done["Meta"]) + Len(nq)
    /\ \A v \in WL : v < os.dn /\ v < os.cpo => ~IsErased(die[MtBlk2PBN(os.bo)][v])
    /\ os.cpo < NUM_WL => os.cpo < os.dn /\ IsErased(die[MtBlk2PBN(os.bo)][os.cpo])

FlashInv == MetaCmds /\ DoneInv /\ OrderInv /\ RoomInv /\ LookInv /\ RingInv /\ PageScanInv

-----------------------------------------------------------------------------
(* Turns: what they do to the order of programming.                        *)

LEMMA DoneTurn ==
  ASSUME IoTypes, DoneInv, NEW t, NEW P, Turns(t, P)
  PROVE  DoneInv'
<1>1. die' = die /\ \A k \in CbKey : Elems(done'[k]) \subseteq Elems(done[k])
  BY TurnUnder
<1>. QED
  BY <1>1 DEF DoneInv, ErasedFrom

\* A turn that issues no program keeps the order.
LEMMA OrderTurn ==
  ASSUME IoTypes, OrderInv, NEW t, NEW P, Turns(t, P), \A c \in Elems(t) : c.op # "PGM"
  PROVE  OrderInv'
<1>1. IsSeq(nq) /\ IsSeq(t) /\ nq' = nq \o t /\ die' = die
  BY DEF Turns, IoTypes, GoodCmds
<1>2. /\ DOMAIN nq = 1 .. Len(nq) /\ DOMAIN t = 1 .. Len(t) /\ Len(nq) \in Nat /\ Len(t) \in Nat
      /\ Len(nq') = Len(nq) + Len(t) /\ IsSeq(nq')
  BY <1>1, SeqFacts, ConcatFacts
<1>3. DOMAIN nq' = 1 .. Len(nq')
  BY <1>2, SeqFacts
<1>4. ASSUME NEW i \in DOMAIN nq', nq'[i].op = "PGM"
      PROVE  i \in DOMAIN nq /\ nq'[i] = nq[i]
  <2>1. CASE i <= Len(nq)
    BY <2>1, <1>1, <1>2, <1>3, <1>4 DEF IsSeq
  <2>2. CASE i > Len(nq)
    <3>1. nq'[i] = t[i - Len(nq)] /\ i - Len(nq) \in DOMAIN t
      BY <2>2, <1>1, <1>2, <1>3, <1>4 DEF IsSeq
    <3>. QED
      BY <1>4, <3>1 DEF Elems
  <2>. QED
    BY <2>1, <2>2, <1>2, <1>3, <1>4
<1>. QED
  BY <1>1, <1>4 DEF OrderInv, ErasedFrom

\* One program more, of a page from which on the block is erased, behind the
\* programs of the block that are queued.
LEMMA OrderPgm ==
  ASSUME IoTypes, OrderInv, NEW c, NEW P, Turns(<<c>>, P),
         ErasedFrom(c.blk, c.wl),
         \A d \in Elems(nq) : d.op = "PGM" /\ d.blk = c.blk => d.wl < c.wl
  PROVE  OrderInv'
<1>1. IsSeq(nq) /\ nq' = nq \o <<c>> /\ die' = die
  BY DEF Turns, IoTypes, GoodCmds
<1>2. /\ DOMAIN nq = 1 .. Len(nq) /\ Len(nq) \in Nat
      /\ Len(nq') = Len(nq) + 1 /\ IsSeq(nq')
      /\ \A i \in DOMAIN nq : nq'[i] = nq[i]
      /\ nq'[Len(nq) + 1] = c
  <2>1. nq' = Append(nq, c)
    BY <1>1 DEF IsSeq
  <2>2. IsSeq(nq') /\ Len(nq') = Len(nq) + 1
    BY <1>1, <2>1, AppendFacts
  <2>. QED
    BY <1>1, <2>1, <2>2, SeqFacts DEF IsSeq
<1>3. DOMAIN nq' = 1 .. Len(nq) + 1
  BY <1>2, SeqFacts
<1>4. ASSUME NEW i \in DOMAIN nq', nq'[i].op = "PGM"
      PROVE  \A v \in WL : v >= nq'[i].wl => IsErased(die'[nq'[i].blk][v])
  <2>1. ErasedFrom(nq'[i].blk, nq'[i].wl)
    BY <1>2, <1>3, <1>4 DEF OrderInv
  <2>. QED
    BY <1>1, <2>1 DEF ErasedFrom
<1>5. ASSUME NEW i \in DOMAIN nq', NEW j \in DOMAIN nq', nq'[i].op = "PGM",
             i < j, nq'[j].op = "PGM", nq'[j].blk = nq'[i].blk
      PROVE  nq'[i].wl < nq'[j].wl
  <2>0. i \in DOMAIN nq
    BY <1>2, <1>3, <1>5
  <2>1. CASE j \in DOMAIN nq
    BY <2>0, <2>1, <1>2, <1>5 DEF OrderInv
  <2>2. CASE j = Len(nq) + 1
    BY <2>0, <2>2, <1>2, <1>5 DEF Elems
  <2>. QED
    BY <2>1, <2>2, <1>2, <1>3
<1>. QED
  BY <1>4, <1>5 DEF OrderInv, ErasedFrom

-----------------------------------------------------------------------------
(* The order of programming: frames.                                       *)

\* REQ, REQ_RESP and GC at work: META's part of the flash is not theirs.
LEMMA WriterFrame ==
  ASSUME FlashInv, ~Opening, UNCHANGED <<die, mctx, mt, os, us>>,
         done'["Meta"] = done["Meta"], \A k \in CbKey : Elems(done'[k]) \subseteq Elems(done[k]),
         \A c \in Elems(nq') : c.cb = "Meta" => c \in Elems(nq),
         Keeps("Meta"), OrderInv', RoomInv'
  PROVE  FlashInv'
<1>1. MetaCmds'
  BY DEF FlashInv, MetaCmds, Keeps
<1>2. DoneInv'
  BY DEF FlashInv, DoneInv, ErasedFrom
<1>3. LookInv' /\ PageScanInv'
  BY DEF LookInv, PageScanInv, Scanning, Phase, Opening
<1>4. RingInv'
  BY DEF FlashInv, RingInv, FilledTo, Pointed, Scanning, Phase
<1>. QED
  BY <1>1, <1>2, <1>3, <1>4 DEF FlashInv

LEMMA TurnFrame ==
  ASSUME RestInv, FlashInv, ~Opening, UNCHANGED <<mctx, mt, os, us>>,
         NEW t, NEW P, Turns(t, P), "Meta" \notin P, \A c \in Elems(t) : c.cb # "Meta",
         OrderInv', RoomInv'
  PROVE  FlashInv'
<1>1. IoTypes
  BY DEF RestInv
<1>2. /\ die' = die /\ Elems(nq') = Elems(nq) \cup Elems(t)
      /\ \A k \in CbKey : Elems(done'[k]) \subseteq Elems(done[k])
  BY <1>1, TurnUnder
<1>3. done'["Meta"] = done["Meta"]
  BY KeysDiffer DEF Turns
<1>4. Keeps("Meta")
  BY <1>1, TurnRests, KeysDiffer
<1>. QED
  BY <1>2, <1>3, <1>4, WriterFrame

LEMMA QuietFlash ==
  ASSUME FlashInv, UNCHANGED ioVars, UNCHANGED <<mctx, mt, os, us, opn, erb, gcSt, mv>>
  PROVE  FlashInv'
<1> USE DEF ioVars
<1>1. MetaCmds'
  BY DEF FlashInv, MetaCmds, Pgms, Erbs, Under
<1>2. DoneInv' /\ OrderInv'
  BY DEF FlashInv, DoneInv, OrderInv, ErasedFrom
<1>3. RoomInv'
  BY DEF FlashInv, RoomInv, Loaded, ErasedFrom
<1>4. LookInv'
  BY DEF FlashInv, LookInv, ScanRead, FillsUp, ErasedFrom, Scanning, Phase
<1>5. RingInv'
  BY DEF FlashInv, RingInv, FilledTo, Pointed, Scanning, Phase
<1>6. PageScanInv'
  BY DEF FlashInv, PageScanInv, PageAtScan, Phase
<1>. QED
  BY <1>1, <1>2, <1>3, <1>4, <1>5, <1>6 DEF FlashInv

\* Nobody gets a block to write to.
LEMMA RoomFrame ==
  ASSUME RoomInv, UNCHANGED <<die, opn>>, Loaded' => Loaded,
         \A o \in OpenType : erb'[o] = erb[o] \/ erb'[o].step \in {"Init", "WaitErb"},
         gcSt' = "WaitOpen" => gcSt = "WaitOpen",
         gcSt' = "Move" => gcSt = "Move" /\ mv'.dst = mv.dst /\ mv'.dwl = mv.dwl
  PROVE  RoomInv'
<1>1. \A b, w : ErasedFrom(b, w) => ErasedFrom(b, w)'
  BY DEF ErasedFrom
<1>2. ASSUME NEW o \in OpenType, erb'[o].step \in {"WaitJnlAdd", "WaitMtSave"}
      PROVE  ErasedFrom(erb[o].blk, 0)'
  BY <1>2 DEF RoomInv, ErasedFrom
<1>. QED
  BY <1>2 DEF RoomInv, ErasedFrom

-----------------------------------------------------------------------------
(* REQ and REQ_RESP.                                                       *)

LEMMA QuietTurns ==
  ASSUME RestInv, UNCHANGED ioVars
  PROVE  Turns(<<>>, {}) /\ Elems(<<>>) = {}
  BY QuietTurn, NoneFacts DEF RestInv

\* A step that leaves the flash and the queues alone.
LEMMA StillFlash ==
  ASSUME RestInv, FlashInv, ~Opening, UNCHANGED ioVars, UNCHANGED <<mctx, mt, os, us>>, RoomInv'
  PROVE  FlashInv'
<1>1. Turns(<<>>, {}) /\ Elems(<<>>) = {}
  BY QuietTurns
<1>2. OrderInv'
  BY <1>1, OrderTurn DEF FlashInv, RestInv
<1>3. PICK t : t = <<>>
  OBVIOUS
<1>4. Turns(t, {}) /\ \A c \in Elems(t) : c.cb # "Meta"
  BY <1>1, <1>3
<1>. QED
  BY <1>2, <1>4, TurnFrame

\* A turn of REQ or GC that issues no program.
LEMMA NoPgmFlash ==
  ASSUME RestInv, FlashInv, ~Opening, UNCHANGED <<mctx, mt, os, us>>,
         NEW t, NEW P, Turns(t, P), "Meta" \notin P,
         \A c \in Elems(t) : c.cb # "Meta" /\ c.op # "PGM", RoomInv'
  PROVE  FlashInv'
<1>1. OrderInv'
  BY OrderTurn DEF FlashInv, RestInv
<1>. QED
  BY <1>1, TurnFrame

LEMMA ReqReadFlash ==
  ASSUME MapInv, RestInv, AllocInv, FlashInv, NEW r, NEW at, Handling(r, at), ReqReadMapped(r, at)
  PROVE  FlashInv'
<1> DEFINE c == UserCmd(ReadCmd("User", META_GetMap(r.lpn).blk, META_GetMap(r.lpn).wl), r)
<1>0. ~Opening /\ IoTypes
  BY ReqWorks
<1>1. GoodCmd(c) /\ c.cb = "User" /\ c.op = "READ"
  <2>1. PICK d : d = ReadCmd("User", META_GetMap(r.lpn).blk, META_GetMap(r.lpn).wl)
    OBVIOUS
  <2>2. GoodCmd(d) /\ d.cb = "User" /\ d.op = "READ"
    BY <2>1, PlainCmds, KeysDiffer
  <2>3. r.cmd # "shutdown"
    BY DEF ReqReadMapped
  <2>. QED
    BY <2>1, <2>2, <2>3, WithReq
<1>2. Issue(<<c>>) /\ UNCHANGED <<die, done>>
      /\ UNCHANGED <<opn, mctx, mt, os, us, mv, gcSt, erb>>
  BY DEF ReqReadMapped, otherThanReq, mapVars, openVars, gcVars
<1> HIDE DEF c
<1>3. Turns(<<c>>, {}) /\ Elems(<<c>>) = {c}
  BY <1>0, <1>1, <1>2, IssueTurn, OneFacts
<1>4. RoomInv'
  BY <1>2, RoomFrame DEF FlashInv, Loaded
<1>. QED
  BY <1>0, <1>1, <1>2, <1>3, <1>4, NoPgmFlash

\* The erase of a block from the pool is issued.
LEMMA ErbStartFlash ==
  ASSUME RestInv, AllocInv, FlashInv, ~Opening, NEW o \in OpenType, NEW b, NEW trig,
         ErbStart(o, b, trig), UNCHANGED <<die, done, opn, mctx, mt, os, us, mv>>,
         gcSt' = gcSt \/ gcSt' \notin {"WaitOpen", "Move"}
  PROVE  FlashInv'
<1> DEFINE c == EraseCmd(ErbKey(o), b)
<1>1. GoodCmd(c) /\ c.cb # "Meta" /\ c.op # "PGM" /\ IoTypes /\ AddrInv
  BY PlainCmds, StreamsDiffer DEF RestInv
<1>2. Issue(<<c>>) /\ UNCHANGED <<die, done>>
      /\ erb' = [erb EXCEPT ![o] = [step |-> "WaitErb", blk |-> b, age |-> 0]]
  BY DEF ErbStart
<1> HIDE DEF c
<1>3. Turns(<<c>>, {}) /\ Elems(<<c>>) = {c}
  BY <1>1, <1>2, IssueTurn, OneFacts
<1>4. \A u \in OpenType : erb'[u] = erb[u] \/ erb'[u].step \in {"Init", "WaitErb"}
  <2>1. erb = [u \in OpenType |-> erb[u]]
    BY <1>1 DEF AddrInv
  <2>2. erb'[o].step = "WaitErb" /\ \A u \in OpenType \ {o} : erb'[u] = erb[u]
    BY <1>2, <2>1
  <2>. QED
    BY <2>2
<1>5. RoomInv'
  BY <1>4, RoomFrame DEF FlashInv, Loaded
<1>. QED
  BY <1>1, <1>3, <1>5, NoPgmFlash

\* A call of the erase machine: when the erase is over, its block is erased.
LEMMA ErbGoesFlash ==
  ASSUME RestInv, AllocInv, FlashInv, ~Opening, NEW o \in OpenType, ErbGoesOn(o), Erasing(o),
         UNCHANGED <<opn, mctx, mt, os, us, mv>>,
         gcSt' = gcSt
  PROVE  FlashInv'
<1>0. IoTypes /\ AddrInv /\ IsErb(erb[o]) /\ erb = [u \in OpenType |-> erb[u]]
  BY DEF RestInv, AddrInv
<1>1. CASE ErbWait(o)
  <2>1. UNCHANGED ioVars /\ erb' = erb
    BY <1>1 DEF ErbWait
  <2>. QED
    BY <2>1, QuietFlash
<1>2. ASSUME ErasedFrom(erb[o].blk, 0), NEW trig, ErbJournal(o, trig), die' = die
      PROVE  RoomInv'
  <2>1. /\ erb' = [erb EXCEPT ![o].step = "WaitMtSave", ![o].age = mctx.age]
           \/ erb' = [erb EXCEPT ![o].step = "WaitJnlAdd"]
    BY <1>2 DEF ErbJournal
  <2>2. erb'[o].blk = erb[o].blk /\ \A u \in OpenType \ {o} : erb'[u] = erb[u]
    BY <1>0, <2>1 DEF IsErb
  <2>3. \A u \in OpenType : erb'[u].step \in {"WaitJnlAdd", "WaitMtSave"} => ErasedFrom(erb'[u].blk, 0)
    BY <1>2, <2>2 DEF FlashInv, RoomInv
  <2>. QED
    BY <1>2, <2>3 DEF FlashInv, RoomInv, ErasedFrom, Loaded
<1>3. CASE ErbRetry(o)
  <2>1. ErbJournal(o, {}) /\ UNCHANGED ioVars /\ die' = die /\ ErasedFrom(erb[o].blk, 0)
    BY <1>3 DEF ErbRetry, ioVars, FlashInv, RoomInv
  <2>2. RoomInv'
    BY <1>2, <2>1
  <2>. QED
    BY <2>1, <2>2, StillFlash
<1>4. CASE ErbErased(o)
  <2> DEFINE k == ErbKey(o)
  <2>1. k \in CbKey /\ k # "Meta" /\ HasDone(k) /\ PopDone(k) /\ UNCHANGED <<die, nq>>
    BY <1>4, StreamsDiffer DEF ErbErased
  <2>2. DoneHead(k) \in Elems(done[k])
    <3>1. IsSeq(done[k]) /\ done[k] # <<>>
      BY <1>0, <2>1 DEF IoTypes, GoodCmds, HasDone
    <3>. QED
      BY <3>1, TailFacts DEF DoneHead
  <2>3. DoneHead(k).op = "ERB"
    <3>1. Cnt[k][DoneHead(k).op] > 0 /\ DoneHead(k).op \in Ops
      BY <1>0, <2>1, HeadUnder
    <3>2. Cnt[k]["READ"] = 0 /\ Cnt[k]["PGM"] = 0
      BY DEF Erasing, Cnts
    <3>. QED
      BY <3>1, <3>2 DEF Ops
  <2>4. DoneHead(k).blk = erb[o].blk
    <3>1. DoneHead(k) \in Erbs(k)
      BY <1>0, <2>1, <2>2, <2>3, DoneIsUnder DEF Erbs
    <3>. QED
      BY <3>1 DEF AllocInv, UserCmds
  <2>5. ErasedFrom(erb[o].blk, 0)
    BY <2>1, <2>2, <2>3, <2>4 DEF FlashInv, DoneInv
  <2>6. ErbJournal(o, {"IO_FREE"})
    BY <1>4 DEF ErbErased
  <2>7. RoomInv'
    BY <1>2, <2>1, <2>5, <2>6
  <2> HIDE DEF k
  <2>8. Turns(<<>>, {k}) /\ Elems(<<>>) = {}
    BY <1>0, <2>1, PopTurn, NoneFacts
  <2>9. PICK t : t = <<>>
    OBVIOUS
  <2>10. PICK P : P = {k}
    OBVIOUS
  <2>11. Turns(t, P) /\ "Meta" \notin P /\ \A c \in Elems(t) : c.cb # "Meta" /\ c.op # "PGM"
    BY <2>1, <2>8, <2>9, <2>10
  <2>. QED
    BY <2>7, <2>11, NoPgmFlash
<1>. QED
  BY <1>1, <1>3, <1>4 DEF ErbGoesOn

\* Whose program it is tells where it goes.
LEMMA PgmIs ==
  ASSUME RestInv, AllocInv, FlashInv, NEW d \in Elems(nq), d.op = "PGM"
  PROVE  /\ d.cb \in {"User", "Mig", "Meta"}
         /\ d.cb = "User" => UserOpen /\ d.blk = opn["USER"].blk /\ d.blk \in UBlk
                             /\ d.wl \in Nat /\ d.wl + 1 = opn["USER"].wl
         /\ d.cb = "Mig" => GcOpen /\ GcBlk = mv.dst /\ d.blk = mv.dst /\ d.blk \in UBlk
                            /\ d.wl \in Nat /\ d.wl < mv.dwl
         /\ d.cb = "Meta" => d.blk = MtBlk2PBN(mctx.bo) /\ d.blk \in MBlk /\ d.wl = mctx.wl
                             /\ d.wl \in WL /\ ~IsErased(d.pg)
<1>1. IoTypes /\ d.cb \in CbKey /\ d \in Pgms(d.cb)
  BY QueuedIsUnder DEF RestInv, Pgms
<1>2. d.cb # "UErs"
  <2>1. Pgms("UErs") = {}
    BY <1>1, NoPgms, KeysDiffer DEF RestInv, ErbInv, Cnts
  <2>. QED
    BY <1>1, <2>1
<1>3. ASSUME d.cb = "User"
      PROVE  UserOpen /\ d.blk = opn["USER"].blk /\ d.blk \in UBlk
             /\ d.wl \in Nat /\ d.wl + 1 = opn["USER"].wl
  <2>1. Pgms("User") # {} /\ d \in Pgms("User")
    BY <1>1, <1>3
  <2>. QED
    BY <2>1 DEF AllocInv, UserCmds, OpenInv, UserOpen
<1>4. ASSUME d.cb = "Mig"
      PROVE  GcOpen /\ GcBlk = mv.dst /\ d.blk = mv.dst /\ d.blk \in UBlk
             /\ d.wl \in Nat /\ d.wl < mv.dwl
  <2>1. Pgms("Mig") # {} /\ d \in Pgms("Mig")
    BY <1>1, <1>4
  <2>2. gcSt # "WaitOpen"
    BY <2>1, TypesCorollary
  <2>3. GcOpen /\ GcBlk = mv.dst
    BY <2>1, <2>2 DEF GcOpen, GcBlk
  <2>. QED
    BY <2>1, <2>3 DEF AllocInv, UserCmds, OpenInv
<1>5. ASSUME d.cb = "Meta"
      PROVE  d.blk = MtBlk2PBN(mctx.bo) /\ d.blk \in MBlk /\ d.wl = mctx.wl
             /\ d.wl \in WL /\ ~IsErased(d.pg)
  <2>1. d \in Pgms("Meta")
    BY <1>1, <1>5
  <2>. QED
    BY <2>1, RingBlk DEF FlashInv, MetaCmds, RingInv, AllocInv, RingAddr
<1>. QED
  BY <1>1, <1>2, <1>3, <1>4, <1>5 DEF CbKey

LEMMA ReqNeedsBlkFlash ==
  ASSUME MapInv, RestInv, AllocInv, FlashInv, NEW r, NEW at, Handling(r, at), ReqNeedsBlk(r, at)
  PROVE  FlashInv'
<1>0. ~Opening /\ "USER" \in OpenType
  BY ReqWorks DEF OpenType
<1>1. UNCHANGED <<die, done, opn, mctx, mt, os, us, gcSt, mv>>
  BY DEF ReqNeedsBlk, mapVars, openVars
<1>2. CASE ReqMayTake
  <2>1. ErbStart("USER", Head(pool), BlkReqEvt)
    BY <1>2 DEF ReqNeedsBlk
  <2>2. PICK b : b = Head(pool)
    OBVIOUS
  <2>3. PICK trig : trig = BlkReqEvt
    OBVIOUS
  <2>4. ErbStart("USER", b, trig)
    BY <2>1, <2>2, <2>3
  <2>. QED
    BY <1>0, <1>1, <2>4, ErbStartFlash
<1>3. CASE ~ReqMayTake
  <2>1. UNCHANGED ioVars /\ erb' = erb
    BY <1>3 DEF ReqNeedsBlk, ioVars
  <2>. QED
    BY <1>1, <2>1, QuietFlash
<1>. QED
  BY <1>2, <1>3

LEMMA ReqErasingFlash ==
  ASSUME MapInv, RestInv, AllocInv, FlashInv, NEW r, NEW at, Handling(r, at), ReqErasing(r, at)
  PROVE  FlashInv'
<1>0. ~Opening /\ "USER" \in OpenType
  BY ReqWorks DEF OpenType
<1>1. Erasing("USER")
  BY DEF RestInv, ErbInv, Erasing, ErbKey
<1>2. ErbGoesOn("USER") /\ UNCHANGED <<opn, mctx, mt, os, us, gcSt, mv>>
  BY DEF ReqErasing, mapVars, openVars
<1>. QED
  BY <1>0, <1>1, <1>2, ErbGoesFlash

LEMMA ReqNewBlkFlash ==
  ASSUME MapInv, RestInv, AllocInv, FlashInv, NEW r, NEW at, Handling(r, at), ReqNewBlk(r, at)
  PROVE  FlashInv'
<1>0. ~Opening /\ "USER" \in OpenType /\ "GC" \in OpenType /\ AddrInv
  BY ReqWorks DEF OpenType, RestInv
<1>1. /\ erb'["USER"].step = "Init" /\ \A u \in OpenType \ {"USER"} : erb'[u] = erb[u]
      /\ opn'["USER"] = VAddr(erb["USER"].blk, 0) /\ \A u \in OpenType \ {"USER"} : opn'[u] = opn[u]
  BY <1>0, OpenedPool DEF ReqNewBlk, AllocInv
<1>2. ErasedFrom(erb["USER"].blk, 0)
  BY <1>0 DEF ReqNewBlk, ErbOver, FlashInv, RoomInv
<1>3. UNCHANGED ioVars /\ UNCHANGED <<mctx, mt, os, us, gcSt, mv>> /\ die' = die
  BY DEF ReqNewBlk, openVars, ioVars
<1>4. RoomInv'
  <2>1. ErasedFrom(opn["USER"].blk, opn["USER"].wl)'
    BY <1>1, <1>2, <1>3 DEF VAddr, ErasedFrom
  <2>2. opn'["GC"] = opn["GC"] /\ erb'["GC"] = erb["GC"]
    BY <1>1, StreamsDiffer
  <2>. QED
    BY <1>1, <1>3, <2>1, <2>2, StreamsDiffer DEF FlashInv, RoomInv, ErasedFrom, Loaded
<1>. QED
  BY <1>0, <1>3, <1>4, StillFlash

LEMMA ReqProgramFlash ==
  ASSUME MapInv, RestInv, AllocInv, FlashInv, NEW r, NEW at, Handling(r, at), ReqProgram(r, at)
  PROVE  FlashInv'
<1> DEFINE c == UserCmd(PgmCmd("User", opn["USER"].blk, opn["USER"].wl, DataPage(r.lpn, r.ver)), r)
<1>0. ~Opening /\ IoTypes /\ AddrInv /\ HostInv /\ "USER" \in OpenType /\ "GC" \in OpenType
      /\ r.cmd = "write" /\ Loaded
  BY ReqWorks, NotOpening DEF AllocInv, ReqProgram, RestInv, OpenType
<1>1. opn["USER"].wl \in Nat /\ opn["USER"].wl < NUM_WL /\ UserOpen
      /\ opn["USER"] = VAddr(opn["USER"].blk, opn["USER"].wl)
  BY <1>0, SizeAssumption DEF ReqProgram, UserBlkFull, AddrInv, IsNext, UserOpen, InUse
<1>2. opn["USER"].blk \in UBlk
  BY <1>1 DEF AllocInv, OpenInv
<1>3. GoodCmd(c) /\ c.cb = "User" /\ c.op = "PGM" /\ c.blk = opn["USER"].blk /\ c.wl = opn["USER"].wl
  <2>1. PICK d : d = PgmCmd("User", opn["USER"].blk, opn["USER"].wl, DataPage(r.lpn, r.ver))
    OBVIOUS
  <2>2. GoodCmd(d) /\ d.cb = "User" /\ d.op = "PGM"
    BY <2>1, <1>2, UserPgm, KeysDiffer
  <2>3. d.blk = opn["USER"].blk /\ d.wl = opn["USER"].wl
    BY <2>1 DEF PgmCmd, Cmd
  <2>4. c = UserCmd(d, r)
    BY <2>1
  <2>5. GoodCmd(UserCmd(d, r)) /\ UserCmd(d, r).cb = d.cb /\ UserCmd(d, r).op = d.op
    BY <1>0, <2>2, WithReq
  <2>6. UserCmd(d, r).blk = d.blk /\ UserCmd(d, r).wl = d.wl
    BY <2>2 DEF UserCmd, GoodCmd
  <2>. QED
    BY <2>2, <2>3, <2>4, <2>5, <2>6
<1>4. Issue(<<c>>) /\ UNCHANGED <<die, done>>
      /\ UNCHANGED <<mctx, mt, os, us, gcSt, mv, erb>>
      /\ opn' = [opn EXCEPT !["USER"].wl = @ + 1]
  BY DEF ReqProgram, openVars, gcVars
<1> HIDE DEF c
<1>5. Turns(<<c>>, {}) /\ Elems(<<c>>) = {c}
  BY <1>0, <1>3, <1>4, IssueTurn, OneFacts
<1>6. ErasedFrom(c.blk, c.wl)
  BY <1>0, <1>1, <1>3 DEF FlashInv, RoomInv
<1>7. ASSUME NEW d \in Elems(nq), d.op = "PGM"
      PROVE  d.blk # c.blk
  <2>1. d.cb # "User"
    <3>1. Under["User"] = {}
      BY <1>0, NoneOfUser
    <3>2. d \in Under[d.cb]
      BY <1>0, QueuedIsUnder
    <3>. QED
      BY <3>1, <3>2
  <2>2. CASE d.cb = "Mig"
    BY <2>2, <1>1, <1>3, <1>7, PgmIs DEF AllocInv, OpenInv
  <2>3. CASE d.cb = "Meta"
    BY <2>3, <1>2, <1>3, <1>7, PgmIs, BlksDiffer
  <2>. QED
    BY <2>1, <2>2, <2>3, <1>7, PgmIs
<1>8. OrderInv'
  BY <1>0, <1>5, <1>6, <1>7, OrderPgm DEF FlashInv
<1>9. opn'["GC"] = opn["GC"] /\ opn'["USER"].blk = opn["USER"].blk /\ opn'["USER"].wl = opn["USER"].wl + 1
  <2>1. PICK a : a = opn["USER"]
    OBVIOUS
  <2>2. a = VAddr(a.blk, a.wl)
    BY <2>1, <1>1
  <2>3. opn' = [opn EXCEPT !["USER"] = [a EXCEPT !.wl = @ + 1]]
    BY <1>4, <2>1
  <2>4. [a EXCEPT !.wl = @ + 1].blk = a.blk /\ [a EXCEPT !.wl = @ + 1].wl = a.wl + 1
    BY <2>2 DEF VAddr
  <2>. QED
    BY <2>1, <2>3, <2>4, <1>0, StreamsDiffer DEF AddrInv
<1>10. RoomInv'
  <2>1. ErasedFrom(opn["USER"].blk, opn["USER"].wl)'
    <3>1. \A v \in WL : v >= opn["USER"].wl => IsErased(die[opn["USER"].blk][v])
      BY <1>3, <1>6 DEF ErasedFrom
    <3>2. \A v \in WL : v >= opn["USER"].wl + 1 => IsErased(die[opn["USER"].blk][v])
      BY <1>1, <3>1, SizeAssumption DEF WL
    <3>. QED
      BY <1>4, <1>9, <3>2 DEF ErasedFrom
  <2>. QED
    BY <1>4, <1>9, <2>1 DEF FlashInv, RoomInv, ErasedFrom, Loaded
<1>. QED
  BY <1>0, <1>3, <1>4, <1>5, <1>8, <1>10, TurnFrame, KeysDiffer

\* What REQ does without the flash; a shutdown stops GC.
LEMMA ReqStaysFlash ==
  ASSUME MapInv, RestInv, AllocInv, FlashInv, NEW r, NEW at, Handling(r, at),
         \/ ShutdownWaitIo(r, at) \/ ShutdownSudden(r, at) \/ ShutdownSave(r, at)
         \/ ShutdownSaving(r, at) \/ ShutdownSaved(r, at) \/ ReqJnlBusy(r, at)
         \/ ReqReadUnmapped(r, at)
  PROVE  FlashInv'
<1>0. ~Opening
  BY ReqWorks
<1>1. UNCHANGED ioVars /\ UNCHANGED <<opn, mctx, mt, os, us, mv, erb>>
      /\ (gcSt' = gcSt \/ gcSt' = "Stop")
  BY DEF ShutdownWaitIo, ShutdownSudden, ShutdownSave, ShutdownSaving, ShutdownSaved, ReqJnlBusy,
         ReqReadUnmapped, otherThanReq, mapVars, openVars, gcVars, StopGc
<1>2. RoomInv'
  BY <1>1, RoomFrame DEF FlashInv, Loaded, ioVars
<1>. QED
  BY <1>0, <1>1, <1>2, StillFlash

LEMMA RespFlash ==
  ASSUME MapInv, RestInv, AllocInv, FlashInv, ReqResp_Run
  PROVE  FlashInv'
<1>0. IoTypes
  BY DEF RestInv
<1>1. CASE RespWait
  BY <1>1, QuietFlash DEF RespWait, otherThanReq, mapVars, openVars, gcVars
<1>2. CASE RespDone
  <2>1. HasDone("User") /\ PopDone("User") /\ UNCHANGED <<die, nq>>
        /\ UNCHANGED <<opn, mctx, mt, os, us, gcSt, mv, erb>>
    BY <1>2 DEF RespDone, openVars, gcVars
  <2>2. ~Opening
    <3>1. DoneHead("User") \in Under["User"]
      BY <1>0, <2>1, HeadUnder, KeysDiffer
    <3>. QED
      BY <3>1 DEF AllocInv, HostInv
  <2>3. Turns(<<>>, {"User"}) /\ Elems(<<>>) = {}
    BY <1>0, <2>1, PopTurn, NoneFacts, KeysDiffer
  <2>4. PICK t : t = <<>>
    OBVIOUS
  <2>5. PICK P : P = {"User"}
    OBVIOUS
  <2>6. Turns(t, P) /\ "Meta" \notin P /\ \A c \in Elems(t) : c.cb # "Meta" /\ c.op # "PGM"
    BY <2>3, <2>4, <2>5
  <2>7. RoomInv'
    BY <2>1, RoomFrame DEF FlashInv, Loaded
  <2>. QED
    BY <2>1, <2>2, <2>6, <2>7, NoPgmFlash
<1>. QED
  BY <1>1, <1>2 DEF ReqResp_Run

LEMMA ReqFlash ==
  ASSUME MapInv, RestInv, AllocInv, FlashInv, Req_Run
  PROVE  FlashInv'
<1>1. CASE ReqWaitOpen \/ ReqOpened \/ ReqIdle
  BY <1>1, QuietFlash
     DEF ReqWaitOpen, ReqOpened, ReqIdle, otherThanReq, mapVars, openVars, gcVars
<1>2. ASSUME NEW r, NEW at, Handling(r, at), ReqStep(r, at)
      PROVE  FlashInv'
  BY <1>2, ReqReadFlash, ReqNeedsBlkFlash, ReqErasingFlash, ReqNewBlkFlash, ReqProgramFlash,
     ReqStaysFlash DEF ReqStep
<1>. QED
  BY <1>1, <1>2 DEF Req_Run

-----------------------------------------------------------------------------
(* GC.                                                                     *)

\* What GC does without the flash, while it keeps the place it moves to.
LEMMA GcStaysFlash ==
  ASSUME MapInv, RestInv, AllocInv, FlashInv,
         GcWaitOpen \/ GcMoveWait \/ GcOpened \/ GcWaitReq \/ GcDstFull \/ GcNewSrc \/ GcSrcDone
  PROVE  FlashInv'
<1>1. CASE GcWaitOpen \/ GcMoveWait
  BY <1>1, QuietFlash DEF GcWaitOpen, GcMoveWait, otherThanGc, gcVars, openVars
<1>2. CASE GcOpened \/ GcWaitReq \/ GcDstFull \/ GcNewSrc \/ GcSrcDone
  <2>1. ~Opening
    BY <1>2 DEF GcOpened, GcWaitReq, GcDstFull, GcNewSrc, GcSrcDone, Collected, META_Ready,
           MapInv, Opening
  <2>2. UNCHANGED ioVars /\ UNCHANGED <<opn, mctx, mt, os, us, erb>> /\ die' = die
    BY <1>2 DEF GcOpened, GcWaitReq, GcDstFull, GcNewSrc, GcSrcDone, otherThanGc, openVars, ioVars
  <2>3. /\ gcSt' # "WaitOpen"
        /\ gcSt' = "Move" => gcSt = "Move" /\ mv'.dst = mv.dst /\ mv'.dwl = mv.dwl
    <3>1. IsMv(mv)
      BY DEF RestInv, MigInv
    <3>2. CASE GcOpened \/ GcWaitReq \/ GcDstFull
      BY <3>2 DEF GcOpened, GcWaitReq, GcDstFull
    <3>3. CASE GcNewSrc \/ GcSrcDone
      BY <3>1, <3>3 DEF GcNewSrc, GcSrcDone, Collected, IsMv, MvFields
    <3>. QED
      BY <1>2, <3>2, <3>3
  <2>4. RoomInv'
    BY <2>2, <2>3, RoomFrame DEF FlashInv, Loaded
  <2>. QED
    BY <2>1, <2>2, <2>4, StillFlash
<1>. QED
  BY <1>1, <1>2

LEMMA GcResumeFlash ==
  ASSUME MapInv, RestInv, AllocInv, FlashInv, GcResume
  PROVE  FlashInv'
<1>1. ~Opening /\ Loaded /\ UNCHANGED ioVars /\ die' = die /\ UNCHANGED <<opn, mctx, mt, os, us, erb>>
      /\ gcSt = "WaitOpen" /\ opn["GC"].wl < NUM_WL
  BY DEF GcResume, META_Ready, Opening, Loaded, otherThanGc, openVars, ioVars
<1>2. gcSt' = "Move" /\ mv'.dst = opn["GC"].blk /\ mv'.dwl = opn["GC"].wl
  BY MoveFields DEF GcResume
<1>3. RoomInv'
  BY <1>1, <1>2 DEF FlashInv, RoomInv, ErasedFrom, Loaded
<1>. QED
  BY <1>1, <1>3, StillFlash

LEMMA GcGetDstFlash ==
  ASSUME MapInv, RestInv, AllocInv, FlashInv, GcGetDst
  PROVE  FlashInv'
<1>1. ~Opening /\ "GC" \in OpenType
  BY DEF GcGetDst, MapInv, OpenType
<1>2. PICK b : b = Head(pool)
  OBVIOUS
<1>3. PICK trig : trig = {}
  OBVIOUS
<1>4. ErbStart("GC", b, trig) /\ UNCHANGED <<die, done, opn, mctx, mt, os, us, mv>>
      /\ gcSt' \notin {"WaitOpen", "Move"}
  BY <1>2, <1>3 DEF GcGetDst, otherThanGc, openVars
<1>. QED
  BY <1>1, <1>4, ErbStartFlash

LEMMA GcErsDstFlash ==
  ASSUME MapInv, RestInv, AllocInv, FlashInv, GcErsDst
  PROVE  FlashInv'
<1>1. ~Opening /\ "GC" \in OpenType
  BY DEF GcErsDst, MapInv, OpenType
<1>2. Erasing("GC")
  BY DEF GcErsDst, RestInv, MigInv, Erasing, ErbKey
<1>3. ErbGoesOn("GC") /\ UNCHANGED <<opn, mctx, mt, os, us, mv, gcSt>>
  BY DEF GcErsDst, openVars
<1>. QED
  BY <1>1, <1>2, <1>3, ErbGoesFlash

LEMMA GcErsDstDoneFlash ==
  ASSUME MapInv, RestInv, AllocInv, FlashInv, GcErsDstDone
  PROVE  FlashInv'
<1>0. ~Opening /\ "USER" \in OpenType /\ "GC" \in OpenType /\ AddrInv
  BY DEF GcErsDstDone, MapInv, OpenType, RestInv
<1>1. /\ erb'["GC"].step = "Init" /\ \A u \in OpenType \ {"GC"} : erb'[u] = erb[u]
      /\ \A u \in OpenType \ {"GC"} : opn'[u] = opn[u]
  BY <1>0, OpenedPool DEF GcErsDstDone, AllocInv
<1>2. ErasedFrom(erb["GC"].blk, 0)
  BY <1>0 DEF GcErsDstDone, ErbOver, FlashInv, RoomInv
<1>3. UNCHANGED ioVars /\ UNCHANGED <<mctx, mt, os, us>> /\ die' = die
      /\ gcSt' = "Move" /\ mv'.dst = erb["GC"].blk /\ mv'.dwl = 0
  BY MoveFields DEF GcErsDstDone, openVars, ioVars
<1>4. opn'["USER"] = opn["USER"] /\ erb'["USER"] = erb["USER"]
  BY <1>1, StreamsDiffer
<1>5. RoomInv'
  BY <1>1, <1>2, <1>3, <1>4, StreamsDiffer DEF FlashInv, RoomInv, ErasedFrom, Loaded
<1>. QED
  BY <1>0, <1>3, <1>5, StillFlash

LEMMA GcTakesFlash ==
  ASSUME MapInv, RestInv, AllocInv, FlashInv, GcPgmDone \/ GcReadDropped
  PROVE  FlashInv'
<1>0. IoTypes /\ IsMv(mv) /\ ~Opening
  BY DEF RestInv, MigInv, GcPgmDone, GcReadDropped, Moving, MapInv
<1>1. HasDone("Mig") /\ PopDone("Mig") /\ UNCHANGED <<die, nq, opn, mctx, mt, os, us, erb, gcSt>>
  BY DEF GcPgmDone, GcReadDropped, Moving, otherThanGc, openVars
<1>2. mv'.dst = mv.dst /\ mv'.dwl = mv.dwl
  BY <1>0 DEF GcPgmDone, GcReadDropped, IsMv, MvFields
<1>3. Turns(<<>>, {"Mig"}) /\ Elems(<<>>) = {}
  BY <1>0, <1>1, PopTurn, NoneFacts, KeysDiffer
<1>4. PICK t : t = <<>>
  OBVIOUS
<1>5. PICK P : P = {"Mig"}
  OBVIOUS
<1>6. Turns(t, P) /\ "Meta" \notin P /\ \A c \in Elems(t) : c.cb # "Meta" /\ c.op # "PGM"
  BY <1>3, <1>4, <1>5
<1>7. RoomInv'
  BY <1>1, <1>2, RoomFrame DEF FlashInv, Loaded
<1>. QED
  BY <1>0, <1>1, <1>6, <1>7, NoPgmFlash

LEMMA GcReadNextFlash ==
  ASSUME MapInv, RestInv, AllocInv, FlashInv, GcReadNext
  PROVE  FlashInv'
<1> DEFINE c == ReadCmd("Mig", mv.src, mv.swl)
<1>0. IoTypes /\ IsMv(mv) /\ ~Opening
  BY DEF RestInv, MigInv, GcReadNext, Collected, MapInv
<1>1. GoodCmd(c) /\ c.cb = "Mig" /\ c.op = "READ"
  BY PlainCmds, KeysDiffer
<1>2. Issue(<<c>>) /\ UNCHANGED <<die, done>> /\ UNCHANGED <<opn, mctx, mt, os, us, erb, gcSt>>
  BY DEF GcReadNext, otherThanGc, openVars
<1> HIDE DEF c
<1>3. Turns(<<c>>, {}) /\ Elems(<<c>>) = {c}
  BY <1>0, <1>1, <1>2, IssueTurn, OneFacts
<1>4. mv'.dst = mv.dst /\ mv'.dwl = mv.dwl
  BY <1>0 DEF GcReadNext, IsMv, MvFields
<1>5. RoomInv'
  BY <1>2, <1>4, RoomFrame DEF FlashInv, Loaded
<1>. QED
  BY <1>0, <1>1, <1>2, <1>3, <1>5, NoPgmFlash

\* The page read goes to the next page of the destination.
LEMMA GcReadMovedFlash ==
  ASSUME MapInv, RestInv, AllocInv, FlashInv, GcReadMoved
  PROVE  FlashInv'
<1> DEFINE c == PgmCmd("Mig", mv.dst, mv.dwl, DoneHead("Mig").pg)
<1>0. IoTypes /\ IsMv(mv) /\ ~Opening /\ gcSt = "Move" /\ gcSt' = "Move"
      /\ mv.dst \in UBlk /\ mv.dwl \in Nat
  BY DEF RestInv, MigInv, GcReadMoved, Moving, MapInv
<1>1. GoodCmd(c) /\ c.cb = "Mig" /\ c.op = "PGM" /\ c.blk = mv.dst /\ c.wl = mv.dwl
  <2>1. PICK pg : pg = DoneHead("Mig").pg
    OBVIOUS
  <2>2. c = PgmCmd("Mig", mv.dst, mv.dwl, pg)
    BY <2>1
  <2>3. PgmCmd("Mig", mv.dst, mv.dwl, pg).blk = mv.dst /\ PgmCmd("Mig", mv.dst, mv.dwl, pg).wl = mv.dwl
    BY DEF PgmCmd, Cmd
  <2>. QED
    BY <1>0, <2>2, <2>3, UserPgm, KeysDiffer
<1>2. HasDone("Mig") /\ PopDone("Mig") /\ Issue(<<c>>) /\ die' = die
      /\ UNCHANGED <<opn, mctx, mt, os, us, erb, gcSt>>
  BY DEF GcReadMoved, Moving, openVars
<1> HIDE DEF c
<1>3. Turns(<<c>>, {"Mig"}) /\ Elems(<<c>>) = {c}
  BY <1>0, <1>1, <1>2, PopIssueTurn, OneFacts, KeysDiffer
<1>4. ErasedFrom(c.blk, c.wl)
  BY <1>0, <1>1 DEF FlashInv, RoomInv
<1>5. GcOpen /\ GcBlk = mv.dst
  BY <1>0 DEF GcOpen, GcBlk
<1>6. ASSUME NEW d \in Elems(nq), d.op = "PGM", d.blk = c.blk
      PROVE  d.wl < c.wl
  <2>1. CASE d.cb = "User"
    BY <2>1, <1>1, <1>5, <1>6, PgmIs DEF AllocInv, OpenInv
  <2>2. CASE d.cb = "Mig"
    BY <2>2, <1>1, <1>6, PgmIs
  <2>3. CASE d.cb = "Meta"
    BY <2>3, <1>0, <1>1, <1>6, PgmIs, BlksDiffer
  <2>. QED
    BY <2>1, <2>2, <2>3, <1>6, PgmIs
<1>7. OrderInv'
  BY <1>0, <1>3, <1>4, <1>6, OrderPgm DEF FlashInv
<1>8. mv'.dst = mv.dst /\ mv'.dwl = mv.dwl + 1
  BY <1>0 DEF GcReadMoved, IsMv, MvFields
<1>9. RoomInv'
  <2>1. ErasedFrom(mv.dst, mv.dwl)'
    <3>1. \A v \in WL : v >= mv.dwl => IsErased(die[mv.dst][v])
      BY <1>1, <1>4 DEF ErasedFrom
    <3>2. \A v \in WL : v >= mv.dwl + 1 => IsErased(die[mv.dst][v])
      BY <1>0, <3>1, SizeAssumption DEF WL
    <3>. QED
      BY <1>2, <1>8, <3>2 DEF ErasedFrom
  <2>. QED
    BY <1>0, <1>2, <2>1 DEF FlashInv, RoomInv, ErasedFrom, Loaded
<1>10. PICK P : P = {"Mig"}
  OBVIOUS
<1>11. Turns(<<c>>, P) /\ "Meta" \notin P /\ \A d \in Elems(<<c>>) : d.cb # "Meta"
  BY <1>1, <1>3, <1>10
<1>. QED
  BY <1>0, <1>2, <1>7, <1>9, <1>11, TurnFrame

LEMMA GcStopFlash ==
  ASSUME MapInv, RestInv, AllocInv, FlashInv, GcStop
  PROVE  FlashInv'
<1>0. IoTypes /\ ~Opening
  BY DEF RestInv, GcStop, MapInv
<1>1. done' = [done EXCEPT !["Mig"] = <<>>] /\ UNCHANGED <<die, nq, opn, mctx, mt, os, us, erb, gcSt, mv>>
  BY DEF GcStop, otherThanGc, openVars, gcVars
<1>2. done'["Meta"] = done["Meta"] /\ \A k \in CbKey : Elems(done'[k]) \subseteq Elems(done[k])
  <2>1. \A k \in CbKey : done'[k] = done[k] \/ done'[k] = <<>>
    BY <1>0, <1>1 DEF IoTypes
  <2>2. Elems(<<>>) = {}
    BY NoneFacts
  <2>. QED
    BY <1>0, <1>1, <2>1, <2>2, KeysDiffer DEF IoTypes
<1>3. Keeps("Meta")
  BY <1>1, <1>2, KeysDiffer DEF Keeps, Pgms, Erbs, Under
<1>4. OrderInv'
  BY <1>1 DEF FlashInv, OrderInv, ErasedFrom
<1>5. RoomInv'
  BY <1>1, RoomFrame DEF FlashInv, Loaded
<1>. QED
  BY <1>0, <1>1, <1>2, <1>3, <1>4, <1>5, WriterFrame

LEMMA GcFlash ==
  ASSUME MapInv, RestInv, AllocInv, FlashInv, GC_Run
  PROVE  FlashInv'
  BY GcStaysFlash, GcResumeFlash, GcGetDstFlash, GcErsDstFlash, GcErsDstDoneFlash, GcTakesFlash,
     GcReadNextFlash, GcReadMovedFlash, GcStopFlash DEF GC_Run, GcMove

-----------------------------------------------------------------------------
(* The device executes the next command.                                   *)

Programs(c, b, w) == c.op = "PGM" /\ c.blk = b /\ c.wl = w
Erases(c, b)      == c.op = "ERB" /\ c.blk = b

\* What the command c does to the flash.
Executed(c) ==
  \A b \in Blk, w \in WL :
    /\ ~Programs(c, b, w) /\ ~Erases(c, b) => die'[b][w] = die[b][w]
    /\ Programs(c, b, w) => die'[b][w] = c.pg
    /\ Erases(c, b) => IsErased(die'[b][w])

LEMMA NandDoes ==
  ASSUME IoTypes, NandDone, NEW c, c = Head(nq)
  PROVE  /\ c \in Elems(nq) /\ GoodCmd(c) /\ c.op \in Ops /\ c.cb \in CbKey /\ Executed(c)
         /\ c.op = "READ" => die' = die
         /\ IsSeq(nq) /\ nq # <<>> /\ nq' = Tail(nq) /\ Elems(nq) = {c} \cup Elems(nq')
         /\ \A k \in CbKey \ {c.cb} : done'[k] = done[k]
         /\ done'[c.cb] = Append(done[c.cb], Answered(c))
         /\ Elems(done'[c.cb]) = Elems(done[c.cb]) \cup {Answered(c)}
<1>1. IsSeq(nq) /\ nq # <<>> /\ nq' = Tail(nq)
  BY DEF NandDone, IoTypes, GoodCmds
<1>2. c \in Elems(nq) /\ Elems(nq) = {c} \cup Elems(nq')
  BY <1>1, TailFacts
<1>3. GoodCmd(c) /\ c.op \in Ops /\ c.cb \in CbKey
  BY <1>2 DEF IoTypes, GoodCmds, GoodCmd
<1>4. /\ die' = CASE c.op = "ERB" -> [die EXCEPT ![c.blk] = [w \in WL |-> Erased]]
                  [] c.op = "PGM" -> [die EXCEPT ![c.blk][c.wl] = c.pg]
                  [] OTHER        -> die
      /\ done' = [done EXCEPT ![c.cb] = Append(@, Answered(c))]
  BY DEF NandDone, Answered
<1>5. die = [b \in Blk |-> [w \in WL |-> die[b][w]]] /\ done = [k \in CbKey |-> done[k]]
  BY DEF IoTypes
<1>6. \A k \in CbKey \ {c.cb} : done'[k] = done[k]
  BY <1>3, <1>4, <1>5
<1>7. done'[c.cb] = Append(done[c.cb], Answered(c))
  BY <1>3, <1>4, <1>5
<1>8. Elems(done'[c.cb]) = Elems(done[c.cb]) \cup {Answered(c)}
  <2>1. IsSeq(done[c.cb])
    BY <1>3 DEF IoTypes, GoodCmds
  <2>. QED
    BY <1>7, <2>1, AppendFacts
<1>9. c.op = "READ" => die' = die
  BY <1>4
<1>10. Executed(c)
  <2>1. CASE c.op = "ERB"
    <3>1. die' = [die EXCEPT ![c.blk] = [w \in WL |-> Erased]]
      BY <1>4, <2>1
    <3>. QED
      BY <1>5, <2>1, <3>1 DEF Executed, Programs, Erases, IsErased, Erased
  <2>2. CASE c.op = "PGM"
    <3>1. die' = [die EXCEPT ![c.blk] = [die[c.blk] EXCEPT ![c.wl] = c.pg]]
      BY <1>4, <2>2
    <3>. QED
      BY <1>5, <2>2, <3>1 DEF Executed, Programs, Erases
  <2>3. CASE c.op = "READ"
    BY <1>9, <2>3 DEF Executed, Programs, Erases
  <2>. QED
    BY <1>3, <2>1, <2>2, <2>3 DEF Ops
<1>. QED
  BY <1>1, <1>2, <1>3, <1>6, <1>7, <1>8, <1>9, <1>10

\* What stays erased.
LEMMA StaysErased ==
  ASSUME NEW c, Executed(c), NEW b \in Blk, NEW w, ErasedFrom(b, w),
         \A v \in WL : v >= w => ~Programs(c, b, v)
  PROVE  ErasedFrom(b, w)'
  BY DEF Executed, ErasedFrom

LEMMA StaysFilled ==
  ASSUME NEW c, Executed(c), NEW b \in Blk, NEW w, FilledTo(b, w),
         c.op = "READ" \/ c.blk # b
  PROVE  FilledTo(b, w)'
  BY DEF Executed, FilledTo, Programs, Erases

\* The blocks the device has.
LEMMA BlksAre == UBlk \subseteq Blk /\ MBlk \subseteq Blk
  BY SizeAssumption DEF UBlk, MBlk, Blk

\* Whose erase it is tells of which block.
LEMMA ErbIs ==
  ASSUME RestInv, AllocInv, FlashInv, NEW k \in CbKey, NEW d \in Erbs(k)
  PROVE  /\ k = "Meta" => d.blk \in MBlk
         /\ k # "Meta" => d.blk \in UBlk /\ bst[d.blk] = "InFree"
<1>1. k # "User"
  BY DEF AllocInv, UserCmds
<1>2. CASE k = "Meta"
  BY <1>2 DEF AllocInv, RingAddr
<1>3. CASE k # "Meta"
  <2>1. PICK o \in OpenType : k = ErbKey(o)
    BY <1>1, <1>3 DEF ErbKey, CbKey, OpenType
  <2>2. erb[o].step # "Init" /\ d.blk = erb[o].blk
    BY <2>1 DEF AllocInv, UserCmds
  <2>. QED
    BY <1>3, <2>2 DEF AllocInv, PoolInv, RestInv, AddrInv
<1>. QED
  BY <1>2, <1>3

\* No program goes to a block that is not open.
LEMMA PgmOpen ==
  ASSUME RestInv, AllocInv, FlashInv, NEW c \in Elems(nq), c.op = "PGM", c.blk \in UBlk
  PROVE  bst[c.blk] = "Open" /\ c.cb # "Meta"
<1>1. c.cb # "Meta"
  BY PgmIs, BlksDiffer
<1>2. CASE c.cb = "User"
  <2>1. UserOpen /\ c.blk = opn["USER"].blk
    BY <1>2, PgmIs
  <2>. QED
    BY <1>1, <2>1 DEF AllocInv, OpenInv
<1>3. CASE c.cb = "Mig"
  <2>1. GcOpen /\ c.blk = GcBlk
    BY <1>3, PgmIs
  <2>. QED
    BY <1>1, <2>1 DEF AllocInv, OpenInv
<1>4. c.cb \in {"User", "Mig", "Meta"}
  BY PgmIs
<1>. QED
  BY <1>1, <1>2, <1>3, <1>4

\* When META programs or erases it does one of both, and nothing else.
LEMMA MetaOne ==
  ASSUME RestInv, AllocInv, FlashInv
  PROVE  /\ Pgms("Meta") # {} => mt = "SaveProgram"
         /\ Erbs("Meta") # {} => mt = "SaveErase"
<1>1. IoTypes /\ MetaInv /\ "Meta" \in CbKey
  BY KeysDiffer DEF RestInv
<1>2. Pgms("Meta") = {} <=> Cnt["Meta"]["PGM"] = 0
  BY <1>1, NoPgms
<1>3. Erbs("Meta") = {} <=> Cnt["Meta"]["ERB"] = 0
  BY <1>1, NoPgms
<1>4. mt \in {"Init", "Open", "Ready", "SaveErase", "SaveProgram", "Assert"}
  BY <1>1 DEF MetaInv, SaveInv
<1>5. mt \in {"Open", "Assert"} => Pgms("Meta") = {} /\ Erbs("Meta") = {}
  BY DEF FlashInv, MetaCmds
<1>6. CASE mt \in {"Init", "Ready"}
  BY <1>1, <1>2, <1>3, <1>6 DEF MetaInv, SaveInv, Cnts
<1>7. CASE mt = "SaveErase"
  BY <1>1, <1>2, <1>3, <1>7 DEF MetaInv, SaveInv, Cnts
<1>8. CASE mt = "SaveProgram"
  BY <1>1, <1>2, <1>3, <1>8 DEF MetaInv, SaveInv, Cnts
<1>9. CASE mt = "Open"
  BY <1>5, <1>9
<1>. QED
  BY <1>4, <1>5, <1>6, <1>7, <1>8, <1>9

\* The commands of META are its reads while it opens.
LEMMA OpenReads ==
  ASSUME MapInv, RestInv, AllocInv, FlashInv, mt = "Open", NEW c \in Elems(nq)
  PROVE  c.cb = "Meta" /\ c.op = "READ"
<1>1. Opening /\ IoTypes
  BY DEF Opening, RestInv
<1>2. c.cb \in CbKey /\ c \in Under[c.cb] /\ c.op \in Ops
  BY <1>1, QueuedIsUnder DEF GoodCmd
<1>3. Under["User"] = {} /\ Under["Mig"] = {} /\ Under["UErs"] = {}
  <2>1. Cnts("Mig", 0, 0, 0) /\ Cnts("UErs", 0, 0, 0)
    BY <1>1, OpeningRests DEF RestInv, MigInv, ErbInv
  <2>. QED
    BY <1>1, <2>1, NoUnder, KeysDiffer DEF AllocInv, HostInv
<1>4. c.cb = "Meta" /\ c \in Under["Meta"]
  BY <1>2, <1>3 DEF CbKey
<1>5. c.op # "PGM" /\ c.op # "ERB"
  BY <1>4 DEF FlashInv, MetaCmds, Pgms, Erbs
<1>. QED
  BY <1>2, <1>4, <1>5 DEF Ops

\* The device's next command c, and what Nand leaves alone.
NandNext(c) ==
  /\ c = Head(nq) /\ NandDone
  /\ UNCHANGED <<opn, mctx, mt, os, us, gcSt, mv, erb, bst>>

LEMMA NandDone1 ==
  ASSUME RestInv, AllocInv, FlashInv, NEW c, NandNext(c)
  PROVE  DoneInv' /\ MetaCmds'
<1>0. IoTypes /\ c \in Elems(nq) /\ GoodCmd(c) /\ c.op \in Ops /\ c.cb \in CbKey /\ Executed(c)
  BY NandDoes DEF RestInv, NandNext
<1>1. DoneInv'
  <2>1. ASSUME NEW k \in CbKey, NEW d \in Elems(done[k]), d.op = "ERB"
        PROVE  ErasedFrom(d.blk, 0)'
    <3>1. ErasedFrom(d.blk, 0)
      BY <2>1 DEF FlashInv, DoneInv
    <3>2. d \in Erbs(k)
      BY <1>0, <2>1, DoneIsUnder DEF Erbs
    <3>3. d.blk \in Blk
      BY <3>2, ErbIs, BlksAre
    <3>4. ~(c.op = "PGM" /\ c.blk = d.blk)
      <4> SUFFICES ASSUME c.op = "PGM", c.blk = d.blk PROVE FALSE
        OBVIOUS
      <4>1. CASE k # "Meta"
        BY <1>0, <3>2, <4>1, ErbIs, PgmOpen
      <4>2. CASE k = "Meta"
        <5>1. c.cb = "Meta"
          BY <1>0, <3>2, <4>2, ErbIs, PgmIs, BlksDiffer
        <5>2. c \in Pgms("Meta")
          BY <1>0, <5>1, QueuedIsUnder DEF Pgms
        <5>. QED
          BY <3>2, <4>2, <5>2, MetaOne
      <4>. QED
        BY <4>1, <4>2
    <3>. QED
      BY <1>0, <3>1, <3>3, <3>4, StaysErased DEF Programs
  <2>2. ASSUME c.op = "ERB"
        PROVE  ErasedFrom(c.blk, 0)'
    <3>1. c \in Erbs(c.cb)
      BY <1>0, <2>2, QueuedIsUnder DEF Erbs
    <3>2. c.blk \in Blk
      BY <1>0, <3>1, ErbIs, BlksAre
    <3>. QED
      BY <1>0, <2>2, <3>2 DEF Executed, ErasedFrom, Erases
  <2>3. Answered(c).op = c.op /\ Answered(c).blk = c.blk
    BY <1>0, AnsweredIsGood
  <2>4. ASSUME NEW k \in CbKey, NEW d \in Elems(done'[k]), d.op = "ERB"
        PROVE  ErasedFrom(d.blk, 0)'
    <3>1. d \in Elems(done[k]) \/ d = Answered(c)
      <4>1. \A j \in CbKey \ {c.cb} : done'[j] = done[j]
        BY <1>0, NandDoes DEF NandNext
      <4>2. Elems(done'[c.cb]) = Elems(done[c.cb]) \cup {Answered(c)}
        BY <1>0, NandDoes DEF NandNext
      <4>. QED
        BY <2>4, <4>1, <4>2
    <3>. QED
      BY <2>1, <2>2, <2>3, <2>4, <3>1
  <2>. QED
    BY <2>4 DEF DoneInv
<1>2. MetaCmds'
  <2>1. Keeps("Meta")
    BY <1>0, NandKeepsCmds, KeysDiffer DEF NandNext
  <2>. QED
    BY <2>1 DEF NandNext, FlashInv, MetaCmds, Keeps
<1>. QED
  BY <1>1, <1>2

\* A block from w on stays erased unless c programs there.
LEMMA NandErased ==
  ASSUME RestInv, AllocInv, FlashInv, NEW c, NandNext(c), NEW b \in Blk, NEW w \in Nat,
         ErasedFrom(b, w), c.op = "PGM" /\ c.blk = b => c.wl \in Nat /\ c.wl < w
  PROVE  ErasedFrom(b, w)'
<1>1. Executed(c)
  BY NandDoes DEF RestInv, NandNext
<1>2. \A v \in WL : v >= w => ~Programs(c, b, v)
  BY SizeAssumption DEF Programs, WL
<1>. QED
  BY <1>1, <1>2, StaysErased

LEMMA NandOrder ==
  ASSUME RestInv, AllocInv, FlashInv, NEW c, NandNext(c)
  PROVE  OrderInv'
<1>0. IoTypes /\ c \in Elems(nq) /\ IsSeq(nq) /\ nq # <<>> /\ nq' = Tail(nq) /\ c = nq[1]
      /\ 1 \in DOMAIN nq
  BY NandDoes, TailAt DEF RestInv, NandNext
<1>1. \A i \in DOMAIN nq' : i + 1 \in DOMAIN nq /\ i + 1 # 1 /\ nq'[i] = nq[i + 1] /\ i \in Nat
  BY <1>0, TailAt
<1>2. ASSUME NEW i \in DOMAIN nq', nq'[i].op = "PGM"
      PROVE  \A v \in WL : v >= nq'[i].wl => IsErased(die'[nq'[i].blk][v])
  <2> DEFINE d == nq'[i]
  <2>1. d \in Elems(nq) /\ d = nq[i + 1] /\ d.op = "PGM" /\ i + 1 \in DOMAIN nq /\ 1 < i + 1
    BY <1>1, <1>2 DEF Elems
  <2>2. ErasedFrom(d.blk, d.wl)
    BY <2>1 DEF FlashInv, OrderInv
  <2>3. c.op = "PGM" /\ c.blk = d.blk => c.wl < d.wl
    BY <1>0, <2>1 DEF FlashInv, OrderInv
  <2> HIDE DEF d
  <2>4. d.blk \in Blk /\ d.wl \in Nat
    BY <2>1, PgmIs, BlksAre, SizeAssumption DEF WL
  <2>5. c.op = "PGM" => c.wl \in Nat
    BY <1>0, PgmIs, SizeAssumption DEF WL
  <2>6. PICK b : b = d.blk
    OBVIOUS
  <2>7. PICK w : w = d.wl
    OBVIOUS
  <2>8. ErasedFrom(b, w)'
    BY <2>2, <2>3, <2>4, <2>5, <2>6, <2>7, NandErased
  <2>. QED
    BY <2>6, <2>7, <2>8 DEF d, ErasedFrom
<1>3. ASSUME NEW i \in DOMAIN nq', NEW j \in DOMAIN nq', nq'[i].op = "PGM",
             i < j, nq'[j].op = "PGM", nq'[j].blk = nq'[i].blk
      PROVE  nq'[i].wl < nq'[j].wl
  <2>1. i + 1 < j + 1
    BY <1>1, <1>3
  <2>. QED
    BY <1>1, <1>3, <2>1 DEF FlashInv, OrderInv
<1>. QED
  BY <1>2, <1>3 DEF OrderInv, ErasedFrom

LEMMA NandRoom ==
  ASSUME RestInv, AllocInv, FlashInv, NEW c, NandNext(c)
  PROVE  RoomInv'
<1>0. IoTypes /\ c \in Elems(nq) /\ AddrInv /\ "USER" \in OpenType /\ "GC" \in OpenType
  BY NandDoes DEF RestInv, NandNext, OpenType
<1>1. ASSUME NEW o \in OpenType, erb[o].step \in {"WaitJnlAdd", "WaitMtSave"}
      PROVE  ErasedFrom(erb[o].blk, 0)'
  <2>1. erb[o].blk \in UBlk /\ bst[erb[o].blk] = "InFree" /\ ErasedFrom(erb[o].blk, 0)
    BY <1>0, <1>1 DEF AddrInv, AllocInv, PoolInv, FlashInv, RoomInv
  <2>2. PICK b : b = erb[o].blk
    OBVIOUS
  <2>3. ~(c.op = "PGM" /\ c.blk = b)
    BY <1>0, <2>1, <2>2, PgmOpen
  <2>4. ErasedFrom(b, 0)'
    BY <2>1, <2>2, <2>3, NandErased, BlksAre
  <2>. QED
    BY <2>2, <2>4 DEF NandNext, ErasedFrom
<1>2. ASSUME Loaded, opn["USER"].wl < NUM_WL
      PROVE  ErasedFrom(opn["USER"].blk, opn["USER"].wl)'
  <2>1. UserOpen /\ opn["USER"].wl \in Nat /\ ErasedFrom(opn["USER"].blk, opn["USER"].wl)
    BY <1>0, <1>2 DEF UserOpen, InUse, AddrInv, IsNext, FlashInv, RoomInv
  <2>2. opn["USER"].blk \in UBlk
    BY <2>1 DEF AllocInv, OpenInv
  <2>3. PICK b : b = opn["USER"].blk
    OBVIOUS
  <2>4. PICK w : w = opn["USER"].wl
    OBVIOUS
  <2>5. ASSUME c.op = "PGM", c.blk = b
        PROVE  c.wl \in Nat /\ c.wl < w
    <3>1. c.cb # "Meta"
      BY <1>0, <2>2, <2>3, <2>5, PgmOpen
    <3>2. c.cb # "Mig"
      <4>1. ASSUME c.cb = "Mig" PROVE GcOpen /\ GcBlk = c.blk
        BY <1>0, <2>5, <4>1, PgmIs
      <4>. QED
        BY <2>1, <2>3, <2>5, <4>1 DEF AllocInv, OpenInv
    <3>3. c.cb \in {"User", "Mig", "Meta"}
      BY <1>0, <2>5, PgmIs
    <3>4. c.wl \in Nat /\ c.wl + 1 = opn["USER"].wl
      BY <1>0, <2>5, <3>1, <3>2, <3>3, PgmIs
    <3>. QED
      BY <2>4, <3>4
  <2>6. ErasedFrom(b, w)'
    BY <2>1, <2>2, <2>3, <2>4, <2>5, NandErased, BlksAre
  <2>. QED
    BY <2>3, <2>4, <2>6 DEF NandNext, ErasedFrom
<1>3. ASSUME GcOpen, NEW b, NEW w \in Nat, b = GcBlk, ErasedFrom(b, w),
             (gcSt = "Move" /\ w = mv.dwl) \/ gcSt = "WaitOpen"
      PROVE  ErasedFrom(b, w)'
  <2>2. b \in UBlk
    BY <1>3 DEF AllocInv, OpenInv
  <2>5. ASSUME c.op = "PGM", c.blk = b
        PROVE  c.wl \in Nat /\ c.wl < w
    <3>1. c.cb # "Meta"
      BY <1>0, <2>2, <2>5, PgmOpen
    <3>2. c.cb # "User"
      <4>1. ASSUME c.cb = "User" PROVE UserOpen /\ opn["USER"].blk = c.blk
        BY <1>0, <2>5, <4>1, PgmIs
      <4>. QED
        BY <1>3, <2>5, <4>1 DEF AllocInv, OpenInv
    <3>3. c.cb \in {"User", "Mig", "Meta"}
      BY <1>0, <2>5, PgmIs
    <3>4. c.wl \in Nat /\ c.wl < mv.dwl /\ c \in Pgms("Mig")
      BY <1>0, <2>5, <3>1, <3>2, <3>3, PgmIs, QueuedIsUnder DEF Pgms
    <3>5. gcSt # "WaitOpen"
      BY <3>4, TypesCorollary
    <3>. QED
      BY <1>3, <3>4, <3>5
  <2>. QED
    BY <1>3, <2>2, <2>5, NandErased, BlksAre
<1>4. ASSUME Loaded, gcSt = "WaitOpen", opn["GC"].wl < NUM_WL
      PROVE  ErasedFrom(opn["GC"].blk, opn["GC"].wl)'
  <2>1. GcOpen /\ GcBlk = opn["GC"].blk /\ opn["GC"].wl \in Nat
        /\ ErasedFrom(opn["GC"].blk, opn["GC"].wl)
    BY <1>0, <1>4 DEF GcOpen, GcBlk, InUse, AddrInv, IsNext, FlashInv, RoomInv
  <2>2. PICK b : b = opn["GC"].blk
    OBVIOUS
  <2>3. PICK w : w = opn["GC"].wl
    OBVIOUS
  <2>4. ErasedFrom(b, w)'
    BY <1>3, <1>4, <2>1, <2>2, <2>3
  <2>. QED
    BY <2>2, <2>3, <2>4 DEF NandNext, ErasedFrom
<1>5. ASSUME gcSt = "Move"
      PROVE  ErasedFrom(mv.dst, mv.dwl)'
  <2>1. GcOpen /\ GcBlk = mv.dst /\ mv.dwl \in Nat /\ ErasedFrom(mv.dst, mv.dwl)
    BY <1>5 DEF GcOpen, GcBlk, RestInv, MigInv, FlashInv, RoomInv
  <2>2. PICK b : b = mv.dst
    OBVIOUS
  <2>3. PICK w : w = mv.dwl
    OBVIOUS
  <2>4. ErasedFrom(b, w)'
    BY <1>3, <1>5, <2>1, <2>2, <2>3
  <2>. QED
    BY <2>2, <2>3, <2>4 DEF NandNext, ErasedFrom
<1>. QED
  BY <1>1, <1>2, <1>4, <1>5 DEF RoomInv, NandNext, Loaded, ErasedFrom

\* A read is answered with the page as it is.
LEMMA AnswerIs ==
  ASSUME IoTypes, NandDone, NEW c, c = Head(nq), c.op = "READ"
  PROVE  die' = die /\ Answered(c).pg = die[c.blk][c.wl]
         /\ Answered(c).blk = c.blk /\ Answered(c).wl = c.wl
<1>1. GoodCmd(c) /\ die' = die
  BY NandDoes
<1>. QED
  BY <1>1 DEF Answered, GoodCmd

LEMMA NandLook ==
  ASSUME MapInv, RestInv, AllocInv, FlashInv, NEW c, NandNext(c)
  PROVE  LookInv'
<1>1. CASE ~Scanning
  BY <1>1 DEF LookInv, NandNext, Scanning, Phase
<1>2. CASE Scanning
  <2>1. IoTypes /\ c \in Elems(nq) /\ mt = "Open" /\ c = Head(nq) /\ NandDone
    BY <1>2, NandDoes DEF RestInv, NandNext, Scanning, Phase
  <2>2. c.cb = "Meta" /\ c.op = "READ"
    BY <2>1, OpenReads
  <2>3. die' = die /\ Answered(c).pg = die[c.blk][c.wl]
        /\ Answered(c).blk = c.blk /\ Answered(c).wl = c.wl
    BY <2>1, <2>2, AnswerIs
  <2>4. Elems(done'["Meta"]) = Elems(done["Meta"]) \cup {Answered(c)}
    BY <2>1, <2>2, NandDoes
  <2>5. ScanRead => ScanRead'
    BY <2>3, <2>4 DEF ScanRead, NandNext
  <2>6. /\ \A o \in OpenType : FillsUp(o) => FillsUp(o)'
        /\ ErasedFrom(opn["GC"].blk, opn["GC"].wl) => ErasedFrom(opn["GC"].blk, opn["GC"].wl)'
    BY <2>3 DEF FillsUp, NandNext, ErasedFrom
  <2>7. "GC" \in OpenType /\ "USER" \in OpenType
    BY DEF OpenType
  <2>. QED
    BY <2>5, <2>6, <2>7 DEF LookInv, NandNext, Scanning, Phase, FlashInv
<1>. QED
  BY <1>1, <1>2

\* Only META programs and erases the ring ...
LEMMA RingIsMeta ==
  ASSUME RestInv, AllocInv, FlashInv, NEW c \in Elems(nq), c.op # "READ", c.blk \in MBlk
  PROVE  c.cb = "Meta" /\ (c \in Pgms("Meta") \/ c \in Erbs("Meta"))
<1>1. IoTypes /\ c.cb \in CbKey /\ c \in Under[c.cb] /\ c.op \in Ops
  BY QueuedIsUnder DEF RestInv, GoodCmd
<1>2. CASE c.op = "PGM"
  <2>1. c.cb = "Meta"
    BY <1>2, PgmIs, BlksDiffer
  <2>. QED
    BY <1>1, <1>2, <2>1 DEF Pgms
<1>3. CASE c.op = "ERB"
  <2>1. c \in Erbs(c.cb)
    BY <1>1, <1>3 DEF Erbs
  <2>2. c.cb = "Meta"
    BY <1>1, <2>1, ErbIs, BlksDiffer
  <2>. QED
    BY <2>1, <2>2
<1>. QED
  BY <1>1, <1>2, <1>3 DEF Ops

\* ... and has one command under way when it does.
LEMMA MetaSole ==
  ASSUME RestInv, AllocInv, FlashInv, NEW c, NandNext(c), c.op # "READ", c.cb = "Meta",
         NEW d, d \in Elems(nq') \cup Elems(done["Meta"]), d.cb = "Meta", d.op = "PGM"
  PROVE  FALSE
<1>0. IoTypes /\ c \in Elems(nq) /\ c.op \in Ops /\ "Meta" \in CbKey /\ "PGM" \in Ops
      /\ nq # <<>> /\ IsSeq(nq) /\ nq' = Tail(nq) /\ c = Head(nq)
      /\ Elems(nq) = {c} \cup Elems(nq')
  BY NandDoes, KeysDiffer DEF RestInv, NandNext
<1>1. d \in Pgms("Meta")
  BY <1>0, QueuedIsUnder, DoneIsUnder DEF Pgms
<1>2. mt = "SaveProgram"
  BY <1>1, MetaOne
<1>3. c.op = "PGM"
  <2>1. c \in Under["Meta"]
    BY <1>0, QueuedIsUnder
  <2>2. c.op # "ERB"
    BY <1>2, <2>1, MetaOne DEF Erbs
  <2>. QED
    BY <1>0, <2>2 DEF Ops
<1>4. Cnt["Meta"]["PGM"] = 1
  BY <1>2 DEF RestInv, MetaInv, SaveInv, Cnts
<1> DEFINE n == Num(nq, {"Meta"}, "PGM")
           r == Num(Tail(nq), {"Meta"}, "PGM")
           m == Num(done["Meta"], CbKey, "PGM")
<1>5. n + m = 1 /\ n \in Nat /\ m \in Nat
  BY <1>0, <1>4, CntIs
<1>6. n = r + 1 /\ r \in Nat
  <2>1. Match(c, {"Meta"}, "PGM")
    BY <1>3 DEF Match
  <2>2. IsSeq(Tail(nq)) /\ n = r + (IF Match(Head(nq), {"Meta"}, "PGM") THEN 1 ELSE 0)
    BY <1>0, TailFacts
  <2>3. r \in Nat
    BY <2>2, NumType
  <2>. QED
    BY <1>0, <2>1, <2>2, <2>3
<1>7. CASE d \in Elems(nq')
  <2>1. Match(d, {"Meta"}, "PGM")
    BY DEF Match
  <2>2. IsSeq(Tail(nq))
    BY <1>0, TailFacts
  <2>3. r # 0
    BY <1>0, <1>7, <2>1, <2>2, NumType
  <2> HIDE DEF n, r, m
  <2>. QED
    BY <1>5, <1>6, <2>3
<1>8. CASE d \in Elems(done["Meta"])
  <2>1. Match(d, CbKey, "PGM")
    BY <1>0 DEF Match
  <2>2. IsSeq(done["Meta"])
    BY <1>0 DEF IoTypes, GoodCmds
  <2>3. m # 0
    BY <1>8, <2>1, <2>2, NumType
  <2> HIDE DEF n, r, m
  <2>. QED
    BY <1>5, <1>6, <2>3
<1>. QED
  BY <1>7, <1>8

\* What a program of META fills.
LEMMA FilledMore ==
  ASSUME NEW c, Executed(c), c.op = "PGM", c.blk \in Blk, c.wl \in WL, ~IsErased(c.pg),
         FilledTo(c.blk, c.wl)
  PROVE  \A v \in WL : IsErased(die'[c.blk][v]) <=> v >= c.wl + 1
<1> SUFFICES ASSUME NEW v \in WL PROVE IsErased(die'[c.blk][v]) <=> v >= c.wl + 1
  OBVIOUS
<1>1. v \in Int /\ c.wl \in Int
  BY SizeAssumption DEF WL
<1>2. CASE v = c.wl
  <2>1. die'[c.blk][v] = c.pg
    BY <1>2 DEF Executed, Programs
  <2>. QED
    BY <1>1, <1>2, <2>1
<1>3. CASE v # c.wl
  <2>1. die'[c.blk][v] = die[c.blk][v]
    BY <1>3 DEF Executed, Programs, Erases
  <2>2. IsErased(die[c.blk][v]) <=> v >= c.wl
    BY DEF FilledTo
  <2>. QED
    BY <1>1, <1>3, <2>1, <2>2
<1>. QED
  BY <1>2, <1>3

\* A block of the ring stays filled up to where it is, unless META works there.
LEMMA RingStays ==
  ASSUME RestInv, AllocInv, FlashInv, NEW c, NandNext(c), NEW b \in MBlk, NEW w,
         FilledTo(b, w), c.op = "READ" \/ c.cb # "Meta"
  PROVE  FilledTo(b, w)'
<1>1. Executed(c) /\ c \in Elems(nq)
  BY NandDoes DEF RestInv, NandNext
<1>2. c.op = "READ" \/ c.blk # b
  BY <1>1, RingIsMeta
<1>. QED
  BY <1>1, <1>2, StaysFilled, BlksAre

LEMMA NandRing ==
  ASSUME RestInv, AllocInv, FlashInv, NEW c, NandNext(c)
  PROVE  RingInv'
<1>0. IoTypes /\ c \in Elems(nq) /\ c.op \in Ops /\ c.cb \in CbKey /\ Executed(c) /\ RingInv
      /\ Elems(nq) = {c} \cup Elems(nq') /\ GoodCmd(c) /\ "Meta" \in CbKey /\ mctx.bo \in MOff
  BY NandDoes, KeysDiffer DEF RestInv, NandNext, FlashInv, AllocInv, RingAddr
<1>1. c.op = "PGM" /\ c.cb = "Meta" =>
        /\ c.blk \in MBlk /\ c.wl \in WL /\ ~IsErased(c.pg) /\ FilledTo(c.blk, c.wl)
        /\ \A v \in WL : IsErased(die'[c.blk][v]) <=> v >= c.wl + 1
  <2> SUFFICES ASSUME c.op = "PGM", c.cb = "Meta"
               PROVE  /\ c.blk \in MBlk /\ c.wl \in WL /\ ~IsErased(c.pg) /\ FilledTo(c.blk, c.wl)
                      /\ \A v \in WL : IsErased(die'[c.blk][v]) <=> v >= c.wl + 1
    OBVIOUS
  <2>1. c.blk \in MBlk /\ c.wl \in WL /\ ~IsErased(c.pg)
    BY <1>0, PgmIs
  <2>2. FilledTo(c.blk, c.wl)
    BY <1>0 DEF RingInv
  <2>3. c.blk \in Blk
    BY <2>1, BlksAre
  <2>. QED
    BY <1>0, <2>1, <2>2, <2>3, FilledMore
<1>2. ASSUME NEW b \in MBlk, NEW v \in WL, NEW w \in WL, v < w, IsErased(die'[b][v])
      PROVE  IsErased(die'[b][w])
  <2>1. v \in Int /\ w \in Int /\ b \in Blk
    BY SizeAssumption, BlksAre DEF WL
  <2>2. CASE c.op = "ERB" /\ c.blk = b
    BY <1>0, <2>1, <2>2 DEF Executed, Erases
  <2>3. CASE c.op = "PGM" /\ c.blk = b
    <3>1. c.cb = "Meta"
      BY <1>0, <2>3, RingIsMeta
    <3>2. c.wl \in Int
      BY <1>1, <2>3, <3>1, SizeAssumption DEF WL
    <3>. QED
      BY <1>1, <1>2, <2>1, <2>3, <3>1, <3>2
  <2>4. CASE c.op = "READ" \/ c.blk # b
    <3>1. die'[b][v] = die[b][v] /\ die'[b][w] = die[b][w]
      BY <1>0, <2>1, <2>4 DEF Executed, Programs, Erases
    <3>. QED
      BY <1>0, <1>2, <3>1 DEF RingInv
  <2>. QED
    BY <1>0, <2>2, <2>3, <2>4 DEF Ops
<1>3. ASSUME Pointed, mctx.wl # 0
      PROVE  FilledTo(MtBlk2PBN(mctx.bo), mctx.wl)'
  <2>1. PICK b : b = MtBlk2PBN(mctx.bo)
    OBVIOUS
  <2>2. PICK w : w = mctx.wl
    OBVIOUS
  <2>3. FilledTo(b, w) /\ b \in MBlk
    BY <1>0, <1>3, <2>1, <2>2, RingBlk DEF RingInv
  <2>4. mt # "SaveProgram" /\ mt # "SaveErase"
    BY <1>0, <1>3 DEF Pointed, RingInv, Phase, Scanning
  <2>5. c.op = "READ" \/ c.cb # "Meta"
    <3>1. Pgms("Meta") = {} /\ Erbs("Meta") = {}
      BY <2>4, MetaOne
    <3>2. c \in Under[c.cb]
      BY <1>0, QueuedIsUnder
    <3>. QED
      BY <1>0, <3>1, <3>2 DEF Pgms, Erbs, Ops
  <2>6. FilledTo(b, w)'
    BY <2>3, <2>5, RingStays
  <2>. QED
    BY <2>1, <2>2, <2>6 DEF NandNext, FilledTo
<1>4. ASSUME NEW d, d \in Elems(nq') \cup Elems(done["Meta"]), d.cb = "Meta", d.op = "PGM",
             NEW w, FilledTo(d.blk, w)
      PROVE  FilledTo(d.blk, w)'
  <2>1. c.op = "READ" \/ c.cb # "Meta"
    BY <1>4, MetaSole
  <2>2. d.blk \in MBlk
    <3>1. d \in Pgms("Meta")
      BY <1>0, <1>4, QueuedIsUnder, DoneIsUnder DEF Pgms
    <3>2. d.blk = MtBlk2PBN(mctx.bo)
      BY <3>1 DEF FlashInv, MetaCmds
    <3>. QED
      BY <1>0, <3>2, RingBlk
  <2>3. PICK b : b = d.blk
    OBVIOUS
  <2>4. FilledTo(b, w)'
    BY <1>4, <2>1, <2>2, <2>3, RingStays
  <2>. QED
    BY <2>3, <2>4
<1>5. ASSUME NEW d \in Elems(nq'), d.cb = "Meta", d.op = "PGM"
      PROVE  FilledTo(d.blk, d.wl)'
  <2>1. FilledTo(d.blk, d.wl)
    BY <1>0, <1>5 DEF RingInv
  <2>. QED
    BY <1>4, <1>5, <2>1
<1>6. ASSUME NEW d \in Elems(done'["Meta"]), d.op = "PGM"
      PROVE  FilledTo(d.blk, d.wl + 1)'
  <2>1. CASE d \in Elems(done["Meta"])
    <3>1. FilledTo(d.blk, d.wl + 1) /\ d.cb = "Meta"
      BY <1>0, <1>6, <2>1, DoneIsUnder DEF RingInv
    <3>. QED
      BY <1>4, <1>6, <2>1, <3>1
  <2>2. CASE d \notin Elems(done["Meta"])
    <3>1. c.cb = "Meta" /\ d = Answered(c)
      BY <1>0, <1>6, <2>2, NandDoes DEF NandNext
    <3>2. c.op = "PGM" /\ d.blk = c.blk /\ d.wl = c.wl
      BY <1>0, <1>6, <3>1, AnsweredIsGood
    <3>. QED
      BY <1>1, <3>1, <3>2 DEF FilledTo
  <2>. QED
    BY <2>1, <2>2
<1>. QED
  BY <1>0, <1>2, <1>3, <1>5, <1>6 DEF RingInv, NandNext, Pointed, Scanning, Phase

\* The reads of the page scan come in order.
LEMMA NandPage ==
  ASSUME MapInv, RestInv, AllocInv, FlashInv, NEW c, NandNext(c)
  PROVE  PageScanInv'
<1>1. CASE ~Phase("PageScan")
  BY <1>1 DEF PageScanInv, NandNext, Phase
<1>2. CASE Phase("PageScan")
  <2>1. IoTypes /\ c \in Elems(nq) /\ mt = "Open" /\ c = Head(nq) /\ NandDone
        /\ nq # <<>> /\ IsSeq(nq) /\ nq' = Tail(nq)
    BY <1>2, NandDoes DEF RestInv, NandNext, Phase
  <2>2. c.cb = "Meta" /\ c.op = "READ"
    BY <2>1, OpenReads
  <2>3. die' = die /\ Answered(c).pg = die[c.blk][c.wl]
        /\ Answered(c).blk = c.blk /\ Answered(c).wl = c.wl
    BY <2>1, <2>2, AnswerIs
  <2> DEFINE d == done["Meta"]
             n == Len(done["Meta"])
             q == Len(nq)
             a == Answered(c)
  <2>4. done'["Meta"] = Append(d, a)
    BY <2>1, <2>2, NandDoes
  <2>5. IsSeq(d) /\ n \in Nat /\ DOMAIN d = 1 .. n
    BY <2>1, SeqFacts, KeysDiffer DEF IoTypes, GoodCmds
  <2>6. Len(done'["Meta"]) = n + 1 /\ DOMAIN done'["Meta"] = 1 .. n + 1
        /\ (\A i \in 1 .. n : done'["Meta"][i] = d[i]) /\ done'["Meta"][n + 1] = a
    BY <2>4, <2>5 DEF IsSeq
  <2>7. Len(nq') = q - 1 /\ q \in Nat /\ 1 \in DOMAIN nq /\ nq[1] = c
        /\ \A i \in DOMAIN nq' : i + 1 \in DOMAIN nq /\ nq'[i] = nq[i + 1] /\ i \in Nat
    BY <2>1, TailFacts, SeqFacts, TailAt
  <2>8. /\ \A i \in DOMAIN d : PageAtScan(d[i], i - 1) /\ d[i].pg = die[d[i].blk][d[i].wl]
        /\ \A i \in DOMAIN nq : PageAtScan(nq[i], n + i - 1)
        /\ os.iss = os.dn + n + q
    BY <1>2 DEF FlashInv, PageScanInv
  <2>9. os.dn \in Nat
    BY <1>2, InPhase DEF ReadSteps, ReadState
  <2>10. UNCHANGED <<os, mt>>
    BY DEF NandNext
  <2> HIDE DEF d, n, q, a
  <2>11. ASSUME NEW i \in DOMAIN done'["Meta"]
         PROVE  PageAtScan(done'["Meta"][i], i - 1)
                /\ done'["Meta"][i].pg = die[done'["Meta"][i].blk][done'["Meta"][i].wl]
    <3>1. CASE i \in 1 .. n
      BY <2>5, <2>6, <2>8, <3>1
    <3>2. CASE i = n + 1
      <4>1. PageAtScan(c, n + 1 - 1) /\ n + 1 - 1 = n
        BY <2>5, <2>7, <2>8
      <4>2. PageAtScan(a, n)
        BY <2>3, <4>1 DEF a, PageAtScan
      <4>3. done'["Meta"][i] = a /\ i - 1 = n
        BY <2>5, <2>6, <3>2
      <4>. QED
        BY <2>3, <4>2, <4>3 DEF a
    <3>. QED
      BY <2>5, <2>6, <3>1, <3>2
  <2>12. ASSUME NEW i \in DOMAIN nq'
         PROVE  PageAtScan(nq'[i], Len(done'["Meta"]) + i - 1)
    <3>1. PageAtScan(nq[i + 1], n + (i + 1) - 1)
      BY <2>7, <2>8
    <3>2. n + (i + 1) - 1 = Len(done'["Meta"]) + i - 1
      BY <2>5, <2>6, <2>7
    <3>. QED
      BY <2>7, <3>1, <3>2
  <2>13. os.iss = os.dn + Len(done'["Meta"]) + Len(nq')
    <3>1. n \in Nat /\ q \in Nat /\ os.dn \in Nat /\ os.iss = os.dn + n + q
      BY <2>5, <2>7, <2>8, <2>9
    <3>2. Len(done'["Meta"]) = n + 1 /\ Len(nq') = q - 1
      BY <2>6, <2>7
    <3>3. os.dn + n + q = os.dn + (n + 1) + (q - 1)
      BY <3>1
    <3>. QED
      BY <3>1, <3>2, <3>3
  <2>. QED
    BY <1>2, <2>3, <2>10, <2>11, <2>12, <2>13 DEF PageScanInv, Phase, FlashInv, PageAtScan
<1>. QED
  BY <1>1, <1>2

LEMMA NandFlash ==
  ASSUME MapInv, RestInv, AllocInv, FlashInv, Nand
  PROVE  FlashInv'
<1>1. PICK c : c = Head(nq)
  OBVIOUS
<1>2. NandNext(c)
  BY <1>1 DEF NandNext, Nand, mapVars, openVars, gcVars
<1>. QED
  BY <1>2, NandDone1, NandOrder, NandRoom, NandLook, NandRing, NandPage DEF FlashInv

-----------------------------------------------------------------------------
(* META saves.                                                             *)

Saves == {"Ready", "SaveErase", "SaveProgram"}

LEMMA SaveFlashFrame ==
  ASSUME RestInv, FlashInv, MetaOnly, UNCHANGED mapVars, mt \in Saves, mt' \in Saves,
         NEW t, NEW P, Turns(t, P), OrderInv', MetaCmds', RingInv'
  PROVE  FlashInv'
<1>1. DoneInv'
  BY DoneTurn DEF RestInv, FlashInv
<1>2. RoomInv'
  <2>1. die' = die /\ UNCHANGED <<opn, erb, gcSt, mv>> /\ Loaded
    BY DEF Turns, mapVars, MetaOnly, gcVars, Saves, Loaded
  <2>. QED
    BY <2>1, RoomFrame DEF FlashInv
<1>3. LookInv' /\ PageScanInv'
  BY DEF LookInv, PageScanInv, Scanning, Phase, Saves
<1>. QED
  BY <1>1, <1>2, <1>3 DEF FlashInv

\* The page META programs next: the journal and a slice of the map.
LEMMA SavedIs == MetaPgm.pg = SavedPage /\ ~IsErased(SavedPage)
  BY DEF MetaPgm, PgmCmd, Cmd, SavedPage, IsErased

LEMMA NoneOfMeta ==
  ASSUME RestInv, AllocInv, FlashInv, mt \in {"Ready", "SaveErase"}
  PROVE  /\ Pgms("Meta") = {}
         /\ \A c \in Elems(nq) : ~(c.op = "PGM" /\ c.blk \in MBlk)
         /\ \A c \in Elems(nq) : ~(c.op = "PGM" /\ c.cb = "Meta")
         /\ \A c \in Elems(done["Meta"]) : c.op # "PGM"
<1>1. Pgms("Meta") = {} /\ IoTypes
  BY MetaOne DEF RestInv
<1>2. ASSUME NEW c \in Elems(nq), c.op = "PGM", c.cb = "Meta" PROVE FALSE
  BY <1>1, <1>2, QueuedIsUnder DEF Pgms
<1>3. ASSUME NEW c \in Elems(nq), c.op = "PGM", c.blk \in MBlk PROVE FALSE
  BY <1>2, <1>3, RingIsMeta
<1>4. ASSUME NEW c \in Elems(done["Meta"]), c.op = "PGM" PROVE FALSE
  BY <1>1, <1>4, DoneIsUnder, KeysDiffer DEF Pgms
<1>. QED
  BY <1>1, <1>2, <1>3, <1>4

\* META programs its page into a block filled up to there.
LEMMA MetaProgramFlash ==
  ASSUME RestInv, AllocInv, FlashInv, MetaOnly, UNCHANGED <<mapVars, mctx>>,
         mt \in {"Ready", "SaveErase"}, mt' = "SaveProgram",
         NEW P, P \subseteq {"Meta"}, Turns(<<MetaPgm>>, P),
         FilledTo(MtBlk2PBN(mctx.bo), mctx.wl),
         \A c \in Erbs("Meta") : c.blk = MtBlk2PBN(mctx.bo)
  PROVE  FlashInv'
<1>0. IoTypes /\ AddrInv /\ RingAddr /\ mctx.bo \in MOff /\ mctx.wl \in WL /\ "Meta" \in CbKey
  BY KeysDiffer DEF RestInv, AllocInv, RingAddr, FlashInv, RingInv
<1>1. PICK c : c = MetaPgm
  OBVIOUS
<1>2. GoodCmd(c) /\ c.cb = "Meta" /\ c.op = "PGM" /\ c.blk = MtBlk2PBN(mctx.bo) /\ c.wl = mctx.wl
      /\ ~IsErased(c.pg) /\ c.blk \in MBlk
  BY <1>0, <1>1, MetaCmdIs, SavedIs, RingBlk
<1>3. Turns(<<c>>, P) /\ Elems(<<c>>) = {c}
  BY <1>1, OneFacts
<1>4. /\ Pgms("Meta") = {}
      /\ \A d \in Elems(nq) : ~(d.op = "PGM" /\ d.blk \in MBlk)
      /\ \A d \in Elems(nq) : ~(d.op = "PGM" /\ d.cb = "Meta")
      /\ \A d \in Elems(done["Meta"]) : d.op # "PGM"
  BY NoneOfMeta
<1>5. OrderInv'
  <2>1. ErasedFrom(c.blk, c.wl)
    BY <1>2 DEF FilledTo, ErasedFrom
  <2>2. \A d \in Elems(nq) : d.op = "PGM" /\ d.blk = c.blk => d.wl < c.wl
    BY <1>2, <1>4
  <2>. QED
    BY <1>0, <1>3, <2>1, <2>2, OrderPgm DEF FlashInv
<1>6. MetaCmds'
  <2>1. /\ Pgms("Meta")' \subseteq Pgms("Meta") \cup {c}
        /\ Erbs("Meta")' \subseteq Erbs("Meta")
    <3>1. /\ Pgms("Meta")' \subseteq Pgms("Meta") \cup {d \in {c} : d.cb = "Meta" /\ d.op = "PGM"}
          /\ Erbs("Meta")' \subseteq Erbs("Meta") \cup {d \in {c} : d.cb = "Meta" /\ d.op = "ERB"}
      <4> DEFINE t == <<c>>
      <4>1. Turns(t, P) /\ Elems(t) = {c}
        BY <1>3
      <4> HIDE DEF t
      <4>. QED
        BY <1>0, <4>1, TurnWrites
    <3>. QED
      BY <1>2, <3>1
  <2>. QED
    BY <1>2, <1>4, <2>1 DEF MetaCmds
<1>7. die' = die /\ Elems(nq') = Elems(nq) \cup {c} /\ Elems(done'["Meta"]) \subseteq Elems(done["Meta"])
  <2> DEFINE t == <<c>>
  <2>1. Turns(t, P) /\ Elems(t) = {c}
    BY <1>3
  <2> HIDE DEF t
  <2>. QED
    BY <1>0, <2>1, TurnUnder
<1>8. RingInv'
  <2>1. FilledTo(c.blk, c.wl)'
    BY <1>2, <1>7 DEF FilledTo
  <2>2. ~Pointed'
    BY DEF Pointed, Phase, Scanning
  <2>3. /\ \A d \in Elems(nq') : d.cb = "Meta" /\ d.op = "PGM" => FilledTo(d.blk, d.wl)'
        /\ \A d \in Elems(done'["Meta"]) : d.op = "PGM" => FilledTo(d.blk, d.wl + 1)'
    BY <1>4, <1>7, <2>1
  <2>. QED
    BY <1>7, <2>2, <2>3 DEF RingInv, FlashInv
<1>. QED
  BY <1>3, <1>5, <1>6, <1>8, SaveFlashFrame DEF Saves

LEMMA SaveStartFlash ==
  ASSUME RestInv, AllocInv, FlashInv, MetaOnly, UNCHANGED openVars, MetaSaveStart
  PROVE  FlashInv'
<1>0. IoTypes /\ AddrInv /\ RingAddr /\ mctx.bo \in MOff /\ mctx.wl \in WL /\ "Meta" \in CbKey
      /\ mt = "Ready" /\ UNCHANGED <<die, done, mapVars, mctx>>
  BY KeysDiffer DEF RestInv, AllocInv, RingAddr, FlashInv, RingInv, MetaSaveStart
<1>1. Pgms("Meta") = {} /\ Erbs("Meta") = {}
  BY <1>0, MetaOne
<1>2. CASE mctx.wl # 0
  <2>1. mt' = "SaveProgram" /\ Issue(<<MetaPgm>>)
    BY <1>2 DEF MetaSaveStart, MetaNeedsErase
  <2>2. Turns(<<MetaPgm>>, {})
    BY <1>0, <2>1, IssueTurn, MetaCmdIs
  <2>3. FilledTo(MtBlk2PBN(mctx.bo), mctx.wl)
    BY <1>0, <1>2 DEF FlashInv, RingInv, Pointed
  <2>. QED
    BY <1>0, <1>1, <2>1, <2>2, <2>3, MetaProgramFlash
<1>3. CASE mctx.wl = 0
  <2>1. mt' = "SaveErase" /\ Issue(<<MetaErase>>)
    BY <1>3 DEF MetaSaveStart, MetaNeedsErase
  <2>2. PICK c : c = MetaErase
    OBVIOUS
  <2>3. GoodCmd(c) /\ c.cb = "Meta" /\ c.op = "ERB" /\ c.blk = MtBlk2PBN(mctx.bo)
    BY <1>0, <2>2, MetaCmdIs
  <2> DEFINE t == <<c>>
  <2>4. Turns(t, {}) /\ Elems(t) = {c}
    BY <1>0, <2>1, <2>2, <2>3, IssueTurn, OneFacts
  <2> HIDE DEF t
  <2>5. OrderInv'
    BY <1>0, <2>3, <2>4, OrderTurn DEF FlashInv
  <2>6. /\ Pgms("Meta")' \subseteq Pgms("Meta") \cup {d \in {c} : d.cb = "Meta" /\ d.op = "PGM"}
        /\ Erbs("Meta")' \subseteq Erbs("Meta") \cup {d \in {c} : d.cb = "Meta" /\ d.op = "ERB"}
    BY <1>0, <2>4, TurnWrites
  <2>7. MetaCmds'
    <3>1. \A d \in Pgms("Meta")' : FALSE
      BY <1>1, <2>3, <2>6
    <3>2. \A d \in Erbs("Meta")' : d = c
      BY <1>1, <2>6
    <3>. QED
      BY <1>0, <2>1, <2>3, <3>1, <3>2 DEF MetaCmds
  <2>8. die' = die /\ Elems(nq') = Elems(nq) \cup {c}
    BY <1>0, <2>4, TurnUnder
  <2>9. RingInv'
    <3>1. \A d \in Elems(nq') : ~(d.cb = "Meta" /\ d.op = "PGM")
      BY <1>0, <2>3, <2>8, NoneOfMeta
    <3>2. \A d \in Elems(done'["Meta"]) : d.op # "PGM"
      BY <1>0, NoneOfMeta
    <3>. QED
      BY <1>0, <1>3, <2>8, <3>1, <3>2 DEF RingInv, FlashInv
  <2>. QED
    BY <1>0, <2>1, <2>4, <2>5, <2>7, <2>9, SaveFlashFrame DEF Saves
<1>. QED
  BY <1>2, <1>3

LEMMA SaveErasedFlash ==
  ASSUME RestInv, AllocInv, FlashInv, MetaOnly, UNCHANGED openVars, MetaSaveErased
  PROVE  FlashInv'
<1>0. IoTypes /\ AddrInv /\ RingAddr /\ mctx.bo \in MOff /\ mctx.wl = 0 /\ "Meta" \in CbKey
      /\ mt = "SaveErase" /\ mt' = "SaveProgram" /\ UNCHANGED <<die, mapVars, mctx>>
      /\ HasDone("Meta") /\ PopDone("Meta") /\ Issue(<<MetaPgm>>)
  BY KeysDiffer DEF RestInv, AllocInv, RingAddr, FlashInv, RingInv, MetaSaveErased
<1>1. Turns(<<MetaPgm>>, {"Meta"})
  BY <1>0, PopIssueTurn, MetaCmdIs
<1>2. ErasedFrom(MtBlk2PBN(mctx.bo), 0)
  <2>1. PICK d : d = DoneHead("Meta")
    OBVIOUS
  <2>2. d \in Under["Meta"] /\ d.op \in Ops /\ Cnt["Meta"][d.op] > 0
    BY <1>0, <2>1, HeadUnder
  <2>3. Cnt["Meta"]["READ"] = 0 /\ Cnt["Meta"]["PGM"] = 0
    BY <1>0 DEF RestInv, MetaInv, SaveInv, Cnts
  <2>4. d.op = "ERB"
    BY <2>2, <2>3 DEF Ops
  <2>5. d.blk = MtBlk2PBN(mctx.bo)
    BY <2>2, <2>4 DEF FlashInv, MetaCmds, Erbs
  <2>6. d \in Elems(done["Meta"])
    <3>1. IsSeq(done["Meta"]) /\ done["Meta"] # <<>>
      BY <1>0 DEF IoTypes, GoodCmds, HasDone
    <3>. QED
      BY <2>1, <3>1, TailFacts DEF DoneHead
  <2>. QED
    BY <1>0, <2>4, <2>5, <2>6 DEF FlashInv, DoneInv
<1>3. FilledTo(MtBlk2PBN(mctx.bo), mctx.wl)
  BY <1>0, <1>2, SizeAssumption DEF ErasedFrom, FilledTo, WL
<1>4. \A c \in Erbs("Meta") : c.blk = MtBlk2PBN(mctx.bo)
  BY DEF FlashInv, MetaCmds
<1>. QED
  BY <1>0, <1>1, <1>3, <1>4, MetaProgramFlash

LEMMA SaveDoneFlash ==
  ASSUME RestInv, RestInv', AllocInv, FlashInv, MetaOnly, UNCHANGED openVars, MetaSaveDone
  PROVE  FlashInv'
<1>0. IoTypes /\ mctx.bo \in MOff /\ mctx.wl \in WL /\ "Meta" \in CbKey
      /\ mt = "SaveProgram" /\ mt' = "Ready" /\ UNCHANGED <<die, nq, mapVars>>
      /\ HasDone("Meta") /\ PopDone("Meta") /\ mctx' = NextSave
  BY KeysDiffer DEF RestInv, AllocInv, RingAddr, FlashInv, RingInv, MetaSaveDone
<1>1. Turns(<<>>, {"Meta"})
  BY <1>0, PopTurn
<1>2. PICK t : t = <<>>
  OBVIOUS
<1>3. Turns(t, {"Meta"}) /\ Elems(t) = {}
  BY <1>1, <1>2, NoneFacts
<1>4. OrderInv'
  BY <1>0, <1>3, OrderTurn DEF FlashInv
<1>5. Pgms("Meta")' = {} /\ Erbs("Meta")' = {} /\ IoTypes'
  <2>1. IoTypes' /\ Cnt'["Meta"]["PGM"] = 0 /\ Cnt'["Meta"]["ERB"] = 0
    BY <1>0 DEF RestInv, MetaInv, SaveInv, Cnts
  <2>. QED
    BY <1>0, <2>1, NoPgmsNext DEF NextWrites
<1>6. MetaCmds'
  BY <1>5 DEF MetaCmds
<1>7. FilledTo(MtBlk2PBN(mctx.bo), mctx.wl + 1)
  <2>1. PICK d : d = DoneHead("Meta")
    OBVIOUS
  <2>2. d \in Under["Meta"] /\ d.op \in Ops /\ Cnt["Meta"][d.op] > 0
    BY <1>0, <2>1, HeadUnder
  <2>3. Cnt["Meta"]["READ"] = 0 /\ Cnt["Meta"]["ERB"] = 0
    BY <1>0 DEF RestInv, MetaInv, SaveInv, Cnts
  <2>4. d.op = "PGM"
    BY <2>2, <2>3 DEF Ops
  <2>5. d.blk = MtBlk2PBN(mctx.bo) /\ d.wl = mctx.wl
    BY <2>2, <2>4 DEF FlashInv, MetaCmds, Pgms
  <2>6. d \in Elems(done["Meta"])
    <3>1. IsSeq(done["Meta"]) /\ done["Meta"] # <<>>
      BY <1>0 DEF IoTypes, GoodCmds, HasDone
    <3>. QED
      BY <2>1, <3>1, TailFacts DEF DoneHead
  <2>. QED
    BY <2>4, <2>5, <2>6 DEF FlashInv, RingInv
<1>8. /\ \A d \in Elems(nq') : ~(d.cb = "Meta" /\ d.op = "PGM")
      /\ \A d \in Elems(done'["Meta"]) : d.op # "PGM"
  <2>1. \A d \in Elems(nq') : d.cb = "Meta" => d \in Under'["Meta"]
    BY <1>0 DEF Under
  <2>2. \A d \in Elems(done'["Meta"]) : d \in Under'["Meta"]
    BY <1>0 DEF Under
  <2>. QED
    BY <1>5, <2>1, <2>2 DEF Pgms
<1>9. /\ mctx'.wl \in WL /\ (mctx'.wl # 0 => mctx'.bo = mctx.bo /\ mctx'.wl = mctx.wl + 1)
  <2>1. \/ mctx.wl + 1 >= NUM_WL /\ mctx'.wl = 0
        \/ mctx.wl + 1 < NUM_WL /\ mctx'.wl = mctx.wl + 1 /\ mctx'.bo = mctx.bo
    BY <1>0, SizeAssumption DEF NextSave, WL
  <2>. QED
    BY <1>0, <2>1, SizeAssumption DEF WL
<1>10. RingInv'
  <2>1. PICK b : b = MtBlk2PBN(mctx.bo)
    OBVIOUS
  <2>2. PICK w : w = mctx.wl + 1
    OBVIOUS
  <2>3. FilledTo(b, w)'
    BY <1>0, <1>7, <2>1, <2>2 DEF FilledTo
  <2>4. mctx'.wl # 0 => FilledTo(MtBlk2PBN(mctx.bo), mctx.wl)'
    BY <1>9, <2>1, <2>2, <2>3 DEF FilledTo, MtBlk2PBN
  <2>. QED
    BY <1>0, <1>8, <1>9, <2>4 DEF RingInv, FlashInv
<1>. QED
  BY <1>0, <1>3, <1>4, <1>6, <1>10, SaveFlashFrame DEF Saves

LEMMA SaveFlash ==
  ASSUME RestInv, RestInv', AllocInv, FlashInv, MetaOnly, UNCHANGED openVars, MetaSave
  PROVE  FlashInv'
<1>1. CASE MetaIdle \/ MetaSaveWait
  BY <1>1, QuietFlash DEF MetaIdle, MetaSaveWait, mapVars, openVars, MetaOnly, gcVars
<1>. QED
  BY <1>1, SaveStartFlash, SaveErasedFlash, SaveDoneFlash DEF MetaSave

-----------------------------------------------------------------------------
(* META opens.                                                             *)

ReadsOnly(t, P) ==
  Turns(t, P) /\ P \subseteq {"Meta"} /\ \A c \in Elems(t) : c.cb = "Meta" /\ c.op = "READ"

LEMMA OpenReadsTurn ==
  ASSUME MapInv, RestInv,
         \/ MetaInit \/ BlkScanIssue \/ BlkScanDone \/ PageScanReturn \/ PageScanDone \/ MtLoadReturn
  PROVE  \E n \in Int : \E t : IsReads(t, n) /\ Issue(t) /\ UNCHANGED <<die, done>>
<1>1. ASSUME NEW a \in Nat, NEW b \in Nat PROVE IssueUpto(a, b) \in Int
  BY LesserFacts DEF IssueUpto
<1>2. CASE MetaInit
  <2> DEFINE n == IssueUpto(0, NUM_META_BLK)
             t == Reads(0, n, FirstPageOf)
  <2>1. os'.iss = n /\ Issue(t) /\ UNCHANGED <<die, done>>
    BY <1>2 DEF MetaInit, OsIdle
  <2>2. n \in Int
    BY <1>1, SizeAssumption
  <2> HIDE DEF n
  <2>3. IsReads(t, n)
    BY <2>2, ReadAt DEF Reads, IsReads
  <2>. QED
    BY <2>1, <2>2, <2>3
<1>3. ASSUME NEW s \in ReadSteps, Phase(s)
      PROVE  os.iss \in Nat /\ os.dn \in Nat /\ IsOs(os)
  BY <1>3, InPhase DEF ReadState
<1>4. CASE BlkScanIssue
  <2> DEFINE n == IssueUpto(os.dn, NUM_META_BLK)
             t == Reads(os.iss, n, FirstPageOf)
  <2>0. os.iss \in Nat /\ os.dn \in Nat /\ IsOs(os)
    BY <1>3, <1>4 DEF BlkScanIssue, ReadSteps
  <2>1. n \in Int
    BY <1>1, <2>0, SizeAssumption
  <2> HIDE DEF n
  <2>2. os'.iss = n
    BY <1>4, <2>0 DEF BlkScanIssue, IsOs, OsFields, n
  <2>3. Issue(t) /\ UNCHANGED <<die, done>>
    BY <1>4, <2>2 DEF BlkScanIssue
  <2>4. IsReads(t, n - os.iss) /\ n - os.iss \in Int
    BY <2>0, <2>1, ReadAt DEF Reads, IsReads
  <2>. QED
    BY <2>3, <2>4
<1>5. CASE BlkScanDone
  <2> DEFINE n == IssueUpto(0, NUM_WL)
             t == Reads(0, n, LAMBDA i : PageOf(os.bo, i))
  <2>1. os'.iss = n
    BY <1>5 DEF BlkScanDone, OsIdle
  <2>2. Issue(t) /\ UNCHANGED <<die, done>>
    BY <1>5, <2>1 DEF BlkScanDone
  <2>3. n \in Int
    BY <1>1, SizeAssumption
  <2> HIDE DEF n
  <2>4. IsReads(t, n)
    BY <2>3, ReadAt DEF Reads, IsReads
  <2>. QED
    BY <2>2, <2>3, <2>4
<1>6. CASE PageScanReturn
  <2> DEFINE n == PageScanIssued
             t == Reads(os.iss, n, LAMBDA i : PageOf(os.bo, i))
  <2>0. os.iss \in Nat /\ os.dn \in Nat
    BY <1>3, <1>6 DEF PageScanReturn, ReadSteps
  <2>1. n \in Int
    BY <1>1, <2>0, SizeAssumption DEF PageScanIssued
  <2>2. Issue(t) /\ UNCHANGED <<die, done>>
    BY <1>6 DEF PageScanReturn
  <2> HIDE DEF n
  <2>3. IsReads(t, n - os.iss) /\ n - os.iss \in Int
    BY <2>0, <2>1, ReadAt DEF Reads, IsReads
  <2>. QED
    BY <2>2, <2>3
<1>7. CASE PageScanDone
  <2> DEFINE n == IssueUpto(0, NUM_MAP_SLICE)
             bo == os'.bo
             cpo == os'.cpo
             t == Reads(0, n, LAMBDA i : LoadPage(bo, cpo, i))
  <2>1. os'.iss = n
    BY <1>7 DEF PageScanDone, OsIdle
  <2>2. Issue(t) /\ UNCHANGED <<die, done>>
    BY <1>7, <2>1 DEF PageScanDone
  <2>3. n \in Int
    BY <1>1, MetaAssumption
  <2> HIDE DEF n, bo, cpo
  <2>4. IsReads(t, n)
    BY <2>3, ReadAt DEF Reads, IsReads
  <2>. QED
    BY <2>2, <2>3, <2>4
<1>8. CASE MtLoadReturn
  <2> DEFINE n == IssueUpto(os.dn, NUM_MAP_SLICE)
             t == Reads(os.iss, n, LAMBDA i : LoadPage(os.bo, os.cpo, i))
  <2>0. os.iss \in Nat /\ os.dn \in Nat /\ IsOs(os)
    BY <1>3, <1>8 DEF MtLoadReturn, ReadSteps
  <2>1. n \in Int
    BY <1>1, <2>0, MetaAssumption
  <2> HIDE DEF n
  <2>2. os'.iss = n
    BY <1>8, <2>0 DEF MtLoadReturn, IsOs, OsFields, n
  <2>3. Issue(t) /\ UNCHANGED <<die, done>>
    BY <1>8, <2>2 DEF MtLoadReturn
  <2>4. IsReads(t, n - os.iss) /\ n - os.iss \in Int
    BY <2>0, <2>1, ReadAt DEF Reads, IsReads
  <2>. QED
    BY <2>3, <2>4
<1>. QED
  BY <1>2, <1>4, <1>5, <1>6, <1>7, <1>8

\* The scan of a stream reads pages of its block.
LEMMA OpenScanTurn ==
  ASSUME MapInv, RestInv, AllocInv,
         MtLoadDone \/ GcScanDone \/ \E o \in OpenType : ScanReturn(o)
  PROVE  \E t : ReadsOnly(t, {})
<1>1. CASE MtLoadDone
  <2>1. /\ Phase("MtLoad") /\ os.dn = NUM_MAP_SLICE /\ ScanStart("GC")
        /\ UNCHANGED <<die, done, opn>>
    BY <1>1 DEF MtLoadDone
  <2>2. "MtLoad" \in ReadSteps /\ "MtLoad" # "BlkScan" /\ "MtLoad" # "PageScan" /\ "GC" \in OpenType
    BY DEF ReadSteps, OpenType
  <2>3. ReadState /\ AddrInv /\ IoTypes /\ os.step = "MtLoad"
    BY <2>1, <2>2, InPhase
  <2>4. Cnts("Meta", 0, 0, 0)
    <3>1. os.iss <= os.dn
      BY <2>1, <2>2, <2>3 DEF ReadState, Total, Phase
    <3>. QED
      BY <2>1, <2>2, <3>1, PhaseOver
  <2>. QED
    BY <2>1, <2>2, <2>3, <2>4, ScanStartTurn DEF ReadsOnly
<1>2. CASE GcScanDone
  <2>1. ScanOver("GC") /\ ScanStart("USER") /\ UNCHANGED <<die, done>>
        /\ "USER" \in OpenType /\ "GC" \in OpenType /\ "USER" # "GC"
    BY <1>2, StreamsDiffer DEF GcScanDone
  <2>2. opn'["USER"] = opn["USER"] /\ Cnts("Meta", 0, 0, 0) /\ IoTypes /\ AddrInv
    BY <2>1, ScanOverAddr, ScanOverKeeps
  <2>. QED
    BY <2>1, <2>2, ScanStartTurn DEF ReadsOnly
<1>3. ASSUME NEW o \in OpenType, ScanReturn(o)
      PROVE  \E t : ReadsOnly(t, {})
  <2>1. ScanPhase(o) /\ us' = ScanIssued(us) /\ Issue(ScanReads(us)) /\ UNCHANGED <<die, done>>
    BY <1>3 DEF ScanReturn
  <2>2. ScanOf(us) /\ IoTypes
    BY <2>1, InScan
  <2>3. IsUs(us) /\ us.nRun \in 0 .. 2 /\ us.wl \in Nat /\ \A c \in Under["Meta"] : c.wl >= 0
    BY <2>2, SizeAssumption DEF ScanOf, WL
  <2>4. Turns(ScanReads(us), {}) /\ \A c \in Elems(ScanReads(us)) : c.cb = "Meta" /\ c.op = "READ"
    BY <2>1, <2>2, <2>3, ScanReadsTurn
  <2>. QED
    BY <2>4 DEF ReadsOnly
<1>. QED
  BY <1>1, <1>2, <1>3

LEMMA OpenTurn ==
  ASSUME MapInv, RestInv, AllocInv, MetaOpen
  PROVE  \E t, P : ReadsOnly(t, P)
<1>0. IoTypes /\ "Meta" \in CbKey /\ \A c \in Elems(<<>>) : FALSE
  BY NoneFacts, KeysDiffer DEF RestInv
<1>1. CASE \/ MetaInit \/ BlkScanIssue \/ BlkScanDone \/ PageScanReturn \/ PageScanDone
           \/ MtLoadReturn
  <2>1. PICK n \in Int : \E t : IsReads(t, n) /\ Issue(t) /\ UNCHANGED <<die, done>>
    BY <1>1, OpenReadsTurn
  <2>2. PICK t : IsReads(t, n) /\ Issue(t) /\ UNCHANGED <<die, done>>
    BY <2>1
  <2>3. Turns(t, {}) /\ \A c \in Elems(t) : c.cb = "Meta" /\ c.op = "READ"
    BY <1>0, <2>2, ReadsTurn
  <2>. QED
    BY <2>3 DEF ReadsOnly
<1>2. CASE MtLoadDone \/ GcScanDone \/ \E o \in OpenType : ScanReturn(o)
  BY <1>2, OpenScanTurn
<1>3. CASE BlkScanReturn \/ MetaFormat \/ UserScanDone
  <2>1. Turns(<<>>, {})
    BY <1>0, <1>3, QuietTurn DEF BlkScanReturn, MetaFormat, UserScanDone
  <2>. QED
    BY <1>0, <2>1 DEF ReadsOnly
<1>4. CASE BlkScanPop \/ PageScanPop \/ MtLoadPop \/ \E o \in OpenType : ScanPop(o)
  <2>1. Turns(<<>>, {"Meta"})
    BY <1>0, <1>4, PopTurn DEF BlkScanPop, PageScanPop, MtLoadPop, ScanPop
  <2>. QED
    BY <1>0, <2>1 DEF ReadsOnly
<1>. QED
  BY <1>1, <1>2, <1>3, <1>4 DEF MetaOpen

LEMMA OpenFlashFrame ==
  ASSUME MapInv, RestInv, AllocInv, FlashInv, MetaOpen,
         mt' \in {"Open", "Assert", "Ready"}, mctx'.wl \in WL,
         Pointed' /\ mctx'.wl # 0 => FilledTo(MtBlk2PBN(mctx.bo), mctx.wl)',
         RoomInv', LookInv', PageScanInv'
  PROVE  FlashInv'
<1>0. IoTypes /\ mt \in {"Init", "Open"} /\ "Meta" \in CbKey
  <2>1. mt \in {"Init", "Open"}
    BY DEF MetaOpen, MetaInit, BlkScanIssue, BlkScanPop, BlkScanReturn, MetaFormat, BlkScanDone,
       PageScanPop, PageScanReturn, PageScanDone, MtLoadPop, MtLoadReturn, MtLoadDone,
       ScanPop, ScanReturn, GcScanDone, UserScanDone, ScanOver, ScanPhase, Phase
  <2>. QED
    BY <2>1, KeysDiffer DEF RestInv
<1>1. PICK t, P : ReadsOnly(t, P)
  BY OpenTurn
<1>2. Turns(t, P) /\ \A c \in Elems(t) : c.cb = "Meta" /\ c.op = "READ"
  BY <1>1 DEF ReadsOnly
<1>3. DoneInv' /\ OrderInv'
  BY <1>0, <1>2, DoneTurn, OrderTurn DEF FlashInv
<1>4. Pgms("Meta") = {} /\ Erbs("Meta") = {}
  BY <1>0, MetaOne
<1>5. Pgms("Meta")' = {} /\ Erbs("Meta")' = {}
  <2>1. /\ Pgms("Meta")' \subseteq Pgms("Meta") \cup {c \in Elems(t) : c.cb = "Meta" /\ c.op = "PGM"}
        /\ Erbs("Meta")' \subseteq Erbs("Meta") \cup {c \in Elems(t) : c.cb = "Meta" /\ c.op = "ERB"}
    BY <1>0, <1>2, TurnWrites
  <2>. QED
    BY <1>2, <1>4, <2>1
<1>6. MetaCmds'
  BY <1>5 DEF MetaCmds
<1>7. die' = die
  BY <1>0, <1>2, TurnUnder
<1>8. RingInv'
  <2>1. \A d \in Elems(nq') : d.cb = "Meta" => d \in Under'["Meta"]
    BY <1>0 DEF Under
  <2>2. \A d \in Elems(done'["Meta"]) : d \in Under'["Meta"]
    BY <1>0 DEF Under
  <2>3. /\ \A d \in Elems(nq') : ~(d.cb = "Meta" /\ d.op = "PGM")
        /\ \A d \in Elems(done'["Meta"]) : d.op # "PGM"
    BY <1>5, <2>1, <2>2 DEF Pgms
  <2>. QED
    BY <1>7, <2>3 DEF RingInv, FlashInv
<1>. QED
  BY <1>3, <1>6, <1>8 DEF FlashInv

\* Nothing is written before META is open.
LEMMA OpeningRoom ==
  ASSUME MapInv, RestInv, Opening, MetaOnly, ~Loaded'
  PROVE  RoomInv'
<1>1. erb["USER"].step = "Init" /\ erb["GC"].step = "Init" /\ gcSt = "WaitOpen"
  BY OpeningRests
<1>2. erb' = erb /\ gcSt' = gcSt
  BY DEF MetaOnly, gcVars
<1>. QED
  BY <1>1, <1>2 DEF RoomInv, OpenType

\* While META opens, nothing is queued or collected unless META has reads
\* under way.
LEMMA OpeningQueue ==
  ASSUME MapInv, RestInv, AllocInv, FlashInv, mt = "Open", Cnts("Meta", 0, 0, 0)
  PROVE  /\ Elems(nq) = {} /\ Len(nq) = 0 /\ IsSeq(nq)
         /\ Elems(done["Meta"]) = {} /\ Len(done["Meta"]) = 0 /\ IsSeq(done["Meta"])
<1>1. IoTypes /\ "Meta" \in CbKey /\ Under["Meta"] = {}
  BY NoUnder, KeysDiffer DEF RestInv
<1>2. IsSeq(nq) /\ IsSeq(done["Meta"])
  BY <1>1 DEF IoTypes, GoodCmds
<1>3. Elems(nq) = {}
  BY <1>1, OpenReads DEF Under
<1>4. Elems(done["Meta"]) = {}
  BY <1>1 DEF Under
<1>5. ASSUME NEW s, IsSeq(s), Elems(s) = {}
      PROVE  Len(s) = 0
  <2>1. Len(s) \in Nat /\ DOMAIN s = 1 .. Len(s)
    BY <1>5, SeqFacts
  <2>2. ~(1 \in DOMAIN s)
    BY <1>5 DEF Elems
  <2>. QED
    BY <2>1, <2>2
<1>. QED
  BY <1>2, <1>3, <1>4, <1>5

\* A step within, or into, a phase that reads no data pages and does not look
\* for the first erased page.
LEMMA EarlyFlash ==
  ASSUME MapInv, RestInv, AllocInv, FlashInv, MetaOnly, MetaOpen, Opening,
         mt' = "Assert" \/ (mt' = "Open" /\ os'.step \in {"BlkScan", "MtLoad"}),
         mctx'.wl \in WL,
         Pointed' /\ mctx'.wl # 0 => FilledTo(MtBlk2PBN(mctx.bo), mctx.wl)'
  PROVE  FlashInv'
<1>1. ~Loaded' /\ mt' \in {"Open", "Assert", "Ready"}
  BY DEF Loaded
<1>2. RoomInv'
  BY <1>1, OpeningRoom
<1>3. LookInv' /\ PageScanInv'
  BY DEF LookInv, PageScanInv, Phase, Scanning
<1>. QED
  BY <1>1, <1>2, <1>3, OpenFlashFrame

LEMMA MetaInitFlash ==
  ASSUME MapInv, RestInv, AllocInv, FlashInv, MetaOnly, MetaInit
  PROVE  FlashInv'
<1>1. mt = "Init" /\ mt' = "Open" /\ mctx' = mctx /\ os'.step = "BlkScan" /\ MetaOpen
  BY DEF MetaInit, OsIdle, MetaOpen
<1>2. Opening /\ mctx.wl \in WL /\ ~Pointed'
  BY <1>1 DEF Opening, FlashInv, RingInv, Pointed, Phase, Scanning
<1>. QED
  BY <1>1, <1>2, EarlyFlash

LEMMA BlkScanFlash ==
  ASSUME MapInv, RestInv, AllocInv, FlashInv, MetaOnly,
         BlkScanIssue \/ BlkScanPop \/ BlkScanReturn
  PROVE  FlashInv'
<1>0. "BlkScan" \in ReadSteps /\ Phase("BlkScan") /\ MetaOpen
  BY DEF ReadSteps, BlkScanIssue, BlkScanPop, BlkScanReturn, MetaOpen
<1>1. ReadState /\ Opening /\ mt = "Open" /\ os.step = "BlkScan"
  BY <1>0, InPhase
<1>2. IsOs(os)
  BY <1>1 DEF ReadState
<1>3. mt' = mt /\ mctx' = mctx
  BY DEF BlkScanIssue, BlkScanPop, BlkScanReturn
<1>4. os'.step = os.step
  <2>1. \/ os' = os \/ os' = [os EXCEPT !.iss = IssueUpto(os.dn, NUM_META_BLK)]
        \/ os' = [os EXCEPT !.dn = @ + 1]
        \/ \E a, b : os' = [os EXCEPT !.dn = @ + 1, !.age = a, !.bo = b]
    BY DEF BlkScanIssue, BlkScanPop, BlkScanReturn, openVars
  <2>. QED
    BY <1>2, <2>1 DEF IsOs, OsFields
<1>5. mctx.wl \in WL /\ ~Pointed'
  BY <1>1, <1>3, <1>4 DEF FlashInv, RingInv, Pointed, Phase, Scanning
<1>. QED
  BY <1>0, <1>1, <1>3, <1>4, <1>5, EarlyFlash

LEMMA MtLoadFlash ==
  ASSUME MapInv, RestInv, AllocInv, FlashInv, MetaOnly, MtLoadPop \/ MtLoadReturn
  PROVE  FlashInv'
<1>0. "MtLoad" \in ReadSteps /\ Phase("MtLoad") /\ MetaOpen
  BY DEF ReadSteps, MtLoadPop, MtLoadReturn, MetaOpen
<1>1. ReadState /\ Opening /\ mt = "Open" /\ os.step = "MtLoad"
  BY <1>0, InPhase
<1>2. IsOs(os)
  BY <1>1 DEF ReadState
<1>3. (mt' = "Assert" \/ mt' = "Open") /\ mctx' = mctx /\ die' = die
  BY <1>1 DEF MtLoadPop, MtLoadReturn
<1>4. os'.step = os.step
  <2>1. \/ os' = [os EXCEPT !.iss = IssueUpto(os.dn, NUM_MAP_SLICE)]
        \/ os' = [os EXCEPT !.dn = @ + 1]
    BY DEF MtLoadPop, MtLoadReturn
  <2>. QED
    BY <1>2, <2>1 DEF IsOs, OsFields
<1>5. mctx.wl \in WL /\ (mctx.wl # 0 => FilledTo(MtBlk2PBN(mctx.bo), mctx.wl))
  BY <1>0 DEF FlashInv, RingInv, Pointed
<1>6. mctx'.wl # 0 => FilledTo(MtBlk2PBN(mctx.bo), mctx.wl)'
  BY <1>3, <1>5 DEF FilledTo
<1>. QED
  BY <1>0, <1>1, <1>3, <1>4, <1>5, <1>6, EarlyFlash

LEMMA MetaFormatFlash ==
  ASSUME MapInv, RestInv, AllocInv, FlashInv, MetaOnly, MetaFormat
  PROVE  FlashInv'
<1>1. /\ Phase("BlkScan") /\ mt' = "Ready" /\ UNCHANGED ioVars /\ opn' = opn
      /\ mctx'.wl = 0 /\ MetaOpen
  BY DEF MetaFormat, MetaOpen
<1>2. Opening
  BY <1>1, InPhase DEF ReadSteps
<1>3. \A o \in OpenType : ~(opn'[o].wl < NUM_WL)
  BY <1>1, SizeAssumption DEF AllocInv, RingAddr, FF32, VAddr
<1>4. /\ erb'["USER"].step = "Init" /\ erb'["GC"].step = "Init" /\ gcSt' = "WaitOpen"
  BY <1>2, OpeningRests DEF MetaOnly, gcVars
<1>5. RoomInv'
  BY <1>3, <1>4, StreamsDiffer DEF RoomInv
<1>6. LookInv' /\ PageScanInv'
  BY <1>1 DEF LookInv, PageScanInv, Phase, Scanning
<1>7. mctx'.wl \in WL
  BY <1>1, SizeAssumption DEF WL
<1>. QED
  BY <1>1, <1>5, <1>6, <1>7, OpenFlashFrame

LEMMA ConcatAt ==
  ASSUME NEW s, NEW t, IsSeq(s), IsSeq(t)
  PROVE  /\ DOMAIN (s \o t) = 1 .. Len(s) + Len(t) /\ Len(s \o t) = Len(s) + Len(t)
         /\ \A i \in 1 .. Len(s) : (s \o t)[i] = s[i]
         /\ \A i \in 1 .. Len(s) + Len(t) :
              i > Len(s) => (s \o t)[i] = t[i - Len(s)] /\ i - Len(s) \in 1 .. Len(t)
<1>1. Len(s) \in Nat /\ Len(t) \in Nat
  BY SeqFacts
<1>. QED
  BY <1>1 DEF IsSeq

LEMMA ReadsLen ==
  ASSUME NEW n \in Nat, NEW t, IsReads(t, n), IsSeq(t)
  PROVE  Len(t) = n
  BY SeqFacts DEF IsReads

\* The reads of page scan: page after page of its block.
LEMMA PageScanStarts ==
  ASSUME MapInv, RestInv, AllocInv, FlashInv, MetaOnly, BlkScanDone
  PROVE  FlashInv'
<1> DEFINE n == IssueUpto(0, NUM_WL)
           b == os.bo
           t == Reads(0, n, LAMBDA i : PageOf(b, i))
<1>1. /\ Phase("BlkScan") /\ mt' = mt /\ UNCHANGED <<die, done, mctx>> /\ os.dn = NUM_META_BLK
      /\ os' = [OsIdle EXCEPT !.step = "PageScan", !.bo = os.bo, !.cpo = NUM_WL, !.iss = n]
      /\ MetaOpen /\ "BlkScan" \in ReadSteps
  BY DEF BlkScanDone, MetaOpen, ReadSteps
<1>2. os'.step = "PageScan" /\ os'.iss = n /\ os'.dn = 0 /\ os'.cpo = NUM_WL /\ os'.bo = b
  BY <1>1 DEF OsIdle
<1>3. Issue(t)
  BY <1>2 DEF BlkScanDone
<1>4. n \in Nat
  BY LesserFacts, SizeAssumption DEF IssueUpto
<1>5. ReadState /\ Opening /\ IoTypes /\ mt = "Open"
  BY <1>1, InPhase
<1>6. Cnts("Meta", 0, 0, 0)
  <2>1. os.iss <= os.dn
    BY <1>1, <1>5 DEF ReadState, Total
  <2>. QED
    BY <1>1, <2>1, PhaseOver
<1>7. Len(nq) = 0 /\ IsSeq(nq) /\ Len(done["Meta"]) = 0 /\ DOMAIN done["Meta"] = 1 .. 0
  BY <1>5, <1>6, OpeningQueue, SeqFacts
<1> HIDE DEF n, b
<1>8. IsReads(t, n) /\ \A i \in 1 .. n : t[i].blk = MtBlk2PBN(b) /\ t[i].wl = i - 1
  <2>1. \A i \in 1 .. n : t[i] = ReadCmd("Meta", PageOf(b, 0 + i - 1).blk, PageOf(b, 0 + i - 1).wl)
    BY <1>4 DEF Reads
  <2>a. \A w : PageOf(b, w).blk = MtBlk2PBN(b) /\ PageOf(b, w).wl = w
    BY DEF PageOf, VAddr
  <2>b. \A i \in 1 .. n : 0 + i - 1 = i - 1
    BY <1>4
  <2>2. (\A i \in 1 .. n : t[i].blk = MtBlk2PBN(b) /\ t[i].wl = i - 1)
    <3> HIDE DEF t
    <3>. QED
      BY <2>1, <2>a, <2>b, ReadAt
  <2>3. IsReads(t, n)
    BY <1>4, ReadAt DEF Reads, IsReads
  <2>. QED
    BY <2>2, <2>3
<1> HIDE DEF t
<1>9. IsSeq(t) /\ Len(t) = n
  BY <1>1, <1>3, <1>4, <1>5, <1>8, ReadsTurn, ReadsLen
<1>10. nq' = nq \o t
  BY <1>3 DEF Issue
<1>11. DOMAIN nq' = 1 .. n /\ Len(nq') = n /\ \A i \in 1 .. n : nq'[i] = t[i]
  <2>1. /\ DOMAIN nq' = 1 .. 0 + n /\ Len(nq') = 0 + n
        /\ \A i \in 1 .. 0 + n : i > 0 => nq'[i] = t[i - 0]
    BY <1>7, <1>9, <1>10, ConcatAt
  <2>2. 0 + n = n /\ \A i \in 1 .. n : i > 0 /\ i - 0 = i
    BY <1>4
  <2>. QED
    BY <2>1, <2>2
<1>12. PageScanInv'
  <2>1. \A i \in DOMAIN nq' : nq'[i].blk = MtBlk2PBN(os'.bo) /\ nq'[i].wl = os'.dn + (Len(done'["Meta"]) + i - 1)
    <3> TAKE i \in DOMAIN nq'
    <3>1. i \in 1 .. n /\ nq'[i] = t[i] /\ i \in Int
      BY <1>4, <1>11
    <3>2. t[i].blk = MtBlk2PBN(b) /\ t[i].wl = i - 1
      BY <1>8, <3>1
    <3>3. Len(done'["Meta"]) = 0
      BY <1>1, <1>7
    <3>. QED
      BY <1>2, <3>1, <3>2, <3>3
  <2>2. os'.iss = os'.dn + Len(done'["Meta"]) + Len(nq')
    BY <1>1, <1>2, <1>4, <1>7, <1>11
  <2>3. \A i \in DOMAIN done'["Meta"] : FALSE
    BY <1>1, <1>7
  <2>4. \A v \in WL : ~(v < os'.dn)
    BY <1>2, SizeAssumption DEF WL
  <2>5. ~(os'.cpo < NUM_WL)
    BY <1>2, SizeAssumption
  <2>. QED
    BY <2>1, <2>2, <2>3, <2>4, <2>5 DEF PageScanInv, PageAtScan
<1>13. LookInv' /\ ~Pointed' /\ ~Loaded'
  BY <1>1, <1>2, <1>5 DEF LookInv, Phase, Scanning, Pointed, Loaded
<1>14. mctx'.wl \in WL /\ mt' \in {"Open", "Assert", "Ready"}
  BY <1>1, <1>5 DEF FlashInv, RingInv
<1>15. RoomInv'
  BY <1>5, <1>13, OpeningRoom
<1>. QED
  BY <1>1, <1>12, <1>13, <1>14, <1>15, OpenFlashFrame

LEMMA PageScanReturnFlash ==
  ASSUME MapInv, RestInv, AllocInv, FlashInv, MetaOnly, PageScanReturn
  PROVE  FlashInv'
<1> DEFINE n == PageScanIssued
           b == os.bo
           f == os.iss
           t == Reads(f, n, LAMBDA i : PageOf(b, i))
           d == done["Meta"]
<1>1. /\ Phase("PageScan") /\ mt' = mt /\ os' = [os EXCEPT !.iss = n] /\ Issue(t)
      /\ UNCHANGED <<die, done, mctx>> /\ MetaOpen
      /\ "PageScan" \in ReadSteps /\ "PageScan" # "BlkScan"
  BY DEF PageScanReturn, MetaOpen, ReadSteps
<1>2. ReadState /\ Opening /\ IoTypes /\ mt = "Open" /\ os.step = "PageScan"
  BY <1>1, InPhase
<1>3. /\ IsOs(os) /\ f \in Nat /\ os.dn \in Nat /\ f <= os.dn + 2
      /\ f <= NUM_WL
  BY <1>1, <1>2 DEF ReadState, Total, Phase
<1>4. n \in Nat /\ f <= n
  <2>1. NUM_WL \in Nat /\ os.dn + 2 \in Nat
    BY <1>3, SizeAssumption
  <2>2. CASE os.cpo = NUM_WL
    <3>1. n = Lesser(os.dn + 2, NUM_WL)
      BY <2>2 DEF PageScanIssued, IssueUpto
    <3> HIDE DEF n
    <3>. QED
      BY <1>3, <2>1, <3>1, LesserFacts
  <2>3. CASE os.cpo # NUM_WL
    BY <1>3, <2>3 DEF PageScanIssued
  <2>. QED
    BY <2>2, <2>3
<1>5. os'.step = "PageScan" /\ os'.iss = n /\ os'.dn = os.dn /\ os'.cpo = os.cpo /\ os'.bo = b
  BY <1>1, <1>2, <1>3 DEF IsOs, OsFields
<1>6. /\ \A i \in DOMAIN d : PageAtScan(d[i], i - 1) /\ d[i].pg = die[d[i].blk][d[i].wl]
      /\ \A i \in DOMAIN nq : nq[i].blk = MtBlk2PBN(b) /\ nq[i].wl = os.dn + (Len(d) + i - 1)
      /\ f = os.dn + Len(d) + Len(nq)
      /\ \A v \in WL : v < os.dn /\ v < os.cpo => ~IsErased(die[MtBlk2PBN(b)][v])
      /\ os.cpo < NUM_WL => os.cpo < os.dn /\ IsErased(die[MtBlk2PBN(b)][os.cpo])
  BY <1>1 DEF FlashInv, PageScanInv, PageAtScan
<1> HIDE DEF n, b, f
<1>7. n - f \in Nat
  BY <1>3, <1>4
<1>8. IsReads(t, n - f) /\ \A i \in 1 .. n - f : t[i].blk = MtBlk2PBN(b) /\ t[i].wl = f + i - 1
  <2>1. \A i \in 1 .. n - f : t[i] = ReadCmd("Meta", PageOf(b, f + i - 1).blk, PageOf(b, f + i - 1).wl)
    BY DEF Reads
  <2>a. \A w : PageOf(b, w).blk = MtBlk2PBN(b) /\ PageOf(b, w).wl = w
    BY DEF PageOf, VAddr
  <2>2. \A i \in 1 .. n - f : t[i].blk = MtBlk2PBN(b) /\ t[i].wl = f + i - 1
    <3> HIDE DEF t
    <3>. QED
      BY <2>1, <2>a, ReadAt
  <2>3. IsReads(t, n - f)
    BY ReadAt DEF Reads, IsReads
  <2>. QED
    BY <2>2, <2>3
<1> HIDE DEF t
<1>9. IsSeq(t) /\ Len(t) = n - f
  BY <1>1, <1>2, <1>7, <1>8, ReadsTurn, ReadsLen
<1>10. nq' = nq \o t /\ IsSeq(nq) /\ Len(nq) \in Nat /\ IsSeq(d) /\ Len(d) \in Nat
       /\ DOMAIN nq = 1 .. Len(nq)
  BY <1>1, <1>2, SeqFacts, KeysDiffer DEF Issue, IoTypes, GoodCmds
<1> DEFINE q == Len(nq)
           m == Len(d)
<1>11. /\ DOMAIN nq' = 1 .. q + (n - f) /\ Len(nq') = q + (n - f)
       /\ \A i \in 1 .. q : nq'[i] = nq[i]
       /\ \A i \in 1 .. q + (n - f) : i > q => nq'[i] = t[i - q] /\ i - q \in 1 .. n - f
  <2>1. nq' = nq \o t /\ IsSeq(nq) /\ IsSeq(t) /\ Len(t) = n - f
    BY <1>9, <1>10
  <2>. QED
    BY <2>1, ConcatAt
<1>12. PageScanInv'
  <2>1. ASSUME NEW i \in DOMAIN nq'
        PROVE  nq'[i].blk = MtBlk2PBN(b) /\ nq'[i].wl = os.dn + (m + i - 1)
    <3>0. q \in Nat /\ m \in Nat /\ f = os.dn + m + q /\ i \in Nat
      BY <1>6, <1>10, <1>11, <2>1
    <3> HIDE DEF q, m
    <3>1. CASE i <= q
      <4>1. i \in 1 .. q
        BY <1>3, <1>4, <1>7, <1>11, <2>1, <3>0, <3>1
      <4>2. i \in DOMAIN nq /\ nq'[i] = nq[i]
        BY <1>10, <1>11, <4>1 DEF q
      <4>. QED
        BY <1>6, <4>2 DEF m
    <3>2. CASE i > q
      <4>1. nq'[i] = t[i - q] /\ i - q \in 1 .. n - f
        BY <1>11, <2>1, <3>2
      <4>2. nq'[i].blk = MtBlk2PBN(b) /\ nq'[i].wl = f + (i - q) - 1
        BY <1>8, <4>1
      <4>. QED
        BY <1>3, <3>0, <4>2
    <3>. QED
      BY <3>0, <3>1, <3>2
  <2>2. n = os.dn + m + (q + (n - f))
    <3>0. q \in Nat /\ m \in Nat /\ f = os.dn + m + q
      BY <1>6, <1>10
    <3> HIDE DEF q, m
    <3>. QED
      BY <1>3, <1>4, <3>0
  <2>3. Len(nq') = q + (n - f)
    BY <1>11
  <2> HIDE DEF q
  <2>4. os'.iss = os'.dn + Len(done'["Meta"]) + Len(nq')
    BY <1>1, <1>5, <2>2, <2>3
  <2>5. \A i \in DOMAIN nq' : nq'[i].blk = MtBlk2PBN(os'.bo) /\ nq'[i].wl = os'.dn + (Len(done'["Meta"]) + i - 1)
    BY <1>1, <1>5, <2>1
  <2>. QED
    BY <1>1, <1>5, <1>6, <2>4, <2>5 DEF PageScanInv, PageAtScan
<1>13. LookInv' /\ ~Pointed' /\ ~Loaded'
  BY <1>1, <1>5, <1>2 DEF LookInv, Phase, Scanning, Pointed, Loaded
<1>14. mctx'.wl \in WL /\ mt' \in {"Open", "Assert", "Ready"}
  BY <1>1, <1>2 DEF FlashInv, RingInv
<1>15. RoomInv'
  BY <1>2, <1>13, OpeningRoom
<1>. QED
  BY <1>1, <1>12, <1>13, <1>14, <1>15, OpenFlashFrame

LEMMA PageScanPopFlash ==
  ASSUME MapInv, RestInv, AllocInv, FlashInv, MetaOnly, PageScanPop
  PROVE  FlashInv'
<1> DEFINE d == done["Meta"]
           c == DoneHead("Meta")
           b == MtBlk2PBN(os.bo)
           x == IF IsErased(c.pg) /\ os.cpo = NUM_WL THEN c.wl ELSE os.cpo
           n == os.dn
           m == Len(done["Meta"])
           q == Len(nq)
<1>1. /\ Phase("PageScan") /\ HasDone("Meta") /\ PopDone("Meta")
      /\ UNCHANGED <<die, nq, mt>> /\ MetaOpen
      /\ "PageScan" \in ReadSteps /\ "PageScan" # "BlkScan"
      /\ os' = [os EXCEPT !.dn = @ + 1, !.cpo = x] \/ (os' = [os EXCEPT !.dn = @ + 1] /\ x = os.cpo)
  BY DEF PageScanPop, MetaOpen, ReadSteps
<1>2. ReadState /\ Opening /\ IoTypes /\ mt = "Open" /\ os.step = "PageScan" /\ AddrInv
  BY <1>1, InPhase
<1>3. IsOs(os) /\ n \in Nat /\ os.cpo \in 0 .. NUM_WL
  BY <1>1, <1>2 DEF ReadState, Phase
<1>4. IsSeq(d) /\ d # <<>> /\ m \in Nat /\ m > 0 /\ q \in Nat /\ DOMAIN d = 1 .. m /\ IsSeq(nq)
      /\ DOMAIN nq = 1 .. q
  <2>1. IsSeq(d) /\ d # <<>> /\ IsSeq(nq)
    BY <1>1, <1>2, KeysDiffer DEF IoTypes, GoodCmds, HasDone
  <2>2. 1 \in DOMAIN d
    BY <2>1, TailAt
  <2>. QED
    BY <2>1, <2>2, SeqFacts
<1>5. done'["Meta"] = Tail(d)
  BY <1>1, <1>2, KeysDiffer DEF PopDone, IoTypes
<1>6. Len(Tail(d)) = m - 1 /\ Head(d) = d[1] /\ 1 \in DOMAIN d
      /\ \A i \in DOMAIN Tail(d) : i + 1 \in DOMAIN d /\ Tail(d)[i] = d[i + 1] /\ i \in Nat
  BY <1>4, TailFacts, TailAt
<1>7. /\ \A i \in DOMAIN d : d[i].blk = b /\ d[i].wl = n + (i - 1) /\ d[i].pg = die[d[i].blk][d[i].wl]
      /\ \A i \in DOMAIN nq : nq[i].blk = b /\ nq[i].wl = n + (m + i - 1)
      /\ os.iss = n + m + q
      /\ \A v \in WL : v < n /\ v < os.cpo => ~IsErased(die[b][v])
      /\ os.cpo < NUM_WL => os.cpo < n /\ IsErased(die[b][os.cpo])
  BY <1>1 DEF FlashInv, PageScanInv, PageAtScan
<1>8. c.blk = b /\ c.wl = n /\ c.pg = die[b][n]
  <2>1. c = d[1]
    BY <1>6 DEF DoneHead
  <2>2. n + (1 - 1) = n
    BY <1>3
  <2>. QED
    BY <1>6, <1>7, <2>1, <2>2
<1>9. os'.step = "PageScan" /\ os'.iss = os.iss /\ os'.dn = n + 1 /\ os'.bo = os.bo /\ os'.cpo = x
  <2> HIDE DEF x
  <2>. QED
    BY <1>1, <1>2, <1>3 DEF IsOs, OsFields
<1>10. x = os.cpo \/ (x = n /\ os.cpo = NUM_WL /\ IsErased(die[b][n]))
  BY <1>8
<1>11. x = NUM_WL => ~IsErased(die[b][n]) \/ n = NUM_WL
  BY <1>8
<1>12. IsErased(die[b][n]) => x = n \/ x < NUM_WL
  BY <1>3, <1>8, SizeAssumption
<1> HIDE DEF b, n, c, x, d
<1>13. ASSUME NEW i \in DOMAIN done'["Meta"]
       PROVE  /\ done'["Meta"][i].blk = b /\ done'["Meta"][i].wl = os'.dn + (i - 1)
              /\ done'["Meta"][i].pg = die'[done'["Meta"][i].blk][done'["Meta"][i].wl]
  <2>1. i + 1 \in DOMAIN d /\ done'["Meta"][i] = d[i + 1] /\ i \in Nat
    BY <1>5, <1>6, <1>13
  <2>2. d[i + 1].blk = b /\ d[i + 1].wl = n + (i + 1 - 1) /\ d[i + 1].pg = die[d[i + 1].blk][d[i + 1].wl]
    BY <1>7, <2>1
  <2>3. n + (i + 1 - 1) = (n + 1) + (i - 1)
    BY <1>3, <2>1
  <2>4. done'["Meta"][i].blk = b /\ done'["Meta"][i].wl = os'.dn + (i - 1)
        /\ done'["Meta"][i].pg = die'[done'["Meta"][i].blk][done'["Meta"][i].wl]
    BY <1>1, <1>9, <2>1, <2>2, <2>3
  <2>. QED
    BY <2>4
<1>14. ASSUME NEW i \in DOMAIN nq'
       PROVE  nq'[i].blk = b /\ nq'[i].wl = os'.dn + (Len(done'["Meta"]) + i - 1)
  <2>1. i \in DOMAIN nq /\ nq'[i] = nq[i] /\ i \in Nat
    BY <1>1, <1>4, <1>14
  <2>2. nq[i].blk = b /\ nq[i].wl = n + (m + i - 1)
    BY <1>7, <2>1
  <2>3. n + (m + i - 1) = (n + 1) + ((m - 1) + i - 1)
    <3>1. n \in Nat /\ m \in Nat /\ i \in Nat
      BY <1>3, <1>4, <2>1
    <3> HIDE DEF m
    <3>. QED
      BY <3>1
  <2>. QED
    BY <1>5, <1>6, <1>9, <2>1, <2>2, <2>3
<1>15. os'.iss = os'.dn + Len(done'["Meta"]) + Len(nq')
  <2>1. n + m + q = (n + 1) + (m - 1) + q
    <3>1. n \in Nat /\ m \in Nat /\ q \in Nat
      BY <1>3, <1>4
    <3> HIDE DEF m, q
    <3>. QED
      BY <3>1
  <2>. QED
    BY <1>1, <1>5, <1>6, <1>7, <1>9, <2>1
<1>16. ASSUME NEW v \in WL, v < n + 1, v < x
       PROVE  ~IsErased(die[b][v])
  <2>0. v \in Nat /\ NUM_WL \in Nat /\ v < NUM_WL
    BY SizeAssumption DEF WL
  <2>1. CASE v < n
    <3>1. v < os.cpo
      BY <1>3, <1>10, <1>16, <2>0
    <3>. QED
      BY <1>7, <2>1, <3>1
  <2>2. CASE v = n
    <3>1. SUFFICES ASSUME IsErased(die[b][n]) PROVE FALSE
      BY <2>2
    <3>2. x < NUM_WL
      BY <1>12, <1>16, <2>2, <3>1, <2>0
    <3>3. x = os.cpo
      BY <1>10, <1>16, <2>0, <2>2
    <3>4. os.cpo < n
      BY <1>7, <3>2, <3>3
    <3>. QED
      BY <1>3, <1>16, <2>2, <3>3, <3>4
  <2>. QED
    BY <1>3, <1>16, <2>0, <2>1, <2>2
<1>17. x < NUM_WL => x < n + 1 /\ IsErased(die[b][x])
  BY <1>3, <1>7, <1>10
<1>18. PageScanInv'
  <2>1. \A v \in WL : v < os'.dn /\ v < os'.cpo => ~IsErased(die'[MtBlk2PBN(os'.bo)][v])
    BY <1>1, <1>9, <1>16 DEF b
  <2>2. os'.cpo < NUM_WL => os'.cpo < os'.dn /\ IsErased(die'[MtBlk2PBN(os'.bo)][os'.cpo])
    BY <1>1, <1>9, <1>17 DEF b
  <2>3. \A i \in DOMAIN nq' : nq'[i].blk = MtBlk2PBN(os'.bo) /\ nq'[i].wl = os'.dn + (Len(done'["Meta"]) + i - 1)
    BY <1>9, <1>14 DEF b
  <2>4. \A i \in DOMAIN done'["Meta"] :
          /\ done'["Meta"][i].blk = MtBlk2PBN(os'.bo) /\ done'["Meta"][i].wl = os'.dn + (i - 1)
          /\ done'["Meta"][i].pg = die'[done'["Meta"][i].blk][done'["Meta"][i].wl]
    BY <1>9, <1>13 DEF b
  <2>. QED
    BY <1>15, <2>1, <2>2, <2>3, <2>4 DEF PageScanInv, PageAtScan
<1>19. LookInv' /\ ~Pointed' /\ ~Loaded'
  BY <1>1, <1>9, <1>2 DEF LookInv, Phase, Scanning, Pointed, Loaded
<1>20. mctx'.wl \in WL /\ mt' \in {"Open", "Assert", "Ready"}
  <2>1. mctx' = mctx \/ \E a, s : mctx' = [mctx EXCEPT !.age = a, !.slice = s]
    BY DEF PageScanPop
  <2>2. mctx'.wl = mctx.wl
    BY <1>2, <2>1 DEF AddrInv, IsCtx
  <2>. QED
    BY <1>1, <1>2, <2>2 DEF FlashInv, RingInv
<1>21. RoomInv'
  BY <1>2, <1>19, OpeningRoom
<1>. QED
  BY <1>1, <1>18, <1>19, <1>20, <1>21, OpenFlashFrame

\* The end of page scan: the next page to save to is the first erased one.
LEMMA PageScanDoneFlash ==
  ASSUME MapInv, RestInv, AllocInv, FlashInv, MetaOnly, PageScanDone
  PROVE  FlashInv'
<1> DEFINE b == MtBlk2PBN(os.bo)
<1>1. /\ Phase("PageScan") /\ mt' = mt /\ die' = die /\ MetaOpen
      /\ os'.step = "MtLoad" /\ "PageScan" \in ReadSteps /\ "PageScan" # "BlkScan"
  BY DEF PageScanDone, MetaOpen, ReadSteps, OsIdle
<1>2. ReadState /\ Opening /\ IoTypes /\ mt = "Open" /\ AddrInv
  BY <1>1, InPhase
<1>3. os.dn \in Nat /\ os.cpo \in 0 .. NUM_WL /\ os.bo \in MOff
  BY <1>1, <1>2 DEF ReadState, Phase
<1>4. CASE os.cpo = NUM_WL
  <2>1. mctx'.wl = 0
    BY <1>2, <1>4 DEF PageScanDone, AddrInv, IsCtx
  <2>2. mctx'.wl \in WL
    BY <2>1, SizeAssumption DEF WL
  <2>. QED
    BY <1>1, <1>2, <2>1, <2>2, EarlyFlash
<1>5. CASE os.cpo # NUM_WL
  <2>1. mctx'.wl = os.cpo /\ mctx'.bo = os.bo
    BY <1>2, <1>5 DEF PageScanDone, AddrInv, IsCtx
  <2>2. os.cpo < NUM_WL /\ os.cpo \in WL
    BY <1>3, <1>5, SizeAssumption DEF WL
  <2>3. /\ \A v \in WL : v < os.dn /\ v < os.cpo => ~IsErased(die[b][v])
        /\ os.cpo < os.dn /\ IsErased(die[b][os.cpo])
    BY <1>1, <2>2 DEF FlashInv, PageScanInv
  <2>4. b \in MBlk
    BY <1>3, RingBlk
  <2>5. \A v \in WL : os.cpo < v => IsErased(die[b][v])
    BY <2>2, <2>3, <2>4 DEF FlashInv, RingInv
  <2>6. \A v \in WL : v \in Nat
    BY SizeAssumption DEF WL
  <2>7. \A v \in WL : IsErased(die[b][v]) <=> v >= os.cpo
    <3>1. ASSUME NEW v \in WL, v >= os.cpo PROVE IsErased(die[b][v])
      BY <1>3, <2>3, <2>5, <2>6, <3>1
    <3>2. ASSUME NEW v \in WL, ~(v >= os.cpo) PROVE ~IsErased(die[b][v])
      <4>1. v < os.cpo /\ v < os.dn
        BY <1>3, <2>3, <2>6, <3>2
      <4>. QED
        BY <2>3, <4>1
    <3>. QED
      BY <3>1, <3>2
  <2>8. FilledTo(MtBlk2PBN(mctx.bo), mctx.wl)'
    BY <1>1, <2>1, <2>7 DEF FilledTo, MtBlk2PBN
  <2>. QED
    BY <1>1, <1>2, <2>1, <2>2, <2>8, EarlyFlash
<1>. QED
  BY <1>4, <1>5

LEMMA ScanStartErs ==
  ASSUME NEW o, ScanStart(o)
  PROVE  us'.ers = FF16
<1> DEFINE u == [blk |-> opn[o].blk, wl |-> opn[o].wl, ers |-> FF16, nRun |-> 0]
           n == ScanIssues(u)
<1>1. us' = [u EXCEPT !.wl = @ + n, !.nRun = @ + n]
  BY DEF ScanStart, ScanIssued
<1> HIDE DEF n
<1>. QED
  BY <1>1

\* The next page to save to stays known.
LEMMA StillPointed ==
  ASSUME FlashInv, Pointed, UNCHANGED <<mctx, die>>
  PROVE  mctx'.wl \in WL /\ (Pointed' /\ mctx'.wl # 0 => FilledTo(MtBlk2PBN(mctx.bo), mctx.wl)')
  BY DEF FlashInv, RingInv, FilledTo

LEMMA MtLoadDoneFlash ==
  ASSUME MapInv, RestInv, AllocInv, FlashInv, MetaOnly, MtLoadDone, ResumeSound'
  PROVE  FlashInv'
<1>1. /\ Phase("MtLoad") /\ mt' = mt /\ os.dn = NUM_MAP_SLICE /\ os'.step = "GcScan"
      /\ ScanStart("GC") /\ UNCHANGED <<die, done, opn, mctx>> /\ MetaOpen
  BY DEF MtLoadDone, MetaOpen, OsIdle
<1>2. "MtLoad" \in ReadSteps /\ "MtLoad" # "BlkScan" /\ "MtLoad" # "PageScan"
  BY DEF ReadSteps
<1>3. ReadState /\ mt = "Open" /\ os.step = "MtLoad" /\ Opening
  BY <1>1, <1>2, InPhase
<1>4. Cnts("Meta", 0, 0, 0)
  <2>1. os.iss <= os.dn
    BY <1>1, <1>2, <1>3 DEF ReadState, Total, Phase
  <2>. QED
    BY <1>1, <1>2, <2>1, PhaseOver
<1>5. Elems(done["Meta"]) = {}
  BY <1>3, <1>4, OpeningQueue
<1>6. ScanRead'
  BY <1>1, <1>5, ScanStartErs DEF ScanRead
<1>7. Phase("GcScan")' /\ ~Phase("UserScan")' /\ ~Phase("PageScan")'
  BY <1>1, <1>3 DEF Phase
<1>8. \A o \in OpenType : (opn[o].wl < NUM_WL => FillsUp(o))'
  BY <1>7 DEF ResumeSound
<1>9. LookInv' /\ PageScanInv'
  <2>1. (opn["GC"].wl < NUM_WL => FillsUp("GC"))' /\ (opn["USER"].wl < NUM_WL => FillsUp("USER"))'
    BY <1>8, StreamsDiffer
  <2>. QED
    BY <1>6, <1>7, <2>1 DEF LookInv, PageScanInv
<1>10. RoomInv'
  <2>1. ~Loaded'
    BY <1>1, <1>3 DEF Loaded
  <2>. QED
    BY <1>3, <2>1, OpeningRoom
<1>11. mctx'.wl \in WL /\ (Pointed' /\ mctx'.wl # 0 => FilledTo(MtBlk2PBN(mctx.bo), mctx.wl)')
  BY <1>1, StillPointed DEF Pointed
<1>. QED
  BY <1>1, <1>3, <1>9, <1>10, <1>11, OpenFlashFrame

\* A step within the scan of a stream.
LEMMA ScanGoesFlash ==
  ASSUME MapInv, RestInv, AllocInv, FlashInv, MetaOnly, MetaOpen, NEW o \in OpenType, ScanPhase(o),
         UNCHANGED <<die, opn, mctx, mt, os>>, ScanRead'
  PROVE  FlashInv'
<1>1. Opening /\ mt = "Open" /\ Scanning /\ ~Phase("PageScan")
  BY InScan, StreamsDiffer DEF ScanPhase, Scanning, Phase
<1>2. LookInv' /\ PageScanInv'
  <2>1. (Phase("GcScan")' <=> Phase("GcScan")) /\ (Phase("UserScan")' <=> Phase("UserScan"))
        /\ ~Phase("PageScan")' /\ (Scanning' <=> Scanning)
    BY <1>1 DEF Phase, Scanning
  <2>2. (FillsUp("GC")' <=> FillsUp("GC")) /\ (FillsUp("USER")' <=> FillsUp("USER"))
    BY DEF FillsUp
  <2>3. ErasedFrom(opn["GC"].blk, opn["GC"].wl)' <=> ErasedFrom(opn["GC"].blk, opn["GC"].wl)
    BY DEF ErasedFrom
  <2>. QED
    BY <2>1, <2>2, <2>3 DEF LookInv, PageScanInv, FlashInv
<1>3. RoomInv'
  <2>1. ~Loaded'
    BY <1>1 DEF Loaded
  <2>. QED
    BY <1>1, <2>1, OpeningRoom
<1>4. mctx'.wl \in WL /\ (Pointed' /\ mctx'.wl # 0 => FilledTo(MtBlk2PBN(mctx.bo), mctx.wl)')
  BY <1>1, StillPointed DEF Pointed
<1>. QED
  BY <1>1, <1>2, <1>3, <1>4, OpenFlashFrame

LEMMA ScanPopFlash ==
  ASSUME MapInv, RestInv, AllocInv, FlashInv, MetaOnly, NEW o \in OpenType, ScanPop(o)
  PROVE  FlashInv'
<1> DEFINE c == DoneHead("Meta")
           e == IF IsErased(c.pg) /\ us.ers = FF16 THEN c.wl ELSE us.ers
<1>1. /\ ScanPhase(o) /\ HasDone("Meta") /\ PopDone("Meta")
      /\ us' = [us EXCEPT !.nRun = @ - 1, !.ers = e]
      /\ UNCHANGED <<die, nq, opn, mctx, mt, os>> /\ MetaOpen
  BY DEF ScanPop, MetaOpen
<1>2. ScanOf(us) /\ ScanState(o) /\ IoTypes
  BY <1>1, InScan
<1>3. Turns(<<>>, {"Meta"})
  BY <1>1, <1>2, PopTurn, KeysDiffer
<1>4. Elems(done'["Meta"]) \subseteq Elems(done["Meta"])
  BY <1>2, <1>3, TurnUnder, KeysDiffer
<1>5. ScanRead
  BY <1>1 DEF ScanPhase, FlashInv, LookInv
<1>6. c \in Elems(done["Meta"]) /\ c \in Under["Meta"]
  <2>1. IsSeq(done["Meta"]) /\ done["Meta"] # <<>>
    BY <1>1, <1>2, KeysDiffer DEF IoTypes, GoodCmds, HasDone
  <2>2. c \in Elems(done["Meta"])
    BY <2>1, TailAt DEF DoneHead, Elems
  <2>. QED
    BY <2>2, KeysDiffer DEF Under
<1>7. c.pg = die[us.blk][c.wl]
  <2>1. c.blk = us.blk
    BY <1>2, <1>6 DEF ScanState
  <2>. QED
    BY <1>5, <1>6, <2>1 DEF ScanRead
<1>8. e # FF16 => IsErased(die[us.blk][e])
  BY <1>5, <1>7 DEF ScanRead
<1> HIDE DEF c, e
<1>9. us'.blk = us.blk /\ us'.ers = e
  BY <1>1, <1>2 DEF ScanOf, IsUs, UsFields
<1>10. ScanRead'
  BY <1>1, <1>4, <1>5, <1>8, <1>9 DEF ScanRead
<1>. QED
  BY <1>1, <1>10, ScanGoesFlash

LEMMA ScanReturnFlash ==
  ASSUME MapInv, RestInv, AllocInv, FlashInv, MetaOnly, NEW o \in OpenType, ScanReturn(o)
  PROVE  FlashInv'
<1> DEFINE n == ScanIssues(us)
<1>1. /\ ScanPhase(o) /\ us' = [us EXCEPT !.wl = @ + n, !.nRun = @ + n]
      /\ UNCHANGED <<die, done, opn, mctx, mt, os>> /\ MetaOpen
  BY DEF ScanReturn, mapVars, MetaOpen, ScanIssued
<1>2. ScanOf(us)
  BY <1>1, InScan
<1> HIDE DEF n
<1>3. us'.blk = us.blk /\ us'.ers = us.ers
  BY <1>1, <1>2 DEF ScanOf, IsUs, UsFields
<1>4. ScanRead
  BY <1>1 DEF ScanPhase, FlashInv, LookInv
<1>5. ScanRead'
  BY <1>1, <1>3, <1>4 DEF ScanRead
<1>. QED
  BY <1>1, <1>5, ScanGoesFlash

\* Where the scan of stream o leaves the stream, its block is erased from the
\* next address on.
LEMMA ScanOverErased ==
  ASSUME MapInv, RestInv, AllocInv, FlashInv, NEW o \in OpenType, ScanOver(o), opn'[o].wl < NUM_WL
  PROVE  \A v \in WL : v >= opn'[o].wl => IsErased(die[opn'[o].blk][v])
<1>1. /\ ScanPhase(o) /\ us.nRun + ScanIssues(us) = 0
      /\ opn' = [opn EXCEPT ![o].wl = IF us.ers # FF16 THEN us.ers ELSE NUM_WL]
  BY DEF ScanOver, ScanEnd
<1>2. us.blk = opn[o].blk /\ AddrInv
  BY <1>1, InScan
<1>3. opn'[o].blk = opn[o].blk /\ opn[o].wl < NUM_WL
  BY ScanOverAddr
<1>4. opn'[o].wl = IF us.ers # FF16 THEN us.ers ELSE NUM_WL
  <2> DEFINE w == IF us.ers # FF16 THEN us.ers ELSE NUM_WL
  <2>1. opn = [u \in OpenType |-> opn[u]] /\ opn[o] = [blk |-> opn[o].blk, wl |-> opn[o].wl]
    BY <1>2 DEF AddrInv, IsNext, VAddr
  <2> HIDE DEF w
  <2>2. opn' = [opn EXCEPT ![o].wl = w]
    BY <1>1 DEF w
  <2>3. opn'[o] = [opn[o] EXCEPT !.wl = w]
    BY <2>1, <2>2
  <2>4. opn'[o].wl = w
    BY <2>1, <2>3
  <2>. QED
    BY <2>4 DEF w
<1>5. us.ers # FF16 /\ opn'[o].wl = us.ers
  BY <1>4, SizeAssumption
<1>6. us.ers \in WL /\ us.ers >= opn[o].wl
  BY <1>1, <1>5 DEF AllocInv, ScanAddr, ScanPhase, LookAddr
<1>7. IsErased(die[opn[o].blk][us.ers]) /\ FillsUp(o)
  BY <1>1, <1>2, <1>3, <1>5 DEF ScanPhase, FlashInv, LookInv, ScanRead, Scanning
<1>8. ASSUME NEW v \in WL, v >= us.ers
      PROVE  IsErased(die[opn[o].blk][v])
  <2>0. opn[o].wl \in Nat /\ us.ers \in Nat /\ v \in Nat
    BY <1>2, <1>6, SizeAssumption DEF AddrInv, IsNext, WL
  <2>1. CASE v = us.ers
    BY <1>7, <2>1
  <2>2. CASE v > us.ers
    <3>1. opn[o].wl <= us.ers /\ us.ers < v
      BY <1>6, <2>0, <2>2
    <3>. QED
      BY <1>6, <1>7, <3>1 DEF FillsUp
  <2>. QED
    BY <1>8, <2>0, <2>1, <2>2
<1>. QED
  BY <1>3, <1>5, <1>8

LEMMA GcScanDoneFlash ==
  ASSUME MapInv, RestInv, AllocInv, FlashInv, MetaOnly, GcScanDone
  PROVE  FlashInv'
<1>1. /\ ScanOver("GC") /\ os'.step = "UserScan" /\ ScanStart("USER") /\ Phase("GcScan")
      /\ UNCHANGED <<die, done, mctx, mt>> /\ MetaOpen /\ "GC" \in OpenType /\ "USER" \in OpenType
      /\ "GC" # "USER"
  BY StreamsDiffer DEF GcScanDone, MetaOpen, OsIdle, ScanOver, ScanPhase
<1>2. Cnts("Meta", 0, 0, 0) /\ Opening /\ mt = "Open" /\ opn'["USER"] = opn["USER"]
  BY <1>1, ScanOverKeeps
<1>3. Elems(done["Meta"]) = {}
  BY <1>2, OpeningQueue
<1>4. ScanRead'
  BY <1>1, <1>3, ScanStartErs DEF ScanRead
<1>5. Phase("UserScan")' /\ ~Phase("GcScan")' /\ ~Phase("PageScan")'
  BY <1>1, <1>2 DEF Phase
<1>6. opn'["GC"].wl < NUM_WL =>
        \A v \in WL : v >= opn'["GC"].wl => IsErased(die'[opn'["GC"].blk][v])
  BY <1>1, ScanOverErased
<1>7. opn["USER"].wl < NUM_WL => FillsUp("USER")
  BY <1>1 DEF FlashInv, LookInv, Scanning
<1>8. LookInv' /\ PageScanInv'
  <2>1. (opn["GC"].wl < NUM_WL => ErasedFrom(opn["GC"].blk, opn["GC"].wl))'
    BY <1>6 DEF ErasedFrom
  <2>2. (opn["USER"].wl < NUM_WL => FillsUp("USER"))'
    BY <1>1, <1>2, <1>7 DEF FillsUp
  <2>. QED
    BY <1>4, <1>5, <2>1, <2>2 DEF LookInv, PageScanInv
<1>9. RoomInv'
  <2>1. ~Loaded'
    BY <1>1, <1>2 DEF Loaded
  <2>. QED
    BY <1>2, <2>1, OpeningRoom
<1>10. mctx'.wl \in WL /\ (Pointed' /\ mctx'.wl # 0 => FilledTo(MtBlk2PBN(mctx.bo), mctx.wl)')
  <2>1. Pointed
    BY <1>1 DEF Pointed, Scanning
  <2>. QED
    BY <1>1, <2>1, StillPointed
<1>. QED
  BY <1>1, <1>2, <1>8, <1>9, <1>10, OpenFlashFrame

\* META is ready: both streams have room where their scan found it.
LEMMA UserScanDoneFlash ==
  ASSUME MapInv, RestInv, AllocInv, FlashInv, MetaOnly, UserScanDone
  PROVE  FlashInv'
<1>1. /\ ScanOver("USER") /\ mt' = "Ready" /\ Phase("UserScan") /\ ~Phase("GcScan")
      /\ UNCHANGED <<die, done, mctx>> /\ MetaOpen /\ "GC" \in OpenType /\ "USER" \in OpenType
      /\ "GC" # "USER"
  BY StreamsDiffer DEF UserScanDone, MetaOpen, OsIdle, ScanOver, ScanPhase, Phase, ioVars
<1>2. Opening /\ mt = "Open" /\ opn'["GC"] = opn["GC"]
  BY <1>1, ScanOverKeeps
<1>3. opn'["USER"].wl < NUM_WL =>
        \A v \in WL : v >= opn'["USER"].wl => IsErased(die'[opn'["USER"].blk][v])
  BY <1>1, ScanOverErased
<1>4. opn["GC"].wl < NUM_WL => ErasedFrom(opn["GC"].blk, opn["GC"].wl)
  BY <1>1 DEF FlashInv, LookInv
<1>5. /\ erb'["USER"].step = "Init" /\ erb'["GC"].step = "Init" /\ gcSt' = "WaitOpen"
  BY <1>2, OpeningRests DEF MetaOnly, gcVars
<1>6. RoomInv'
  <2>1. (opn["USER"].wl < NUM_WL => ErasedFrom(opn["USER"].blk, opn["USER"].wl))'
    BY <1>3 DEF ErasedFrom
  <2>2. (opn["GC"].wl < NUM_WL => ErasedFrom(opn["GC"].blk, opn["GC"].wl))'
    BY <1>1, <1>2, <1>4 DEF ErasedFrom
  <2>. QED
    BY <1>5, <2>1, <2>2, StreamsDiffer DEF RoomInv
<1>7. LookInv' /\ PageScanInv'
  BY <1>1 DEF LookInv, PageScanInv, Phase, Scanning
<1>8. mctx'.wl \in WL /\ (Pointed' /\ mctx'.wl # 0 => FilledTo(MtBlk2PBN(mctx.bo), mctx.wl)')
  <2>1. Pointed
    BY <1>1 DEF Pointed, Scanning
  <2>. QED
    BY <1>1, <2>1, StillPointed
<1>. QED
  BY <1>1, <1>6, <1>7, <1>8, OpenFlashFrame

LEMMA OpenFlash ==
  ASSUME MapInv, RestInv, AllocInv, FlashInv, MetaOnly, MetaOpen, ResumeSound'
  PROVE  FlashInv'
<1>1. CASE \E o \in OpenType : ScanPop(o) \/ ScanReturn(o)
  BY <1>1, ScanPopFlash, ScanReturnFlash
<1>2. CASE ~(\E o \in OpenType : ScanPop(o) \/ ScanReturn(o))
  <2>1. \/ MetaInit \/ BlkScanIssue \/ BlkScanPop \/ BlkScanReturn \/ MetaFormat \/ BlkScanDone
        \/ PageScanPop \/ PageScanReturn \/ PageScanDone
        \/ MtLoadPop \/ MtLoadReturn \/ MtLoadDone \/ GcScanDone \/ UserScanDone
    BY <1>2 DEF MetaOpen
  <2>. QED
    BY <2>1, MetaInitFlash, BlkScanFlash, MetaFormatFlash, PageScanStarts, PageScanPopFlash,
       PageScanReturnFlash, PageScanDoneFlash, MtLoadFlash, MtLoadDoneFlash, GcScanDoneFlash,
       UserScanDoneFlash
<1>. QED
  BY <1>1, <1>2

-----------------------------------------------------------------------------
(* Programs in order: the invariant holds.                                 *)

\* What a power cycle leaves of the meta ring.
RingAscends ==
  \A b \in MBlk, v, w \in WL : v < w /\ IsErased(die[b][v]) => IsErased(die[b][w])

LEMMA FreshFlash == Fresh /\ RingAscends => FlashInv
<1> SUFFICES ASSUME Fresh, RingAscends PROVE FlashInv
  OBVIOUS
<1> USE DEF Fresh
<1>1. \A k \in CbKey : Under[k] = {} /\ Pgms(k) = {} /\ Erbs(k) = {} /\ Elems(done[k]) = {}
  <2>1. \A k \in CbKey : Under[k] = {}
    BY NoUnder, KeysDiffer DEF Rested, NoneOf, Cnts
  <2>. QED
    BY <2>1 DEF Pgms, Erbs, Under
<1>2. Elems(nq) = {}
  <2>1. \A c \in Elems(nq) : c \in Under[c.cb] /\ c.cb \in CbKey
    BY QueuedIsUnder DEF Rested
  <2>. QED
    BY <1>1, <2>1
<1>3. MetaCmds
  BY <1>1, KeysDiffer DEF MetaCmds
<1>4. DoneInv
  BY <1>1 DEF DoneInv
<1>5. OrderInv
  BY <1>2 DEF OrderInv, Elems
<1>6. RoomInv
  BY DEF RoomInv, Rested, Loaded, ErbIdle
<1>7. LookInv /\ PageScanInv
  BY DEF LookInv, PageScanInv, Phase, Scanning, OsIdle
<1>8. RingInv
  <2>1. mctx.wl = 0 /\ mctx.wl \in WL
    BY SizeAssumption DEF Rested, WL
  <2>. QED
    BY <1>1, <1>2, <2>1, KeysDiffer DEF RingInv, Rested, RingAscends
<1>. QED
  BY <1>3, <1>4, <1>5, <1>6, <1>7, <1>8 DEF FlashInv

LEMMA FlashInductive ==
  ASSUME MapInv, RestInv, AllocInv, FlashInv, [Next]_vars, ResumeSound'
  PROVE  FlashInv'
<1>1. CASE TaskReq
  BY <1>1, ReqFlash DEF TaskReq
<1>2. CASE TaskResp
  BY <1>2, RespFlash DEF TaskResp
<1>3. CASE TaskGc
  BY <1>3, GcFlash DEF TaskGc
<1>4. CASE TaskMeta
  <2>1. MetaOnly /\ ((MetaSave /\ UNCHANGED openVars) \/ MetaOpen)
    BY <1>4 DEF TaskMeta, MetaOnly
  <2>2. RestInv'
    BY RestInductive
  <2>. QED
    BY <2>1, <2>2, SaveFlash, OpenFlash
<1>5. CASE SchedRound \/ UNCHANGED vars \/ Host
  <2>1. UNCHANGED ioVars /\ UNCHANGED <<mctx, mt, os, us, opn, erb, gcSt, mv>>
    BY <1>5 DEF SchedRound, RoundWith, vars, otherThanSched, Host, HostWrite, HostRead,
       HostShutdown, Submit, openVars, mapVars, gcVars
  <2>. QED
    BY <2>1, QuietFlash
<1>6. CASE Nand
  BY <1>6, NandFlash
<1>7. CASE PowerCycle
  <2>1. Fresh'
    BY <1>7, PowerCycleFresh
  <2>2. RingAscends'
    BY <1>7 DEF PowerCycle, RingAscends, FlashInv, RingInv
  <2>. QED
    BY <2>1, <2>2, FreshFlash, PTL
<1>. QED
  BY <1>1, <1>2, <1>3, <1>4, <1>5, <1>6, <1>7 DEF Next, Task

LEMMA InitFlash == Init => FlashInv
<1>1. Init => RingAscends
  <2> SUFFICES ASSUME Init PROVE RingAscends
    OBVIOUS
  <2>1. \A b \in MBlk, w \in WL : die[b][w] = Erased
    BY BlksAre DEF Init, IoInit
  <2>. QED
    BY <2>1 DEF RingAscends, IsErased, Erased
<1>. QED
  BY <1>1, InitFresh, FreshFlash

LEMMA HeadInOrder ==
  ASSUME RestInv, FlashInv
  PROVE  ProgramsInOrder
<1> SUFFICES ASSUME nq # <<>>, Head(nq).op = "PGM"
             PROVE  \A w \in WL : w >= Head(nq).wl => IsErased(die[Head(nq).blk][w])
  BY DEF ProgramsInOrder
<1>1. 1 \in DOMAIN nq /\ nq[1] = Head(nq)
  BY TailAt DEF RestInv, IoTypes, GoodCmds
<1>. QED
  BY <1>1 DEF FlashInv, OrderInv, ErasedFrom

LEMMA FlashHolds == Spec /\ []ResumeSound => []FlashInv
<1>1. IInv /\ AllocInv /\ FlashInv /\ [Next]_vars /\ ResumeSound' => FlashInv'
  BY FlashInductive DEF IInv
<1>. QED
  BY <1>1, InitFlash, IInvHolds, AllocHolds, PTL DEF Spec

FirstFlash == cycle = 0 => FlashInv

LEMMA FirstFlashHolds == Spec => []FirstFlash
<1>1. IInv /\ FirstAlloc /\ FirstAlloc' /\ FirstFlash /\ [Next]_vars => FirstFlash'
  <2> SUFFICES ASSUME IInv, FirstAlloc, FirstAlloc', FirstFlash, [Next]_vars, cycle' = 0
               PROVE  FlashInv'
    BY DEF FirstFlash
  <2>1. cycle = 0
    BY DEF Next, Task, TaskReq, TaskResp, TaskGc, TaskMeta, SchedRound, RoundWith,
         otherThanSched, Nand, Host, HostWrite, HostRead, HostShutdown, Submit, vars,
         PowerCycle, FirstAlloc, FirstInv
  <2>2. ResumeSound'
    BY DEF FirstAlloc, FirstInv, FirstOpen, ResumeSound, Phase, Opening
  <2>. QED
    BY <2>1, <2>2, FlashInductive DEF IInv, FirstAlloc, FirstFlash
<1>2. Init => FirstFlash
  BY InitFlash DEF FirstFlash
<1>. QED
  BY <1>1, <1>2, IInvHolds, FirstHolds, PTL DEF Spec

(* Every program reaches a page from which on its block is erased: the     *)
(* assert of die.cpp:83 never fails, for two streams, the meta ring, and   *)
(* any number of queued commands, if what a start resumes is sound.        *)
THEOREM ProgramsInOrderHolds == Spec /\ []ResumeSound => []ProgramsInOrder
<1>1. IInv /\ FlashInv => ProgramsInOrder
  BY HeadInOrder DEF IInv
<1>. QED
  BY <1>1, IInvHolds, FlashHolds, PTL

(* Up to the first power off the programs are in order without any         *)
(* hypothesis.                                                             *)
THEOREM ProgramsInOrderFirst == Spec => [](cycle = 0 => ProgramsInOrder)
<1>1. IInv /\ FirstFlash => (cycle = 0 => ProgramsInOrder)
  BY HeadInOrder DEF IInv, FirstFlash
<1>. QED
  BY <1>1, IInvHolds, FirstFlashHolds, PTL

-----------------------------------------------------------------------------
(* No block lost: who uses which block.                                    *)

Full(b) == \A w \in WL : ~IsErased(die[b][w])

\* Stream o writes to block b, or is about to close it.
UserUses(b) == b = opn["USER"].blk /\ (opn["USER"].wl < NUM_WL \/ Pgms("User") # {})
GcUses(b) ==
  /\ b = opn["GC"].blk
  /\ \/ gcSt = "WaitOpen" /\ opn["GC"].wl < NUM_WL
     \/ gcSt = "Move" /\ b = mv.dst
     \/ gcSt = "Stop"

\* The open blocks nobody writes to any more.
Left == {b \in UBlk : bst[b] = "Open" /\ ~UserUses(b) /\ ~GcUses(b)}

VictimsKnown == \A b \in UBlk : bst[b] = "Victim" => gcSt \in {"Move", "Stop"} /\ b = mv.src
FreeKnown    == \A b \in UBlk : bst[b] = "InFree" => InPool(b) \/ BeingErased(b)
LeftFew ==
  /\ \E x, y : Left \subseteq {x, y}
  /\ cycle = 0 => Left = {}
  /\ \A b \in Left : Full(b)

OwnedInv == Loaded => VictimsKnown /\ FreeKnown /\ LeftFew

\* A program of the host ends its block at the last page, not later.
LastPgm == \A c \in Pgms("User") : c.wl < NUM_WL

\* As long as the scan of stream o has found no erased page, whatever it has
\* not read yet but asked for is under way.
ScanSeen(o) ==
  us.ers = FF16 =>
    \A v \in WL : opn[o].wl <= v /\ v < us.wl /\ IsErased(die[us.blk][v])
                    => \E c \in Under["Meta"] : c.wl = v

ScansInv ==
  /\ Scanning => /\ \A b \in UBlk : bst[b] \in {"Open", "Closed"}
                 /\ cycle # 0
                 /\ opn["USER"].wl < NUM_WL => WrittenTo("USER")
  /\ Phase("GcScan") =>
       /\ \A b \in UBlk : bst[b] = "Open" => OpenAfterLoad(b)
       /\ opn["GC"].wl < NUM_WL => WrittenTo("GC")
       /\ ScanSeen("GC")
  /\ Phase("UserScan") =>
       /\ \A b \in UBlk : bst[b] = "Open" => OpenAfterLoad(b) \/ (b = opn["GC"].blk /\ Full(b))
       /\ ScanSeen("USER")

UseInv == LastPgm /\ OwnedInv /\ ScansInv

\* A step of an open META: nothing more is left behind.
LEMMA OwnedStep ==
  ASSUME UseInv, Loaded, mt' # "Open", cycle' = cycle, LastPgm', VictimsKnown', FreeKnown',
         Left' \subseteq Left, \A b \in Left : Full(b) => Full(b)'
  PROVE  UseInv'
<1>1. VictimsKnown /\ FreeKnown /\ LeftFew
  BY DEF UseInv, OwnedInv
<1>2. PICK x, y : Left \subseteq {x, y}
  BY <1>1 DEF LeftFew
<1>3. LeftFew'
  <2>1. \E z, w : Left' \subseteq {z, w}
    BY <1>2
  <2>2. cycle' = 0 => Left' = {}
    BY <1>1 DEF LeftFew
  <2>3. \A b \in Left' : Full(b)'
    BY <1>1 DEF LeftFew
  <2>. QED
    BY <2>1, <2>2, <2>3 DEF LeftFew
<1>4. ScansInv'
  BY DEF ScansInv, Scanning, Phase
<1>. QED
  BY <1>3, <1>4 DEF UseInv, OwnedInv

LEMMA LeftStep ==
  ASSUME \A b \in UBlk : bst'[b] = "Open" => bst[b] = "Open" \/ UserUses(b)' \/ GcUses(b)',
         \A b \in UBlk : bst[b] = "Open" /\ bst'[b] = "Open" /\ UserUses(b) => UserUses(b)',
         \A b \in UBlk : bst[b] = "Open" /\ bst'[b] = "Open" /\ GcUses(b) => GcUses(b)'
  PROVE  Left' \subseteq Left
  BY DEF Left

LEMMA PgmsStay ==
  ASSUME IoTypes, IoTypes', SameFor("User")
  PROVE  Pgms("User") # {} => Pgms("User")' # {}
<1>1. (Pgms("User") = {} <=> Cnt["User"]["PGM"] = 0) /\ NextWrites("User")
  BY NoPgms, NoPgmsNext, KeysDiffer
<1>2. Cnt'["User"]["PGM"] = Cnt["User"]["PGM"]
  BY KeysDiffer DEF SameFor
<1>. QED
  BY <1>1, <1>2 DEF NextWrites

LEMMA LastPgmKept ==
  ASSUME LastPgm, Keeps("User")
  PROVE  LastPgm'
  BY DEF LastPgm, Keeps

\* The streams keep their blocks.
LEMMA UsesStay ==
  ASSUME UNCHANGED opn, mv'.dst = mv.dst, gcSt' = gcSt \/ gcSt' = "Stop",
         Pgms("User") # {} => Pgms("User")' # {}
  PROVE  \A b : (UserUses(b) => UserUses(b)') /\ (GcUses(b) => GcUses(b)')
  BY DEF UserUses, GcUses

\* A step that changes no block: an erase under way goes on, GC may stop.
LEMMA StaysUse ==
  ASSUME UseInv, Loaded, mt' # "Open", UNCHANGED <<die, cycle, opn, bst, pool>>,
         \A o \in OpenType : SameErb(o), gcSt' = gcSt \/ gcSt' = "Stop",
         mv'.dst = mv.dst, mv'.src = mv.src,
         LastPgm', Pgms("User") # {} => Pgms("User")' # {}
  PROVE  UseInv'
<1>1. VictimsKnown /\ FreeKnown
  BY DEF UseInv, OwnedInv
<1>2. VictimsKnown'
  BY <1>1 DEF VictimsKnown
<1>3. FreeKnown'
  <2>1. \A b : InPool(b) => InPool(b)'
    BY DEF InPool
  <2>2. \A b : BeingErased(b) => BeingErased(b)'
    BY DEF BeingErased, SameErb
  <2>. QED
    BY <1>1, <2>1, <2>2 DEF FreeKnown
<1>4. Left' \subseteq Left
  BY UsesStay, LeftStep
<1>5. \A b \in Left : Full(b) => Full(b)'
  BY DEF Full
<1>. QED
  BY <1>2, <1>3, <1>4, <1>5, OwnedStep

\* A step of the scheduler or the host.
LEMMA QuietUse ==
  ASSUME UseInv, UNCHANGED ioVars,
         UNCHANGED <<mt, os, us, opn, bst, gcSt, mv, pool, erb, cycle>>
  PROVE  UseInv'
<1> USE DEF ioVars
<1>1. Under' = Under /\ Pgms("User")' = Pgms("User") /\ die' = die
  BY DEF Under, Pgms
<1>2. LastPgm'
  BY <1>1 DEF UseInv, LastPgm
<1>3. OwnedInv'
  <2>1. Left' = Left
    BY <1>1 DEF Left, UserUses, GcUses
  <2>2. (VictimsKnown' <=> VictimsKnown) /\ (FreeKnown' <=> FreeKnown) /\ (Loaded' <=> Loaded)
    BY DEF VictimsKnown, FreeKnown, InPool, BeingErased, Loaded
  <2>3. LeftFew => LeftFew'
    BY <1>1, <2>1 DEF LeftFew, Full
  <2>. QED
    BY <2>2, <2>3 DEF UseInv, OwnedInv
<1>4. ScansInv'
  <2>1. \A o : ScanSeen(o)' <=> ScanSeen(o)
    BY <1>1 DEF ScanSeen
  <2>2. (WrittenTo("USER")' <=> WrittenTo("USER")) /\ (WrittenTo("GC")' <=> WrittenTo("GC"))
    BY <1>1 DEF WrittenTo
  <2>3. (Phase("GcScan")' <=> Phase("GcScan")) /\ (Phase("UserScan")' <=> Phase("UserScan"))
        /\ (Scanning' <=> Scanning)
    BY DEF Phase, Scanning
  <2>4. \A b : (Full(b)' <=> Full(b)) /\ (OpenAfterLoad(b)' <=> OpenAfterLoad(b))
    BY <1>1 DEF Full, OpenAfterLoad
  <2>. QED
    BY <2>1, <2>2, <2>3, <2>4 DEF UseInv, ScansInv
<1>. QED
  BY <1>2, <1>3, <1>4 DEF UseInv

-----------------------------------------------------------------------------
(* REQ and REQ_RESP.                                                       *)

\* REQ, dealing with a request, when it keeps its block.
LEMMA ReqUseFrame ==
  ASSUME MapInv, RestInv, AllocInv, UseInv, NEW r, NEW at, Handling(r, at),
         UNCHANGED <<die, mt, cycle, opn, bst, pool, mv>>, Keeps("User"),
         \A o \in OpenType : SameErb(o), gcSt' = gcSt \/ gcSt' = "Stop"
  PROVE  UseInv'
<1>1. ~Opening /\ IoTypes
  BY ReqWorks
<1>2. Loaded /\ mt' # "Open"
  BY <1>1, NotOpening
<1>3. Pgms("User") = {}
  BY <1>1, NoneOfUser DEF AllocInv
<1>4. LastPgm'
  BY LastPgmKept DEF UseInv
<1>. QED
  BY <1>2, <1>3, <1>4, StaysUse

LEMMA ReqReadUse ==
  ASSUME MapInv, RestInv, AllocInv, UseInv, cycle' = cycle, NEW r, NEW at, Handling(r, at),
         ReqReadMapped(r, at)
  PROVE  UseInv'
<1> DEFINE c == UserCmd(ReadCmd("User", META_GetMap(r.lpn).blk, META_GetMap(r.lpn).wl), r)
<1>0. ~Opening /\ IoTypes
  BY ReqWorks
<1>1. GoodCmd(c) /\ c.cb = "User" /\ c.op = "READ"
  <2>1. PICK d : d = ReadCmd("User", META_GetMap(r.lpn).blk, META_GetMap(r.lpn).wl)
    OBVIOUS
  <2>2. GoodCmd(d) /\ d.cb = "User" /\ d.op = "READ"
    BY <2>1, PlainCmds, KeysDiffer
  <2>3. r.cmd # "shutdown"
    BY DEF ReqReadMapped
  <2>. QED
    BY <2>1, <2>2, <2>3, WithReq
<1>2. Issue(<<c>>) /\ UNCHANGED <<die, done>> /\ UNCHANGED <<opn, bst, mt, mv, gcSt, pool, erb>>
  BY DEF ReqReadMapped, otherThanReq, mapVars, gcVars
<1> HIDE DEF c
<1>3. Turns(<<c>>, {}) /\ Elems(<<c>>) = {c}
  BY <1>0, <1>1, <1>2, IssueTurn, OneFacts
<1>4. Keeps("User")
  BY <1>0, <1>1, <1>3, TurnWrites, KeysDiffer DEF Keeps
<1>5. \A o \in OpenType : SameErb(o)
  BY <1>2, ErbSame
<1>. QED
  BY <1>2, <1>4, <1>5, ReqUseFrame

LEMMA ReqStaysUse ==
  ASSUME MapInv, RestInv, AllocInv, UseInv, cycle' = cycle, NEW r, NEW at, Handling(r, at),
         \/ ShutdownWaitIo(r, at) \/ ShutdownSudden(r, at) \/ ShutdownSave(r, at)
         \/ ShutdownSaving(r, at) \/ ShutdownSaved(r, at) \/ ReqJnlBusy(r, at)
         \/ ReqReadUnmapped(r, at)
  PROVE  UseInv'
<1>1. UNCHANGED ioVars /\ UNCHANGED <<opn, bst, mt, mv, pool, erb>>
      /\ (gcSt' = gcSt \/ gcSt' = "Stop")
  BY DEF ShutdownWaitIo, ShutdownSudden, ShutdownSave, ShutdownSaving, ShutdownSaved, ReqJnlBusy,
         ReqReadUnmapped, otherThanReq, mapVars, openVars, gcVars, StopGc
<1>2. Keeps("User") /\ die' = die
  BY <1>1, NoIo, KeysDiffer DEF RestInv, ioVars
<1>3. \A o \in OpenType : SameErb(o)
  BY <1>1, ErbSame
<1>. QED
  BY <1>1, <1>2, <1>3, ReqUseFrame

LEMMA ReqErasingUse ==
  ASSUME MapInv, RestInv, AllocInv, UseInv, cycle' = cycle, NEW r, NEW at, Handling(r, at),
         ReqErasing(r, at)
  PROVE  UseInv'
<1>1. /\ ErbGoesOn("USER") /\ "USER" \in OpenType
      /\ UNCHANGED <<opn, bst, mctx, mt, mv, gcSt, pool, waitAge>>
  BY DEF ReqErasing, mapVars, OpenType
<1>2. Erasing("USER")
  BY DEF RestInv, ErbInv, Erasing, ErbKey
<1>3. (\A u \in OpenType : SameErb(u)) /\ Keeps("User")
  BY <1>1, <1>2, ErbGoesAlloc, KeysDiffer
<1>4. die' = die
  BY <1>1 DEF ErbGoesOn, ErbErased, ErbRetry, ErbWait, ioVars
<1>. QED
  BY <1>1, <1>3, <1>4, ReqUseFrame

\* The block taken from the pool is erased.
LEMMA PoolTaken ==
  ASSUME IsSeq(pool), pool # <<>>, pool' = Tail(pool), NEW o \in OpenType,
         erb[o].step = "Init", erb'[o].step # "Init", erb'[o].blk = Head(pool),
         \A u \in OpenType \ {o} : erb'[u] = erb[u]
  PROVE  \A b : InPool(b) \/ BeingErased(b) => (InPool(b) \/ BeingErased(b))'
<1> TAKE b
<1>1. ASSUME InPool(b) PROVE (InPool(b) \/ BeingErased(b))'
  <2>1. PICK i \in DOMAIN pool : pool[i] = b
    BY <1>1 DEF InPool
  <2>2. /\ Len(pool) \in Nat /\ DOMAIN pool = 1 .. Len(pool)
        /\ IsSeq(Tail(pool)) /\ Len(Tail(pool)) = Len(pool) - 1
    BY SeqFacts, TailFacts
  <2>3. DOMAIN Tail(pool) = 1 .. Len(pool) - 1
    BY <2>2, SeqFacts
  <2>4. Head(pool) = pool[1]
    BY TailAt
  <2>5. CASE i = 1
    BY <2>1, <2>4, <2>5 DEF BeingErased
  <2>6. CASE i # 1
    <3>1. i - 1 \in DOMAIN Tail(pool) /\ i - 1 + 1 = i
      BY <2>1, <2>2, <2>3, <2>6
    <3>2. Tail(pool)[i - 1] = pool[i]
      BY <3>1, TailAt
    <3>. QED
      BY <2>1, <3>1, <3>2 DEF InPool
  <2>. QED
    BY <2>5, <2>6
<1>2. ASSUME BeingErased(b) PROVE BeingErased(b)'
  BY <1>2 DEF BeingErased
<1>. QED
  BY <1>1, <1>2

LEMMA ErbStartUse ==
  ASSUME RestInv, UseInv, Loaded, mt' # "Open", NEW o \in OpenType, erb[o].step = "Init",
         pool # <<>>, pool' = Tail(pool), NEW trig, ErbStart(o, Head(pool), trig),
         UNCHANGED <<die, done, cycle, opn, bst, mv>>,
         gcSt' = gcSt \/ (gcSt = "GetDst" /\ gcSt' = "ErsDst")
  PROVE  UseInv'
<1> DEFINE c == EraseCmd(ErbKey(o), Head(pool))
<1>1. IoTypes /\ AddrInv /\ ErbKey(o) \in CbKey /\ ErbKey(o) # "User"
  BY StreamsDiffer DEF RestInv
<1>2. GoodCmd(c) /\ c.cb = ErbKey(o) /\ c.op = "ERB"
  BY <1>1, PlainCmds
<1>3. Issue(<<c>>) /\ erb' = [erb EXCEPT ![o] = [step |-> "WaitErb", blk |-> Head(pool), age |-> 0]]
  BY DEF ErbStart
<1> HIDE DEF c
<1>4. Turns(<<c>>, {}) /\ Elems(<<c>>) = {c}
  BY <1>1, <1>2, <1>3, IssueTurn, OneFacts
<1>5. SameFor("User") /\ Keeps("User") /\ IoTypes'
  BY <1>1, <1>2, <1>4, TurnRests, TurnUnder, KeysDiffer
<1>6. LastPgm' /\ (Pgms("User") # {} => Pgms("User")' # {})
  BY <1>1, <1>5, PgmsStay, LastPgmKept DEF UseInv
<1>7. /\ erb'[o].step # "Init" /\ erb'[o].blk = Head(pool)
      /\ \A u \in OpenType \ {o} : erb'[u] = erb[u]
  BY <1>1, <1>3 DEF AddrInv
<1>8. VictimsKnown /\ FreeKnown
  BY DEF UseInv, OwnedInv
<1>9. VictimsKnown'
  BY <1>8 DEF VictimsKnown
<1>10. FreeKnown'
  BY <1>1, <1>7, <1>8, PoolTaken DEF FreeKnown, AddrInv
<1>11. Left' \subseteq Left
  <2>1. \A b : (UserUses(b) => UserUses(b)') /\ (GcUses(b) => GcUses(b)')
    BY <1>6 DEF UserUses, GcUses
  <2>. QED
    BY <2>1, LeftStep
<1>12. \A b \in Left : Full(b) => Full(b)'
  BY DEF Full
<1>. QED
  BY <1>6, <1>9, <1>10, <1>11, <1>12, OwnedStep

LEMMA ReqNeedsBlkUse ==
  ASSUME MapInv, RestInv, AllocInv, UseInv, cycle' = cycle, NEW r, NEW at, Handling(r, at),
         ReqNeedsBlk(r, at)
  PROVE  UseInv'
<1>1. ~Opening /\ IoTypes /\ AddrInv /\ "USER" \in OpenType
  BY ReqWorks DEF RestInv, OpenType
<1>2. Loaded /\ mt # "Open"
  BY <1>1, NotOpening
<1>3. UNCHANGED <<die, done, opn, bst, mt, gcSt, mv, os, us>>
  BY DEF ReqNeedsBlk, mapVars, openVars
<1>4. CASE ReqMayTake
  <2>1. pool # <<>> /\ pool' = Tail(pool) /\ ErbStart("USER", Head(pool), BlkReqEvt)
    BY <1>1, <1>4 DEF ReqNeedsBlk, ReqMayTake, AddrInv, IsSeq
  <2>2. erb["USER"].step = "Init"
    BY ErbRests DEF ReqNeedsBlk, RestInv
  <2>. QED
    BY <1>1, <1>2, <1>3, <2>1, <2>2, ErbStartUse
<1>5. CASE ~ReqMayTake
  BY <1>3, <1>5, QuietUse DEF ReqNeedsBlk, ioVars
<1>. QED
  BY <1>4, <1>5

\* The erase is over: stream o goes on in the block.
LEMMA OpenedUse ==
  ASSUME PoolInv, AddrInv, UseInv, Loaded, mt' # "Open", NEW o \in OpenType, NEW b,
         b = erb[o].blk, ErbOver(o), META_SetOpen(o, b),
         UNCHANGED <<die, cycle, map, pool>>, gcSt' = gcSt \/ gcSt' = "Move",
         LastPgm', VictimsKnown',
         \A x \in UBlk : (UserUses(x) => UserUses(x)') /\ (GcUses(x) => GcUses(x)'),
         UserUses(b)' \/ GcUses(b)'
  PROVE  UseInv'
<1>1. /\ b \in UBlk /\ bst'[b] = "Open" /\ \A u \in OpenType \ {o} : erb'[u] = erb[u]
  BY OpenedPool
<1>2. \A x \in UBlk : x # b => bst'[x] = bst[x]
  BY DEF META_SetOpen, PoolInv
<1>3. FreeKnown'
  <2> SUFFICES ASSUME NEW x \in UBlk, bst'[x] = "InFree" PROVE (InPool(x) \/ BeingErased(x))'
    BY DEF FreeKnown
  <2>1. x # b /\ bst[x] = "InFree"
    BY <1>1, <1>2
  <2>2. InPool(x) \/ BeingErased(x)
    BY <2>1 DEF UseInv, OwnedInv, FreeKnown
  <2>3. CASE InPool(x)
    BY <2>3 DEF InPool
  <2>4. CASE BeingErased(x)
    <3>1. PICK u \in OpenType : erb[u].step # "Init" /\ erb[u].blk = x
      BY <2>4 DEF BeingErased
    <3>2. u # o
      BY <2>1, <3>1
    <3>. QED
      BY <1>1, <3>1, <3>2 DEF BeingErased
  <2>. QED
    BY <2>2, <2>3, <2>4
<1>4. Left' \subseteq Left
  <2>1. \A x \in UBlk : bst'[x] = "Open" => bst[x] = "Open" \/ UserUses(x)' \/ GcUses(x)'
    BY <1>2
  <2>. QED
    BY <2>1, LeftStep
<1>5. \A x \in Left : Full(x) => Full(x)'
  BY DEF Full
<1>. QED
  BY <1>3, <1>4, <1>5, OwnedStep

LEMMA ReqNewBlkUse ==
  ASSUME MapInv, RestInv, AllocInv, UseInv, cycle' = cycle, NEW r, NEW at, Handling(r, at),
         ReqNewBlk(r, at)
  PROVE  UseInv'
<1>1. ~Opening /\ IoTypes /\ AddrInv /\ PoolInv /\ "USER" \in OpenType
  BY ReqWorks DEF RestInv, OpenType, AllocInv
<1>2. Loaded /\ mt # "Open"
  BY <1>1, NotOpening
<1>3. PICK b : b = erb["USER"].blk
  OBVIOUS
<1>4. UNCHANGED ioVars /\ UNCHANGED <<map, mt, gcSt, mv, pool>> /\ ErbOver("USER")
      /\ META_SetOpen("USER", b)
  BY <1>3 DEF ReqNewBlk
<1>5. Pgms("User") = {} /\ opn["USER"].wl \in Nat /\ ~(opn["USER"].wl < NUM_WL)
  BY <1>1, NoneOfUser, SizeAssumption DEF ReqNewBlk, UserBlkFull, AllocInv, AddrInv, IsNext
<1>6. /\ b \in UBlk /\ opn'["USER"] = VAddr(b, 0) /\ opn'["GC"] = opn["GC"]
      /\ \A x \in UBlk : bst[x] # "InFree" => bst'[x] = bst[x]
      /\ bst'[b] = "Open"
  BY <1>1, <1>3, <1>4, OpenedPool, StreamsDiffer
<1>7. LastPgm'
  BY <1>1, <1>4, NoIo, LastPgmKept, KeysDiffer DEF UseInv
<1>8. VictimsKnown'
  <2>1. \A x \in UBlk : bst'[x] = "Victim" => bst[x] = "Victim"
    BY <1>4, <1>6 DEF META_SetOpen, PoolInv, AllocInv
  <2>. QED
    BY <1>2, <1>4, <2>1 DEF VictimsKnown, UseInv, OwnedInv
<1>9. \A x \in UBlk : (UserUses(x) => UserUses(x)') /\ (GcUses(x) => GcUses(x)')
  BY <1>4, <1>5, <1>6 DEF UserUses, GcUses
<1>10. UserUses(b)'
  BY <1>6, SizeAssumption DEF UserUses, VAddr
<1>11. die' = die
  BY <1>4 DEF ioVars
<1>. QED
  BY <1>1, <1>2, <1>3, <1>4, <1>7, <1>8, <1>9, <1>10, <1>11, OpenedUse

LEMMA ReqProgramUse ==
  ASSUME MapInv, RestInv, AllocInv, UseInv, cycle' = cycle, NEW r, NEW at, Handling(r, at),
         ReqProgram(r, at)
  PROVE  UseInv'
<1> DEFINE c == UserCmd(PgmCmd("User", opn["USER"].blk, opn["USER"].wl, DataPage(r.lpn, r.ver)), r)
<1>0. ~Opening /\ IoTypes /\ AddrInv /\ HostInv /\ "USER" \in OpenType /\ "GC" \in OpenType
  BY ReqWorks DEF AllocInv, RestInv, OpenType
<1>1. /\ opn["USER"].wl \in Nat /\ opn["USER"].wl < NUM_WL /\ Loaded /\ mt # "Open" /\ UserOpen
      /\ opn["USER"] = VAddr(opn["USER"].blk, opn["USER"].wl)
  BY <1>0, NotOpening, SizeAssumption DEF ReqProgram, UserBlkFull, AddrInv, IsNext, UserOpen, InUse
<1>2. opn["USER"].blk \in UBlk
  BY <1>1 DEF AllocInv, OpenInv
<1>3. GoodCmd(c) /\ c.cb = "User" /\ c.op = "PGM" /\ c.wl = opn["USER"].wl
  <2>1. PICK d : d = PgmCmd("User", opn["USER"].blk, opn["USER"].wl, DataPage(r.lpn, r.ver))
    OBVIOUS
  <2>2. GoodCmd(d) /\ d.cb = "User" /\ d.op = "PGM"
    BY <2>1, <1>2, UserPgm, KeysDiffer
  <2>3. d.wl = opn["USER"].wl
    BY <2>1 DEF PgmCmd, Cmd
  <2>4. GoodCmd(UserCmd(d, r)) /\ UserCmd(d, r).cb = d.cb /\ UserCmd(d, r).op = d.op
    BY <2>2, WithReq DEF ReqProgram
  <2>5. UserCmd(d, r).wl = d.wl
    BY <2>2 DEF UserCmd, GoodCmd
  <2>. QED
    BY <2>1, <2>2, <2>3, <2>4, <2>5
<1>4. /\ Issue(<<c>>) /\ UNCHANGED <<die, done, bst, mt, gcSt, mv, pool, erb>>
      /\ opn' = [opn EXCEPT !["USER"].wl = @ + 1]
  BY DEF ReqProgram, gcVars
<1> HIDE DEF c
<1>5. Turns(<<c>>, {}) /\ Elems(<<c>>) = {c}
  BY <1>0, <1>3, <1>4, IssueTurn, OneFacts
<1>6. c \in Pgms("User")' /\ Pgms("User")' \subseteq {c}
  <2>1. c \in Elems(nq')
    BY <1>0, <1>5, TurnUnder
  <2>2. c \in Under'["User"]
    BY <1>3, <2>1, KeysDiffer DEF Under
  <2>3. Pgms("User") = {}
    BY <1>0, NoneOfUser
  <2>4. Pgms("User")' \subseteq Pgms("User") \cup {c}
    BY <1>0, <1>5, TurnWrites, KeysDiffer
  <2>. QED
    BY <1>3, <2>2, <2>3, <2>4 DEF Pgms
<1>7. LastPgm'
  BY <1>1, <1>3, <1>6 DEF LastPgm
<1>8. opn'["GC"] = opn["GC"] /\ opn'["USER"].blk = opn["USER"].blk
  BY <1>0, <1>1, <1>4, StreamsDiffer DEF AddrInv, VAddr
<1>9. VictimsKnown' /\ FreeKnown'
  BY <1>1, <1>4 DEF UseInv, OwnedInv, VictimsKnown, FreeKnown, InPool, BeingErased
<1>10. Left' \subseteq Left
  <2>1. \A b : (UserUses(b) => UserUses(b)') /\ (GcUses(b) => GcUses(b)')
    BY <1>4, <1>6, <1>8 DEF UserUses, GcUses
  <2>. QED
    BY <1>4, <2>1, LeftStep
<1>11. \A b \in Left : Full(b) => Full(b)'
  BY <1>4 DEF Full
<1>. QED
  BY <1>1, <1>4, <1>7, <1>9, <1>10, <1>11, OwnedStep

LEMMA RespUse ==
  ASSUME MapInv, RestInv, AllocInv, AllocInv', UseInv, cycle' = cycle, ReqResp_Run
  PROVE  UseInv'
<1>0. IoTypes /\ HostInv /\ AddrInv
  BY DEF AllocInv, RestInv
<1>1. CASE RespWait
  BY <1>1, QuietUse DEF RespWait, otherThanReq, mapVars, openVars, gcVars
<1>2. CASE RespDone
  <2> DEFINE c == DoneHead("User")
  <2>1. HasDone("User") /\ PopDone("User") /\ UNCHANGED <<die, nq>>
        /\ UNCHANGED <<map, vpc, opn, mctx, mt, os, us, gcSt, mv, pool, erb>>
    BY <1>2 DEF RespDone, openVars, gcVars
  <2>2. pend' = NoReq
    BY <1>2 DEF RespDone, Respond
  <2>3. bst' = IF c.op = "PGM" /\ c.wl = NUM_WL - 1 THEN [bst EXCEPT ![c.blk] = "Closed"] ELSE bst
    BY <1>2 DEF RespDone
  <2>4. Turns(<<>>, {"User"})
    BY <1>0, <2>1, PopTurn, KeysDiffer
  <2>5. c \in Under["User"] /\ GoodCmd(c)
    BY <1>0, <2>1, HeadUnder, KeysDiffer
  <2>6. Cnt'["User"]["PGM"] = Cnt["User"]["PGM"] - (IF c.op = "PGM" THEN 1 ELSE 0)
    BY <1>0, <2>1, PopFor, KeysDiffer
  <2> HIDE DEF c
  <2>7. Loaded /\ mt' # "Open"
    <3>1. ~Opening
      BY <2>5 DEF HostInv, AllocInv
    <3>. QED
      BY <2>1, <3>1, NotOpening
  <2>8. IoTypes' /\ Keeps("User")
    BY <1>0, <2>4, StepFacts, TurnTakes, KeysDiffer
  <2>9. Pgms("User")' = {}
    BY <2>2, <2>8, AnsweredNone DEF AllocInv
  <2>10. LastPgm'
    BY <2>9 DEF LastPgm
  <2>11. \A b \in UBlk : bst'[b] = bst[b] \/ bst'[b] = "Closed"
    BY <2>3 DEF AllocInv, PoolInv
  <2>12. VictimsKnown' /\ FreeKnown'
    BY <2>1, <2>7, <2>11 DEF UseInv, OwnedInv, VictimsKnown, FreeKnown, InPool, BeingErased
  <2>13. \A b : GcUses(b) => GcUses(b)'
    BY <2>1 DEF GcUses
  <2>14. \A b \in UBlk : bst[b] = "Open" /\ bst'[b] = "Open" /\ UserUses(b) => UserUses(b)'
    <3> SUFFICES ASSUME NEW b \in UBlk, bst'[b] = "Open", b = opn["USER"].blk, Pgms("User") # {}
                 PROVE  opn["USER"].wl < NUM_WL
      BY <2>1 DEF UserUses
    <3>1. c.op = "PGM"
      <4>1. Cnt'["User"]["PGM"] = 0
        BY <2>8, <2>9, NoPgmsNext, KeysDiffer DEF NextWrites
      <4>2. Cnt["User"]["PGM"] # 0
        BY <1>0, NoPgms, KeysDiffer
      <4>3. Cnt["User"]["PGM"] \in Nat
        BY <1>0, CntIs, KeysDiffer
      <4>. QED
        BY <2>6, <4>1, <4>2, <4>3
    <3>2. c \in Pgms("User")
      BY <2>5, <3>1 DEF Pgms
    <3>3. c.blk = opn["USER"].blk /\ c.wl \in Nat /\ c.wl + 1 = opn["USER"].wl /\ c.wl < NUM_WL
      BY <3>2 DEF AllocInv, UserCmds, UseInv, LastPgm
    <3>4. c.wl # NUM_WL - 1
      BY <2>3, <3>1, <3>3 DEF AllocInv, PoolInv
    <3>. QED
      BY <3>3, <3>4, SizeAssumption
  <2>15. Left' \subseteq Left
    BY <2>11, <2>13, <2>14, LeftStep
  <2>16. \A b \in Left : Full(b) => Full(b)'
    BY <2>1 DEF Full
  <2>. QED
    BY <2>7, <2>10, <2>12, <2>15, <2>16, OwnedStep
<1>. QED
  BY <1>1, <1>2 DEF ReqResp_Run

LEMMA ReqUse ==
  ASSUME MapInv, RestInv, AllocInv, UseInv, cycle' = cycle, Req_Run
  PROVE  UseInv'
<1>1. CASE ReqWaitOpen \/ ReqOpened \/ ReqIdle
  BY <1>1, QuietUse DEF ReqWaitOpen, ReqOpened, ReqIdle, otherThanReq, mapVars, openVars, gcVars
<1>2. CASE ~(ReqWaitOpen \/ ReqOpened \/ ReqIdle)
  <2>1. PICK r, at : Handling(r, at) /\ ReqStep(r, at)
    BY <1>2 DEF Req_Run
  <2>. QED
    BY <2>1, ReqReadUse, ReqStaysUse, ReqErasingUse, ReqNeedsBlkUse, ReqNewBlkUse, ReqProgramUse
       DEF ReqStep
<1>. QED
  BY <1>1, <1>2

-----------------------------------------------------------------------------
(* Garbage collection.                                                     *)

\* A turn of GC that keeps its blocks.
LEMMA GcUseFrame ==
  ASSUME RestInv, UseInv, ~Opening, mt' = mt, cycle' = cycle, UNCHANGED <<die, opn, bst, pool, gcSt>>,
         \A o \in OpenType : SameErb(o), mv'.dst = mv.dst, mv'.src = mv.src,
         IoTypes', SameFor("User"), Keeps("User")
  PROVE  UseInv'
<1>1. Loaded /\ mt # "Open"
  BY NotOpening
<1>2. LastPgm' /\ (Pgms("User") # {} => Pgms("User")' # {})
  BY PgmsStay, LastPgmKept DEF UseInv, RestInv
<1>. QED
  BY <1>1, <1>2, StaysUse

LEMMA GcTurnUse ==
  ASSUME RestInv, UseInv, ~Opening, mt' = mt, cycle' = cycle, UNCHANGED <<opn, bst, pool, gcSt>>,
         \A o \in OpenType : SameErb(o), mv'.dst = mv.dst, mv'.src = mv.src,
         NEW t, NEW P, Turns(t, P), "User" \notin P, \A c \in Elems(t) : c.cb # "User"
  PROVE  UseInv'
<1>1. IoTypes
  BY DEF RestInv
<1>2. IoTypes' /\ SameFor("User") /\ Keeps("User") /\ die' = die
  BY <1>1, TurnRests, TurnUnder, KeysDiffer
<1>. QED
  BY <1>2, GcUseFrame

LEMMA GcQuietUse ==
  ASSUME UseInv, cycle' = cycle, GcWaitOpen \/ GcMoveWait
  PROVE  UseInv'
  BY QuietUse DEF GcWaitOpen, GcMoveWait, otherThanGc, openVars, gcVars

LEMMA GcTakesUse ==
  ASSUME MapInv, RestInv, UseInv, cycle' = cycle, GcPgmDone \/ GcReadDropped
  PROVE  UseInv'
<1>1. IoTypes /\ IsMv(mv) /\ ~Opening
  BY DEF RestInv, MigInv, GcPgmDone, GcReadDropped, Moving, MapInv
<1>2. HasDone("Mig") /\ PopDone("Mig") /\ UNCHANGED <<die, nq, opn, mt, bst, pool, erb, gcSt>>
  BY DEF GcPgmDone, GcReadDropped, Moving, otherThanGc
<1>3. mv'.dst = mv.dst /\ mv'.src = mv.src
  BY <1>1 DEF GcPgmDone, GcReadDropped, IsMv, MvFields
<1>4. PICK t : t = <<>>
  OBVIOUS
<1>5. PICK P : P = {"Mig"}
  OBVIOUS
<1>6. Turns(t, P) /\ "User" \notin P /\ \A c \in Elems(t) : c.cb # "User"
  BY <1>1, <1>2, <1>4, <1>5, PopTurn, NoneFacts, KeysDiffer
<1>7. \A o \in OpenType : SameErb(o)
  BY <1>2, ErbSame
<1>. QED
  BY <1>1, <1>2, <1>3, <1>6, <1>7, GcTurnUse

LEMMA GcReadNextUse ==
  ASSUME MapInv, RestInv, UseInv, cycle' = cycle, GcReadNext
  PROVE  UseInv'
<1> DEFINE c == ReadCmd("Mig", mv.src, mv.swl)
<1>0. IoTypes /\ IsMv(mv) /\ ~Opening
  BY DEF RestInv, MigInv, GcReadNext, Collected, MapInv
<1>1. GoodCmd(c) /\ c.cb = "Mig"
  BY PlainCmds, KeysDiffer
<1>2. Issue(<<c>>) /\ UNCHANGED <<die, done, opn, mt, bst, pool, erb, gcSt>>
  BY DEF GcReadNext, otherThanGc
<1> HIDE DEF c
<1>3. Turns(<<c>>, {}) /\ \A d \in Elems(<<c>>) : d.cb # "User"
  BY <1>0, <1>1, <1>2, IssueTurn, OneFacts
<1>4. mv'.dst = mv.dst /\ mv'.src = mv.src
  BY <1>0 DEF GcReadNext, IsMv, MvFields
<1>5. \A o \in OpenType : SameErb(o)
  BY <1>2, ErbSame
<1>6. PICK t : t = <<c>>
  OBVIOUS
<1>7. PICK P : P = {}
  OBVIOUS
<1>8. Turns(t, P) /\ "User" \notin P /\ \A d \in Elems(t) : d.cb # "User"
  BY <1>3, <1>6, <1>7
<1>. QED
  BY <1>0, <1>2, <1>4, <1>5, <1>8, GcTurnUse

LEMMA GcReadMovedUse ==
  ASSUME MapInv, RestInv, UseInv, cycle' = cycle, GcReadMoved
  PROVE  UseInv'
<1> DEFINE c == PgmCmd("Mig", mv.dst, mv.dwl, DoneHead("Mig").pg)
<1>0. IoTypes /\ IsMv(mv) /\ ~Opening /\ mv.dst \in UBlk
  BY DEF RestInv, MigInv, GcReadMoved, Moving, MapInv
<1>1. GoodCmd(c) /\ c.cb = "Mig"
  <2>1. PICK pg : pg = DoneHead("Mig").pg
    OBVIOUS
  <2>2. c = PgmCmd("Mig", mv.dst, mv.dwl, pg)
    BY <2>1
  <2>. QED
    BY <1>0, <2>2, UserPgm, KeysDiffer
<1>2. HasDone("Mig") /\ PopDone("Mig") /\ Issue(<<c>>) /\ die' = die
      /\ UNCHANGED <<opn, mt, bst, pool, erb, gcSt>>
  BY DEF GcReadMoved, Moving
<1> HIDE DEF c
<1>3. Turns(<<c>>, {"Mig"}) /\ \A d \in Elems(<<c>>) : d.cb # "User"
  BY <1>0, <1>1, <1>2, PopIssueTurn, OneFacts, KeysDiffer
<1>4. mv'.dst = mv.dst /\ mv'.src = mv.src
  BY <1>0 DEF GcReadMoved, IsMv, MvFields
<1>5. \A o \in OpenType : SameErb(o)
  BY <1>2, ErbSame
<1>6. PICK t : t = <<c>>
  OBVIOUS
<1>7. PICK P : P = {"Mig"}
  OBVIOUS
<1>8. Turns(t, P) /\ "User" \notin P /\ \A d \in Elems(t) : d.cb # "User"
  BY <1>3, <1>6, <1>7
<1>. QED
  BY <1>0, <1>2, <1>4, <1>5, <1>8, GcTurnUse

LEMMA GcStopUse ==
  ASSUME MapInv, RestInv, UseInv, cycle' = cycle, GcStop
  PROVE  UseInv'
<1>0. IoTypes /\ ~Opening
  BY DEF RestInv, GcStop, MapInv
<1>1. done' = [done EXCEPT !["Mig"] = <<>>] /\ UNCHANGED <<die, nq, opn, mt, bst, pool, erb, gcSt, mv>>
  BY DEF GcStop, otherThanGc, gcVars
<1>2. IoTypes' /\ SameFor("User")
  BY <1>0, <1>1, StopKeepsIo, KeysDiffer
<1>3. Keeps("User")
  <2>1. done'["User"] = done["User"]
    BY <1>0, <1>1, KeysDiffer DEF IoTypes
  <2>2. Under'["User"] = Under["User"]
    BY <1>1, <2>1, KeysDiffer DEF Under
  <2>. QED
    BY <2>2, SubsetKeeps, KeysDiffer
<1>4. \A o \in OpenType : SameErb(o)
  BY <1>1, ErbSame
<1>. QED
  BY <1>0, <1>1, <1>2, <1>3, <1>4, GcUseFrame

LEMMA GcErsDstUse ==
  ASSUME MapInv, RestInv, UseInv, GcOnly, cycle' = cycle, GcErsDst
  PROVE  UseInv'
<1>1. ~Opening /\ "GC" \in OpenType
  BY DEF GcErsDst, MapInv, OpenType
<1>2. Erasing("GC") /\ AddrInv /\ IoTypes
  BY DEF GcErsDst, RestInv, MigInv, Erasing, ErbKey
<1>3. ErbGoesOn("GC") /\ UNCHANGED <<opn, mctx, mt, bst, mv, gcSt, pool, waitAge>>
  BY DEF GcErsDst, GcOnly, reqVars
<1>4. (\A u \in OpenType : SameErb(u)) /\ Keeps("User") /\ SameFor("User")
  BY <1>1, <1>2, <1>3, ErbGoesAlloc, StreamsDiffer, KeysDiffer
<1>5. IoTypes'
  BY <1>1, <1>2, <1>3, ErbKeeps
<1>6. die' = die
  BY <1>3 DEF ErbGoesOn, ErbErased, ErbRetry, ErbWait, ioVars
<1>. QED
  BY <1>1, <1>3, <1>4, <1>5, <1>6, GcUseFrame

LEMMA GcGetDstUse ==
  ASSUME MapInv, RestInv, UseInv, cycle' = cycle, GcGetDst
  PROVE  UseInv'
<1>1. ~Opening /\ "GC" \in OpenType /\ erb["GC"].step = "Init"
  BY DEF GcGetDst, MapInv, OpenType, RestInv, ErbInv
<1>2. Loaded /\ mt # "Open"
  BY <1>1, NotOpening
<1>3. PICK trig : trig = {}
  OBVIOUS
<1>4. /\ ErbStart("GC", Head(pool), trig) /\ pool # <<>> /\ pool' = Tail(pool)
      /\ UNCHANGED <<die, done, opn, bst, mt, mv>> /\ gcSt = "GetDst" /\ gcSt' = "ErsDst"
  BY <1>3 DEF GcGetDst, otherThanGc
<1>. QED
  BY <1>1, <1>2, <1>4, ErbStartUse

LEMMA GcErsDstDoneUse ==
  ASSUME MapInv, RestInv, AllocInv, UseInv, cycle' = cycle, GcErsDstDone
  PROVE  UseInv'
<1>1. ~Opening /\ IoTypes /\ AddrInv /\ PoolInv /\ "GC" \in OpenType
  BY DEF GcErsDstDone, MapInv, RestInv, OpenType, AllocInv
<1>2. Loaded /\ mt # "Open"
  BY <1>1, NotOpening
<1>3. PICK b : b = erb["GC"].blk
  OBVIOUS
<1>4. UNCHANGED ioVars /\ UNCHANGED <<map, mt, pool>> /\ gcSt = "ErsDst" /\ gcSt' = "Move"
      /\ ErbOver("GC") /\ META_SetOpen("GC", b) /\ mv'.dst = b
  BY <1>3, MoveFields DEF GcErsDstDone
<1>5. /\ b \in UBlk /\ opn'["GC"] = VAddr(b, 0) /\ opn'["USER"] = opn["USER"]
      /\ \A x \in UBlk : bst[x] # "InFree" => bst'[x] = bst[x]
      /\ bst'[b] = "Open"
  BY <1>1, <1>3, <1>4, OpenedPool, StreamsDiffer
<1>6. LastPgm'
  BY <1>1, <1>4, NoIo, LastPgmKept, KeysDiffer DEF UseInv
<1>7. VictimsKnown'
  <2>1. \A x \in UBlk : bst'[x] = "Victim" => bst[x] = "Victim"
    BY <1>4, <1>5 DEF META_SetOpen, PoolInv, AllocInv
  <2>. QED
    BY <1>2, <1>4, <2>1 DEF VictimsKnown, UseInv, OwnedInv
<1>8. \A x \in UBlk : (UserUses(x) => UserUses(x)') /\ (GcUses(x) => GcUses(x)')
  BY <1>4, <1>5 DEF UserUses, GcUses, Pgms, Under, ioVars
<1>9. GcUses(b)'
  BY <1>4, <1>5 DEF GcUses, VAddr
<1>10. die' = die
  BY <1>4 DEF ioVars
<1>. QED
  BY <1>1, <1>2, <1>3, <1>4, <1>6, <1>7, <1>8, <1>9, <1>10, OpenedUse

LEMMA GcOpenedUse ==
  ASSUME RestInv, UseInv, cycle' = cycle, GcOpened
  PROVE  UseInv'
<1>1. /\ gcSt = "WaitOpen" /\ gcSt' = "WaitReq" /\ mt = "Ready" /\ opn["GC"].wl >= NUM_WL
      /\ UNCHANGED ioVars /\ UNCHANGED <<mt, opn, bst, mv, pool, erb>>
  BY DEF GcOpened, META_Ready, otherThanGc, openVars
<1>2. Loaded /\ mt' # "Open" /\ ~(opn["GC"].wl < NUM_WL)
  BY <1>1, SizeAssumption DEF Loaded, RestInv, AddrInv, IsNext, OpenType
<1>3. LastPgm' /\ Pgms("User")' = Pgms("User") /\ die' = die
  BY <1>1 DEF UseInv, LastPgm, Pgms, Under, ioVars
<1>4. VictimsKnown'
  BY <1>1, <1>2 DEF UseInv, OwnedInv, VictimsKnown
<1>5. FreeKnown'
  BY <1>1, <1>2 DEF UseInv, OwnedInv, FreeKnown, InPool, BeingErased
<1>6. Left' \subseteq Left
  BY <1>1, <1>2, <1>3 DEF Left, UserUses, GcUses
<1>7. \A b \in Left : Full(b) => Full(b)'
  BY <1>3 DEF Full
<1>. QED
  BY <1>2, <1>3, <1>4, <1>5, <1>6, <1>7, OwnedStep

\* gc_ScanFree puts what it frees into the pool.
LEMMA ScanFreeUse ==
  ASSUME RestInv, PoolInv, UseInv, Loaded, Counted, cycle' = cycle, mt' # "Open",
         NEW bs, ScanFree(bs), gcSt' # "WaitOpen",
         \A b \in UBlk : bs[b] = bst[b] \/ (bst[b] = "Victim" /\ bs[b] = "Closed"),
         UNCHANGED ioVars, UNCHANGED <<map, opn, erb>>,
         \A b \in UBlk : bs[b] = "Victim" => gcSt' \in {"Move", "Stop"} /\ b = mv'.src,
         \A b \in UBlk : GcUses(b) => GcUses(b)'
  PROVE  UseInv'
<1>1. AddrInv
  BY DEF RestInv
<1>2. /\ \A b \in UBlk : bst'[b] = bs[b] \/ (bst'[b] = "InFree" /\ InPool(b)')
      /\ \A b \in UBlk : InPool(b) => InPool(b)'
  BY <1>1, ScanFreePool
<1>3. LastPgm' /\ Pgms("User")' = Pgms("User") /\ die' = die
  BY DEF UseInv, LastPgm, Pgms, Under, ioVars
<1>4. VictimsKnown'
  BY <1>2 DEF VictimsKnown
<1>5. FreeKnown'
  <2> SUFFICES ASSUME NEW b \in UBlk, bst'[b] = "InFree"
               PROVE  (InPool(b) \/ BeingErased(b))'
    BY DEF FreeKnown
  <2>1. CASE bst'[b] = bs[b]
    <3>1. bst[b] = "InFree"
      BY <2>1
    <3>. QED
      BY <1>2, <3>1 DEF UseInv, OwnedInv, FreeKnown, BeingErased
  <2>. QED
    BY <1>2, <2>1
<1>6. Left' \subseteq Left
  <2>1. \A b \in UBlk : bst'[b] = "Open" => bst[b] = "Open"
    BY <1>2
  <2>2. \A b : UserUses(b) => UserUses(b)'
    BY <1>3 DEF UserUses
  <2>. QED
    BY <2>1, <2>2 DEF Left
<1>7. \A b \in Left : Full(b) => Full(b)'
  BY <1>3 DEF Full
<1>. QED
  BY <1>3, <1>4, <1>5, <1>6, <1>7, OwnedStep

LEMMA GcResumeUse ==
  ASSUME MapInv, RestInv, AllocInv, UseInv, cycle' = cycle, GcResume
  PROVE  UseInv'
<1>1. /\ gcSt = "WaitOpen" /\ gcSt' = "Move" /\ mt = "Ready" /\ mt' = mt
      /\ ScanFree(bst) /\ mv' = MoveInto(opn["GC"].blk, opn["GC"].wl)
      /\ UNCHANGED ioVars /\ UNCHANGED <<map, opn, erb>>
  BY DEF GcResume, META_Ready, otherThanGc
<1>2. Loaded /\ Counted /\ PoolInv
  BY <1>1 DEF Loaded, MapInv, AllocInv
<1>3. \A b \in UBlk : bst[b] # "Victim"
  BY <1>1, <1>2 DEF UseInv, OwnedInv, VictimsKnown
<1>4. \A b \in UBlk : GcUses(b) => GcUses(b)'
  <2>1. mv'.dst = opn["GC"].blk
    BY <1>1, MoveFields
  <2>. QED
    BY <1>1, <2>1 DEF GcUses
<1>5. PICK bs : bs = bst
  OBVIOUS
<1>. QED
  BY <1>1, <1>2, <1>3, <1>4, <1>5, ScanFreeUse

LEMMA GcWaitReqUse ==
  ASSUME MapInv, RestInv, AllocInv, UseInv, cycle' = cycle, GcWaitReq
  PROVE  UseInv'
<1>1. /\ gcSt = "WaitReq" /\ gcSt' \in {"GetDst", "WaitReq"} /\ ScanFree(bst)
      /\ UNCHANGED ioVars /\ UNCHANGED <<map, opn, mt, erb, mv>>
  BY DEF GcWaitReq, otherThanGc
<1>2. Loaded /\ mt # "Open" /\ Counted /\ PoolInv
  <2>1. ~Opening
    BY <1>1 DEF MapInv
  <2>. QED
    BY <2>1, NotOpening DEF MapInv, AllocInv
<1>3. \A b \in UBlk : bst[b] # "Victim"
  BY <1>1, <1>2 DEF UseInv, OwnedInv, VictimsKnown
<1>4. \A b \in UBlk : ~GcUses(b)
  BY <1>1 DEF GcUses
<1>5. PICK bs : bs = bst
  OBVIOUS
<1>. QED
  BY <1>1, <1>2, <1>3, <1>4, <1>5, ScanFreeUse

LEMMA GcSrcDoneUse ==
  ASSUME MapInv, RestInv, AllocInv, UseInv, cycle' = cycle, GcSrcDone
  PROVE  UseInv'
<1>1. /\ gcSt = "Move" /\ gcSt' = gcSt /\ mv.src # NoBlk /\ mv' = [mv EXCEPT !.src = NoBlk]
      /\ UNCHANGED ioVars /\ UNCHANGED <<map, opn, mt, erb>>
  BY DEF GcSrcDone, SrcRead, Collected, otherThanGc
<1>2. Loaded /\ mt # "Open" /\ Counted /\ PoolInv
  <2>1. ~Opening
    BY <1>1 DEF MapInv
  <2>. QED
    BY <2>1, NotOpening DEF MapInv, AllocInv
<1>3. mv.src \in UBlk /\ bst[mv.src] = "Victim"
  BY <1>1 DEF AllocInv, OpenInv
<1>4. mv'.dst = mv.dst
  <2>1. IsMv(mv)
    BY <1>1, MoveFacts
  <2>. QED
    BY <1>1, <2>1 DEF IsMv, MvFields
<1>5. PICK bs : bs = [bst EXCEPT ![mv.src] = "Closed"]
  OBVIOUS
<1>6. ScanFree(bs)
  BY <1>5 DEF GcSrcDone
<1>7. \A b \in UBlk : bs[b] = IF b = mv.src THEN "Closed" ELSE bst[b]
  BY <1>2, <1>5 DEF PoolInv
<1>8. \A b \in UBlk : bs[b] = bst[b] \/ (bst[b] = "Victim" /\ bs[b] = "Closed")
  BY <1>3, <1>7
<1>9. \A b \in UBlk : bs[b] # "Victim"
  BY <1>2, <1>7 DEF UseInv, OwnedInv, VictimsKnown
<1>10. \A b \in UBlk : GcUses(b) => GcUses(b)'
  BY <1>1, <1>4 DEF GcUses
<1>. QED
  BY <1>1, <1>2, <1>6, <1>8, <1>9, <1>10, ScanFreeUse

\* The two blocks of a move are closed once the destination is full.
LEMMA GcDstFullUse ==
  ASSUME MapInv, RestInv, AllocInv, UseInv, cycle' = cycle, GcDstFull
  PROVE  UseInv'
<1>1. /\ gcSt = "Move" /\ gcSt' = "WaitReq"
      /\ bst' = [b \in UBlk |-> IF b \in {mv.src, mv.dst} THEN "Closed" ELSE bst[b]]
      /\ UNCHANGED ioVars /\ UNCHANGED <<opn, mt, erb, pool>>
  BY DEF GcDstFull, Collected, otherThanGc
<1>2. Loaded /\ mt # "Open"
  <2>1. ~Opening
    BY <1>1 DEF MapInv
  <2>. QED
    BY <2>1, NotOpening
<1>3. LastPgm' /\ Pgms("User")' = Pgms("User") /\ die' = die
  BY <1>1 DEF UseInv, LastPgm, Pgms, Under, ioVars
<1>4. VictimsKnown'
  BY <1>1, <1>2 DEF UseInv, OwnedInv, VictimsKnown
<1>5. FreeKnown'
  BY <1>1, <1>2 DEF UseInv, OwnedInv, FreeKnown, InPool, BeingErased
<1>6. Left' \subseteq Left
  <2>1. \A b \in UBlk : bst'[b] = "Open" => bst[b] = "Open" /\ b # mv.dst
    BY <1>1
  <2>2. \A b \in UBlk : bst'[b] = "Open" => ~GcUses(b)
    BY <1>1, <2>1 DEF GcUses
  <2>3. \A b : UserUses(b) => UserUses(b)'
    BY <1>1, <1>3 DEF UserUses
  <2>. QED
    BY <2>1, <2>2, <2>3 DEF Left
<1>7. \A b \in Left : Full(b) => Full(b)'
  BY <1>3 DEF Full
<1>8. mt' # "Open"
  BY <1>1, <1>2
<1>. QED
  BY <1>2, <1>3, <1>4, <1>5, <1>6, <1>7, <1>8, OwnedStep

LEMMA GcNewSrcUse ==
  ASSUME MapInv, RestInv, AllocInv, UseInv, cycle' = cycle, GcNewSrc
  PROVE  UseInv'
<1>1. PICK v \in Victims :
        /\ mv' = [mv EXCEPT !.src = v, !.swl = 0]
        /\ bst' = [c \in UBlk |-> IF c = v THEN "Victim" ELSE bst[c]]
  BY DEF GcNewSrc
<1>2. /\ gcSt = "Move" /\ gcSt' = gcSt /\ mv.src = NoBlk
      /\ UNCHANGED ioVars /\ UNCHANGED <<opn, mt, erb, pool>>
  BY DEF GcNewSrc, Collected, otherThanGc
<1>3. Loaded /\ mt # "Open"
  <2>1. ~Opening
    BY <1>2 DEF MapInv
  <2>. QED
    BY <2>1, NotOpening
<1>4. v = NoBlk \/ (v \in UBlk /\ bst[v] = "Closed")
  BY DEF Victims
<1>5. mv'.dst = mv.dst /\ mv'.src = v
  <2>1. IsMv(mv)
    BY <1>2, MoveFacts
  <2>. QED
    BY <1>1, <2>1 DEF IsMv, MvFields
<1>6. LastPgm' /\ Pgms("User")' = Pgms("User") /\ die' = die
  BY <1>2 DEF UseInv, LastPgm, Pgms, Under, ioVars
<1>7. VictimsKnown'
  <2>1. \A b \in UBlk : bst[b] # "Victim"
    BY <1>2, <1>3, NoBlkIs DEF UseInv, OwnedInv, VictimsKnown
  <2>2. \A b \in UBlk : bst'[b] = "Victim" => b = v
    BY <1>1, <2>1
  <2>. QED
    BY <1>2, <1>5, <2>2 DEF VictimsKnown
<1>8. FreeKnown'
  BY <1>1, <1>2, <1>3 DEF UseInv, OwnedInv, FreeKnown, InPool, BeingErased
<1>9. Left' \subseteq Left
  <2>1. \A b \in UBlk : bst'[b] = "Open" => bst[b] = "Open"
    BY <1>1
  <2>2. \A b : (UserUses(b) => UserUses(b)') /\ (GcUses(b) => GcUses(b)')
    BY <1>2, <1>5, <1>6 DEF UserUses, GcUses
  <2>. QED
    BY <2>1, <2>2 DEF Left
<1>10. \A b \in Left : Full(b) => Full(b)'
  BY <1>6 DEF Full
<1>11. mt' # "Open"
  BY <1>2, <1>3
<1>. QED
  BY <1>3, <1>6, <1>7, <1>8, <1>9, <1>10, <1>11, OwnedStep

LEMMA GcUse ==
  ASSUME MapInv, RestInv, AllocInv, UseInv, GcOnly, cycle' = cycle, GC_Run
  PROVE  UseInv'
<1>1. CASE GcMove
  <2>1. GcPgmDone \/ GcReadMoved \/ GcReadDropped \/ GcDstFull \/ GcNewSrc \/ GcReadNext
        \/ GcSrcDone \/ GcMoveWait
    BY <1>1 DEF GcMove
  <2>. QED
    BY <2>1, GcTakesUse, GcReadMovedUse, GcDstFullUse, GcNewSrcUse, GcReadNextUse, GcSrcDoneUse,
       GcQuietUse
<1>2. CASE GcWaitOpen \/ GcResume \/ GcOpened \/ GcWaitReq
  BY <1>2, GcQuietUse, GcResumeUse, GcOpenedUse, GcWaitReqUse
<1>3. CASE GcGetDst \/ GcErsDst \/ GcErsDstDone \/ GcStop
  BY <1>3, GcGetDstUse, GcErsDstUse, GcErsDstDoneUse, GcStopUse
<1>. QED
  BY <1>1, <1>2, <1>3 DEF GC_Run

-----------------------------------------------------------------------------
(* The die.                                                                *)

\* Programming a block erased from there on, the die does not touch a full one.
LEMMA NandFull ==
  ASSUME RestInv, AllocInv, FlashInv, NandDone, NEW b \in UBlk, bst[b] = "Open", Full(b)
  PROVE  Full(b)'
<1>1. PICK c : c = Head(nq)
  OBVIOUS
<1>2. IoTypes
  BY DEF RestInv
<1>3. c \in Elems(nq) /\ c.cb \in CbKey /\ Executed(c) /\ IsSeq(nq) /\ nq # <<>>
  BY <1>1, <1>2, NandDoes
<1>4. ~Erases(c, b)
  <2> SUFFICES ASSUME c.op = "ERB", c.blk = b
               PROVE  FALSE
    BY DEF Erases
  <2>1. c \in Erbs(c.cb)
    BY <1>2, <1>3, QueuedIsUnder DEF Erbs
  <2>2. b \in MBlk \/ bst[b] = "InFree"
    BY <1>3, <2>1, ErbIs
  <2>. QED
    BY <2>2, BlksDiffer
<1>5. \A w \in WL : ~Programs(c, b, w)
  <2> SUFFICES ASSUME NEW w \in WL, c.op = "PGM", c.blk = b, c.wl = w
               PROVE  FALSE
    BY DEF Programs
  <2>1. 1 \in DOMAIN nq /\ nq[1] = c
    BY <1>1, <1>3, TailAt
  <2>2. ErasedFrom(b, w)
    BY <2>1 DEF FlashInv, OrderInv
  <2>. QED
    BY <2>2, SizeAssumption DEF ErasedFrom, Full, WL
<1>6. \A w \in WL : die'[b][w] = die[b][w]
  BY <1>3, <1>4, <1>5, BlksAre DEF Executed
<1>. QED
  BY <1>6 DEF Full

LEMMA NandUse ==
  ASSUME MapInv, RestInv, AllocInv, FlashInv, UseInv, Nand
  PROVE  UseInv'
<1>1. NandDone /\ UNCHANGED <<mt, cycle, os, us, opn, bst, gcSt, mv, pool, erb>>
  BY DEF Nand, mapVars, openVars, gcVars
<1>2. IoTypes /\ IoTypes' /\ SameFor("User") /\ Keeps("User")
  BY <1>1, NandKeepsIo, NandKeepsCmds, KeysDiffer DEF RestInv
<1>3. LastPgm' /\ (Pgms("User") # {} => Pgms("User")' # {})
  BY <1>2, PgmsStay, LastPgmKept DEF UseInv
<1>4. CASE Loaded
  <2>1. mt' # "Open"
    BY <1>1, <1>4 DEF Loaded
  <2>2. VictimsKnown' /\ FreeKnown'
    BY <1>1, <1>4 DEF UseInv, OwnedInv, VictimsKnown, FreeKnown, InPool, BeingErased
  <2>3. Left' \subseteq Left
    BY <1>1, <1>3, UsesStay, LeftStep
  <2>4. \A b \in Left : Full(b) => Full(b)'
    BY <1>1, NandFull DEF Left
  <2>. QED
    BY <1>1, <1>3, <1>4, <2>1, <2>2, <2>3, <2>4, OwnedStep
<1>5. CASE ~Loaded /\ mt # "Open"
  BY <1>1, <1>3, <1>5 DEF UseInv, OwnedInv, Loaded, ScansInv, Scanning, Phase
<1>6. CASE mt = "Open"
  <2>1. PICK c : c = Head(nq)
    OBVIOUS
  <2>2. /\ c \in Elems(nq) /\ Elems(nq) = {c} \cup Elems(nq') /\ c.cb \in CbKey
        /\ Elems(done'[c.cb]) = Elems(done[c.cb]) \cup {Answered(c)}
    BY <1>1, <1>2, <2>1, NandDoes
  <2>3. c.cb = "Meta" /\ c.op = "READ"
    BY <1>6, <2>2, OpenReads
  <2>4. die' = die /\ Answered(c).wl = c.wl
    BY <1>1, <1>2, <2>1, <2>3, AnswerIs
  <2>5. \A v : (\E d \in Under["Meta"] : d.wl = v) => \E d \in Under'["Meta"] : d.wl = v
    <3> SUFFICES ASSUME NEW d \in Under["Meta"]
                 PROVE  \E e \in Under'["Meta"] : e.wl = d.wl
      OBVIOUS
    <3>1. CASE d = c
      <4>1. Answered(c) \in Under'["Meta"]
        BY <2>2, <2>3, KeysDiffer DEF Under
      <4>. QED
        BY <3>1, <4>1, <2>4
    <3>2. CASE d # c
      <4>1. d \in Under'["Meta"]
        BY <2>2, <2>3, <3>2, KeysDiffer DEF Under
      <4>. QED
        BY <4>1
    <3>. QED
      BY <3>1, <3>2
  <2>6. \A o : ScanSeen(o) => ScanSeen(o)'
    BY <1>1, <2>4, <2>5 DEF ScanSeen
  <2>7. ScansInv'
    <3>1. (WrittenTo("USER")' <=> WrittenTo("USER")) /\ (WrittenTo("GC")' <=> WrittenTo("GC"))
      BY <1>1, <2>4 DEF WrittenTo
    <3>2. (Phase("GcScan")' <=> Phase("GcScan")) /\ (Phase("UserScan")' <=> Phase("UserScan"))
          /\ (Scanning' <=> Scanning)
      BY <1>1 DEF Phase, Scanning
    <3>3. \A b : (Full(b)' <=> Full(b)) /\ (OpenAfterLoad(b)' <=> OpenAfterLoad(b))
      BY <1>1, <2>4 DEF Full, OpenAfterLoad
    <3>. QED
      BY <1>1, <2>6, <3>1, <3>2, <3>3 DEF UseInv, ScansInv
  <2>8. ~Loaded'
    BY <1>1, <1>6 DEF Loaded
  <2>. QED
    BY <1>3, <2>7, <2>8 DEF UseInv, OwnedInv
<1>. QED
  BY <1>4, <1>5, <1>6

-----------------------------------------------------------------------------
(* META.                                                                   *)

\* What a save issues and collects is its own.
LEMMA SaveTurn ==
  ASSUME IoTypes, AddrInv, RingAddr, MetaSave
  PROVE  \E t, P : Turns(t, P) /\ P \subseteq {"Meta"} /\ \A c \in Elems(t) : c.cb = "Meta"
<1>n. \A c \in Elems(<<>>) : FALSE
  BY NoneFacts
<1>1. CASE MetaIdle \/ MetaSaveWait
  <2>1. Turns(<<>>, {})
    BY <1>1, QuietTurn DEF MetaIdle, MetaSaveWait
  <2>. QED
    BY <1>n, <2>1
<1>2. CASE MetaSaveStart
  <2>1. PICK c \in {MetaErase, MetaPgm} : Issue(<<c>>) /\ UNCHANGED <<die, done>>
    BY <1>2 DEF MetaSaveStart
  <2>2. GoodCmd(c) /\ c.cb = "Meta"
    BY <2>1, MetaCmdIs
  <2>3. Turns(<<c>>, {}) /\ Elems(<<c>>) = {c}
    BY <2>1, <2>2, IssueTurn, OneFacts
  <2>. QED
    BY <2>2, <2>3
<1>3. CASE MetaSaveErased
  <2>1. HasDone("Meta") /\ PopDone("Meta") /\ Issue(<<MetaPgm>>) /\ die' = die
    BY <1>3 DEF MetaSaveErased
  <2>2. PICK c : c = MetaPgm
    OBVIOUS
  <2>3. GoodCmd(c) /\ c.cb = "Meta"
    BY <2>2, MetaCmdIs
  <2>4. Turns(<<c>>, {"Meta"}) /\ Elems(<<c>>) = {c}
    BY <2>1, <2>2, <2>3, PopIssueTurn, OneFacts, KeysDiffer
  <2>. QED
    BY <2>3, <2>4
<1>4. CASE MetaSaveDone
  <2>1. Turns(<<>>, {"Meta"})
    BY <1>4, PopTurn, KeysDiffer DEF MetaSaveDone
  <2>. QED
    BY <1>n, <2>1
<1>. QED
  BY <1>1, <1>2, <1>3, <1>4 DEF MetaSave

\* A turn of META leaves the programs of the host alone.
LEMMA MetaTurnUse ==
  ASSUME IoTypes, UseInv, NEW t, NEW P, Turns(t, P), P \subseteq {"Meta"},
         \A c \in Elems(t) : c.cb = "Meta"
  PROVE  LastPgm' /\ (Pgms("User") # {} => Pgms("User")' # {})
<1>1. IoTypes' /\ SameFor("User") /\ Keeps("User")
  BY MetaRests, KeysDiffer
<1>. QED
  BY <1>1, PgmsStay, LastPgmKept DEF UseInv

\* A save changes no block of the data.
LEMMA SaveUse ==
  ASSUME RestInv, AllocInv, UseInv, cycle' = cycle, MetaOnly, UNCHANGED openVars, MetaSave
  PROVE  UseInv'
<1>1. /\ mt \in Saves /\ mt' \in Saves
      /\ UNCHANGED <<die, opn, bst, pool, erb, gcSt, mv>>
  BY DEF MetaSave, MetaIdle, MetaSaveWait, MetaSaveStart, MetaSaveErased, MetaSaveDone, MetaOnly,
       gcVars, mapVars, Saves, ioVars
<1>2. Loaded /\ mt' # "Open"
  BY <1>1 DEF Loaded, Saves
<1>3. PICK t, P : Turns(t, P) /\ P \subseteq {"Meta"} /\ \A c \in Elems(t) : c.cb = "Meta"
  BY SaveTurn DEF RestInv, AllocInv
<1>4. LastPgm' /\ (Pgms("User") # {} => Pgms("User")' # {})
  BY <1>3, MetaTurnUse DEF RestInv
<1>5. \A o \in OpenType : SameErb(o)
  BY <1>1, ErbSame
<1>. QED
  BY <1>1, <1>2, <1>4, <1>5, StaysUse

\* A step of the opening that ends before the scans.
LEMMA EarlyUse ==
  ASSUME MapInv, RestInv, AllocInv, UseInv, MetaOpen, ~Loaded', ~Scanning'
  PROVE  UseInv'
<1>1. PICK t, P : ReadsOnly(t, P)
  BY OpenTurn
<1>2. LastPgm'
  BY <1>1, MetaTurnUse DEF ReadsOnly, RestInv
<1>3. OwnedInv' /\ ScansInv'
  BY DEF OwnedInv, ScansInv, Scanning
<1>. QED
  BY <1>2, <1>3 DEF UseInv

\* After a format no block is used, free or left.
LEMMA MetaFormatUse ==
  ASSUME MapInv, RestInv, AllocInv, UseInv, MetaOpen, MetaFormat
  PROVE  UseInv'
<1>1. mt' = "Ready" /\ bst' = [b \in UBlk |-> "Closed"]
  BY DEF MetaFormat
<1>2. PICK t, P : ReadsOnly(t, P)
  BY OpenTurn
<1>3. LastPgm'
  BY <1>2, MetaTurnUse DEF ReadsOnly, RestInv
<1>4. VictimsKnown' /\ FreeKnown' /\ LeftFew'
  <2>1. \A b \in UBlk : bst'[b] = "Closed"
    BY <1>1
  <2>2. Left' = {}
    BY <2>1 DEF Left
  <2>. QED
    BY <2>1, <2>2 DEF VictimsKnown, FreeKnown, LeftFew
<1>5. ScansInv'
  BY <1>1 DEF ScansInv, Scanning, Phase
<1>. QED
  BY <1>3, <1>4, <1>5 DEF UseInv, OwnedInv

\* What a scan asks for next is under way.
LEMMA ScanAsks ==
  ASSUME IoTypes, NEW u, IsUs(u), u.nRun \in 0 .. 2, u.wl \in Nat,
         us' = ScanIssued(u), Issue(ScanReads(u)), UNCHANGED <<die, done>>
  PROVE  /\ us'.ers = u.ers /\ us'.blk = u.blk /\ Under["Meta"] \subseteq Under'["Meta"]
         /\ \A v \in Nat : u.wl <= v /\ v < us'.wl => \E c \in Under'["Meta"] : c.wl = v
<1> DEFINE n == ScanIssues(u)
           t == ScanReads(u)
<1>1. n \in Nat
  BY ScanIssuesIs
<1>2. t = [i \in 1 .. n |-> ReadCmd("Meta", u.blk, u.wl + i - 1)]
  BY DEF ScanReads
<1>3. us' = [u EXCEPT !.wl = @ + n, !.nRun = @ + n]
  BY DEF ScanIssued
<1> HIDE DEF n, t
<1>4. IsReads(t, n) /\ \A i \in 1 .. n : t[i].wl = u.wl + i - 1
  <2>1. \A i \in 1 .. n : t[i].wl = u.wl + i - 1
    BY <1>2, ReadAt
  <2>. QED
    BY <1>2, <2>1, ReadAt DEF IsReads
<1>5. Issue(t)
  BY DEF t
<1>6. Turns(t, {}) /\ Elems(t) = {t[i] : i \in 1 .. n}
      /\ \A c \in Elems(t) : c.cb = "Meta" /\ c.op = "READ"
  BY <1>1, <1>4, <1>5, ReadsTurn
<1>7. us'.wl = u.wl + n /\ us'.ers = u.ers /\ us'.blk = u.blk
  BY <1>3 DEF IsUs, UsFields
<1>8. Elems(nq') = Elems(nq) \cup Elems(t)
  BY <1>6, TurnUnder
<1>9. Under["Meta"] \subseteq Under'["Meta"] /\ Elems(t) \subseteq Under'["Meta"]
  BY <1>6, <1>8, KeysDiffer DEF Under
<1>10. ASSUME NEW v \in Nat, u.wl <= v, v < us'.wl
       PROVE  \E c \in Under'["Meta"] : c.wl = v
  <2>1. PICK i \in 1 .. n : v = u.wl + i - 1
    <3>1. v - u.wl + 1 \in 1 .. n /\ v = u.wl + (v - u.wl + 1) - 1
      BY <1>1, <1>7, <1>10
    <3>. QED
      BY <3>1
  <2>2. t[i] \in Elems(t) /\ t[i].wl = v
    BY <1>4, <1>6, <2>1
  <2>. QED
    BY <1>9, <2>2
<1>. QED
  BY <1>7, <1>9, <1>10

LEMMA ScanStartUse ==
  ASSUME IoTypes, AddrInv, NEW o \in OpenType, opn'[o] = opn[o], ScanStart(o), UNCHANGED <<die, done>>
  PROVE  ScanSeen(o)'
<1>1. PICK u : u = [blk |-> opn[o].blk, wl |-> opn[o].wl, ers |-> FF16, nRun |-> 0]
  OBVIOUS
<1>2. us' = ScanIssued(u) /\ Issue(ScanReads(u))
  BY <1>1 DEF ScanStart
<1>3. IsUs(u) /\ u.wl = opn[o].wl /\ u.nRun \in 0 .. 2
  BY <1>1 DEF IsUs, UsFields
<1>4. u.wl \in Nat
  BY <1>3 DEF AddrInv, IsNext
<1>5. \A v \in Nat : u.wl <= v /\ v < us'.wl => \E c \in Under'["Meta"] : c.wl = v
  BY <1>2, <1>3, <1>4, ScanAsks
<1>6. \A v \in WL : v \in Nat
  BY SizeAssumption DEF WL
<1>. QED
  BY <1>3, <1>5, <1>6 DEF ScanSeen

LEMMA MtLoadDoneUse ==
  ASSUME MapInv, RestInv, AllocInv, UseInv, FirstInv, cycle' = cycle, MetaOpen, MtLoadDone, ResumeSound'
  PROVE  UseInv'
<1>1. /\ Phase("MtLoad") /\ mt' = mt /\ os'.step = "GcScan"
      /\ bst' = [b \in UBlk |-> IF OpenAfterLoad(b) THEN "Open" ELSE "Closed"]
      /\ ScanStart("GC") /\ UNCHANGED <<die, done, opn>> /\ "GC" \in OpenType
  BY DEF MtLoadDone, OsIdle, OpenType
<1>2. mt = "Open" /\ os.step = "MtLoad" /\ AddrInv /\ IoTypes
  BY <1>1, InPhase DEF ReadSteps
<1>3. PICK t, P : ReadsOnly(t, P)
  BY OpenTurn
<1>4. LastPgm'
  BY <1>3, MetaTurnUse DEF ReadsOnly, RestInv
<1>5. Phase("GcScan")' /\ ~Phase("UserScan")' /\ ~Loaded'
  BY <1>1, <1>2 DEF Phase, Loaded
<1>6. cycle' # 0
  BY <1>2 DEF FirstInv, FirstOpen, Opening, Phase
<1>7. ScanSeen("GC")'
  BY <1>1, <1>2, ScanStartUse
<1>8. \A o \in OpenType : (opn[o].wl < NUM_WL => WrittenTo(o))'
  BY <1>5 DEF ResumeSound
<1>9. (opn["USER"].wl < NUM_WL => WrittenTo("USER"))' /\ (opn["GC"].wl < NUM_WL => WrittenTo("GC"))'
  BY <1>8, StreamsDiffer
<1>10. \A b \in UBlk : bst'[b] \in {"Open", "Closed"} /\ (bst'[b] = "Open" => OpenAfterLoad(b)')
  BY <1>1 DEF OpenAfterLoad
<1>11. ScansInv'
  BY <1>5, <1>6, <1>7, <1>9, <1>10 DEF ScansInv
<1>. QED
  BY <1>4, <1>5, <1>11 DEF UseInv, OwnedInv

\* A step within the scan of stream o.
LEMMA ScanGoesUse ==
  ASSUME MapInv, RestInv, AllocInv, UseInv, cycle' = cycle, MetaOpen, NEW o \in OpenType,
         ScanPhase(o), UNCHANGED <<die, opn, bst, mt, os>>, ScanSeen(o) => ScanSeen(o)'
  PROVE  UseInv'
<1>1. PICK t, P : ReadsOnly(t, P)
  BY OpenTurn
<1>2. LastPgm'
  BY <1>1, MetaTurnUse DEF ReadsOnly, RestInv
<1>3. ~Loaded'
  BY DEF ScanPhase, Phase, Loaded
<1>4. ScansInv'
  <2>1. (Phase("GcScan")' <=> Phase("GcScan")) /\ (Phase("UserScan")' <=> Phase("UserScan"))
        /\ (Scanning' <=> Scanning)
    BY DEF Phase, Scanning
  <2>2. (WrittenTo("USER")' <=> WrittenTo("USER")) /\ (WrittenTo("GC")' <=> WrittenTo("GC"))
    BY DEF WrittenTo
  <2>3. \A b : (Full(b)' <=> Full(b)) /\ (OpenAfterLoad(b)' <=> OpenAfterLoad(b))
    BY DEF Full, OpenAfterLoad
  <2>4. Phase("GcScan") => ScanSeen("GC")'
    BY StreamsDiffer DEF ScanPhase, Phase, UseInv, ScansInv
  <2>5. Phase("UserScan") => ScanSeen("USER")'
    BY StreamsDiffer DEF ScanPhase, Phase, UseInv, ScansInv
  <2>. QED
    BY <2>1, <2>2, <2>3, <2>4, <2>5 DEF UseInv, ScansInv
<1>. QED
  BY <1>2, <1>3, <1>4 DEF UseInv, OwnedInv

LEMMA ScanPopUse ==
  ASSUME MapInv, RestInv, AllocInv, FlashInv, UseInv, cycle' = cycle, NEW o \in OpenType, ScanPop(o)
  PROVE  UseInv'
<1> DEFINE e == IF IsErased(DoneHead("Meta").pg) /\ us.ers = FF16 THEN DoneHead("Meta").wl ELSE us.ers
<1>1. /\ ScanPhase(o) /\ HasDone("Meta") /\ PopDone("Meta")
      /\ us' = [us EXCEPT !.nRun = @ - 1, !.ers = e]
      /\ UNCHANGED <<die, nq, opn, bst, mt, os>> /\ MetaOpen
  BY DEF ScanPop, MetaOpen
<1>2. PICK c : c = DoneHead("Meta")
  OBVIOUS
<1>3. e = IF IsErased(c.pg) /\ us.ers = FF16 THEN c.wl ELSE us.ers
  BY <1>2
<1> HIDE DEF e
<1>4. ScanOf(us) /\ ScanState(o) /\ IoTypes
  BY <1>1, InScan
<1>5. ScanRead
  BY <1>1 DEF ScanPhase, FlashInv, LookInv
<1>6. IsSeq(done["Meta"]) /\ done["Meta"] # <<>> /\ done'["Meta"] = Tail(done["Meta"])
  BY <1>1, <1>4, KeysDiffer DEF IoTypes, GoodCmds, HasDone, PopDone
<1>7. Elems(done["Meta"]) = {c} \cup Elems(done'["Meta"])
  BY <1>2, <1>6, TailFacts DEF DoneHead
<1>8. c \in Elems(done["Meta"]) /\ c \in Under["Meta"] /\ Under["Meta"] \subseteq {c} \cup Under'["Meta"]
  BY <1>1, <1>7, KeysDiffer DEF Under
<1>9. c.pg = die[us.blk][c.wl] /\ c.wl \in WL
  <2>1. c.blk = us.blk /\ c.wl \in WL
    BY <1>4, <1>8 DEF ScanState
  <2>. QED
    BY <1>5, <1>8, <2>1 DEF ScanRead
<1>10. us'.blk = us.blk /\ us'.ers = e /\ us'.wl = us.wl
  BY <1>1, <1>4 DEF ScanOf, IsUs, UsFields
<1>11. ASSUME ScanSeen(o)
       PROVE  ScanSeen(o)'
  <2> SUFFICES ASSUME e = FF16, NEW v \in WL, opn[o].wl <= v, v < us.wl, IsErased(die[us.blk][v])
               PROVE  \E d \in Under'["Meta"] : d.wl = v
    BY <1>1, <1>10 DEF ScanSeen
  <2>1. us.ers = FF16 /\ ~IsErased(c.pg)
    BY <1>3, <1>9, SizeAssumption DEF WL, FF16
  <2>2. PICK d \in Under["Meta"] : d.wl = v
    BY <1>11, <2>1 DEF ScanSeen
  <2>3. d # c
    BY <1>9, <2>1, <2>2
  <2>. QED
    BY <1>8, <2>2, <2>3
<1>. QED
  BY <1>1, <1>11, ScanGoesUse

LEMMA ScanReturnUse ==
  ASSUME MapInv, RestInv, AllocInv, UseInv, cycle' = cycle, NEW o \in OpenType, ScanReturn(o)
  PROVE  UseInv'
<1>1. /\ ScanPhase(o) /\ us' = ScanIssued(us) /\ Issue(ScanReads(us)) /\ MetaOpen
      /\ UNCHANGED <<die, done, bst, opn, mt, os>>
  BY DEF ScanReturn, mapVars, MetaOpen
<1>2. ScanOf(us) /\ IoTypes
  BY <1>1, InScan
<1>3. /\ us'.ers = us.ers /\ us'.blk = us.blk /\ Under["Meta"] \subseteq Under'["Meta"]
      /\ \A v \in Nat : us.wl <= v /\ v < us'.wl => \E c \in Under'["Meta"] : c.wl = v
  BY <1>1, <1>2, ScanAsks DEF ScanOf
<1>4. \A v \in WL : v \in Nat /\ (v < us.wl \/ us.wl <= v)
  BY <1>2, SizeAssumption DEF WL, ScanOf
<1>5. ScanSeen(o) => ScanSeen(o)'
  BY <1>1, <1>3, <1>4 DEF ScanSeen
<1>. QED
  BY <1>1, <1>5, ScanGoesUse

\* Where the scan of stream o ends: an open block keeps room, or is full.
LEMMA ScanOverFull ==
  ASSUME MapInv, RestInv, AllocInv, NEW o \in OpenType, ScanOver(o), ScanSeen(o),
         opn[o].wl < NUM_WL => WrittenTo(o)
  PROVE  opn[o].wl < NUM_WL /\ ~(opn'[o].wl < NUM_WL) => Full(opn[o].blk)
<1> SUFFICES ASSUME opn[o].wl < NUM_WL, ~(opn'[o].wl < NUM_WL)
             PROVE  Full(opn[o].blk)
  OBVIOUS
<1>1. /\ ScanPhase(o) /\ us.nRun + ScanIssues(us) = 0
      /\ opn' = [opn EXCEPT ![o].wl = IF us.ers # FF16 THEN us.ers ELSE NUM_WL]
  BY DEF ScanOver, ScanEnd
<1>2. us.blk = opn[o].blk /\ AddrInv /\ ScanOf(us) /\ Cnts("Meta", 0, 0, 0) /\ IoTypes
  BY <1>1, InScan, ScanOverKeeps
<1>3. us.ers = FF16
  <2> SUFFICES ASSUME us.ers # FF16 PROVE FALSE
    OBVIOUS
  <2>1. opn' = [opn EXCEPT ![o].wl = us.ers]
    BY <1>1
  <2>2. opn = [u \in OpenType |-> opn[u]] /\ opn[o] = [blk |-> opn[o].blk, wl |-> opn[o].wl]
    BY <1>2 DEF AddrInv, IsNext, VAddr
  <2>3. opn'[o] = [opn[o] EXCEPT !.wl = us.ers]
    BY <2>1, <2>2
  <2>4. opn'[o].wl = us.ers
    BY <2>2, <2>3
  <2>5. us.ers \in WL
    BY <1>1 DEF AllocInv, ScanAddr, ScanPhase, LookAddr
  <2>. QED
    BY <2>4, <2>5, SizeAssumption DEF WL
<1>4. us.wl \in Nat /\ us.nRun \in 0 .. 2 /\ ~(us.wl < NUM_WL)
  <2>1. us.wl \in Nat /\ us.nRun \in 0 .. 2 /\ ScanIssues(us) \in Nat
    BY <1>2, ScanIssuesIs DEF ScanOf
  <2>2. us.nRun = 0 /\ ScanIssues(us) = 0
    BY <1>1, <2>1
  <2>3. ASSUME us.wl < NUM_WL PROVE FALSE
    <3>1. ScanIssues(us) = Lesser(NUM_WL - us.wl, 2 - us.nRun)
      BY <1>3, <2>3 DEF ScanIssues
    <3>. QED
      BY <2>1, <2>2, <2>3, <3>1, SizeAssumption DEF Lesser
  <2>. QED
    BY <2>1, <2>3
<1>5. Under["Meta"] = {}
  BY <1>2, NoUnder, KeysDiffer
<1>6. ASSUME NEW v \in WL, IsErased(die[opn[o].blk][v])
      PROVE  FALSE
  <2>1. opn[o].wl \in Nat /\ v \in Nat /\ v < NUM_WL
    BY <1>2, SizeAssumption DEF AddrInv, IsNext, WL
  <2>2. CASE v < opn[o].wl
    BY <1>6, <2>2 DEF WrittenTo
  <2>3. CASE opn[o].wl <= v
    <3>1. v < us.wl
      BY <1>4, <2>1, SizeAssumption
    <3>. QED
      BY <1>2, <1>3, <1>5, <1>6, <2>3, <3>1 DEF ScanSeen
  <2>. QED
    BY <2>1, <2>2, <2>3
<1>. QED
  BY <1>6 DEF Full

LEMMA GcScanDoneUse ==
  ASSUME MapInv, RestInv, AllocInv, UseInv, cycle' = cycle, GcScanDone
  PROVE  UseInv'
<1>1. /\ ScanOver("GC") /\ os'.step = "UserScan" /\ ScanStart("USER") /\ Phase("GcScan")
      /\ UNCHANGED <<die, done, bst, mt>> /\ MetaOpen /\ "GC" \in OpenType /\ "USER" \in OpenType
  BY StreamsDiffer DEF GcScanDone, MetaOpen, OsIdle, ScanOver, ScanPhase
<1>2. mt = "Open" /\ IoTypes /\ AddrInv
  BY <1>1, ScanOverKeeps
<1>3. opn'["GC"].blk = opn["GC"].blk /\ opn'["USER"] = opn["USER"]
  BY <1>1, ScanOverAddr, StreamsDiffer
<1>4. PICK t, P : ReadsOnly(t, P)
  BY <1>1, OpenTurn
<1>5. LastPgm'
  BY <1>4, MetaTurnUse DEF ReadsOnly, RestInv
<1>6. Phase("UserScan")' /\ ~Phase("GcScan")' /\ ~Loaded' /\ Scanning
  BY <1>1, <1>2 DEF Phase, Loaded, Scanning
<1>7. ScanSeen("USER")'
  BY <1>1, <1>2, <1>3, ScanStartUse
<1>8. /\ \A b \in UBlk : bst[b] \in {"Open", "Closed"} /\ (bst[b] = "Open" => OpenAfterLoad(b))
      /\ cycle # 0 /\ (opn["USER"].wl < NUM_WL => WrittenTo("USER"))
      /\ (opn["GC"].wl < NUM_WL => WrittenTo("GC")) /\ ScanSeen("GC")
  BY <1>1, <1>6 DEF UseInv, ScansInv
<1>9. opn["GC"].wl < NUM_WL /\ ~(opn'["GC"].wl < NUM_WL) => Full(opn["GC"].blk)
  BY <1>1, <1>8, ScanOverFull
<1>10. ASSUME NEW b \in UBlk, bst[b] = "Open"
       PROVE  OpenAfterLoad(b)' \/ (b = opn'["GC"].blk /\ Full(b)')
  <2>1. PICK o \in OpenType : opn[o].wl < NUM_WL /\ opn[o].blk = b
    BY <1>8, <1>10 DEF OpenAfterLoad
  <2>2. CASE o = "USER"
    BY <1>3, <2>1, <2>2 DEF OpenAfterLoad
  <2>3. CASE o = "GC" /\ opn'["GC"].wl < NUM_WL
    BY <1>3, <2>1, <2>3 DEF OpenAfterLoad
  <2>4. CASE o = "GC" /\ ~(opn'["GC"].wl < NUM_WL)
    BY <1>1, <1>3, <1>9, <2>1, <2>4 DEF Full
  <2>. QED
    BY <2>1, <2>2, <2>3, <2>4, StreamsDiffer
<1>11. (opn["USER"].wl < NUM_WL => WrittenTo("USER"))'
  BY <1>1, <1>3, <1>8 DEF WrittenTo
<1>12. ScansInv'
  BY <1>1, <1>6, <1>7, <1>8, <1>10, <1>11 DEF ScansInv
<1>. QED
  BY <1>5, <1>6, <1>12 DEF UseInv, OwnedInv

\* META is ready: what is open is used, or one of two full blocks.
LEMMA UserScanDoneUse ==
  ASSUME MapInv, RestInv, AllocInv, UseInv, MetaOnly, cycle' = cycle, UserScanDone
  PROVE  UseInv'
<1>1. /\ ScanOver("USER") /\ mt' = "Ready" /\ Phase("UserScan")
      /\ UNCHANGED ioVars /\ bst' = bst /\ MetaOpen /\ "GC" \in OpenType /\ "USER" \in OpenType
  BY StreamsDiffer DEF UserScanDone, MetaOpen, ScanOver, ScanPhase
<1>2. Opening
  BY <1>1, ScanOverKeeps
<1>3. opn'["USER"].blk = opn["USER"].blk /\ opn'["GC"] = opn["GC"]
  BY <1>1, ScanOverAddr, StreamsDiffer
<1>4. LastPgm' /\ die' = die
  BY <1>1 DEF ioVars, UseInv, LastPgm, Pgms, Under
<1>5. /\ \A b \in UBlk : bst[b] \in {"Open", "Closed"}
      /\ \A b \in UBlk : bst[b] = "Open" => OpenAfterLoad(b) \/ (b = opn["GC"].blk /\ Full(b))
      /\ cycle # 0 /\ (opn["USER"].wl < NUM_WL => WrittenTo("USER")) /\ ScanSeen("USER")
  BY <1>1 DEF UseInv, ScansInv, Scanning
<1>6. opn["USER"].wl < NUM_WL /\ ~(opn'["USER"].wl < NUM_WL) => Full(opn["USER"].blk)
  BY <1>1, <1>5, ScanOverFull
<1>7. gcSt' = "WaitOpen"
  BY <1>2, OpeningRests DEF MetaOnly, gcVars
<1>8. \A b \in UBlk : bst'[b] \in {"Open", "Closed"}
  BY <1>1, <1>5
<1>9. VictimsKnown' /\ FreeKnown'
  BY <1>8 DEF VictimsKnown, FreeKnown
<1>10. ASSUME NEW b \in Left'
       PROVE  b \in {opn["USER"].blk, opn["GC"].blk} /\ Full(b)
  <2>1. b \in UBlk /\ bst[b] = "Open" /\ ~UserUses(b)' /\ ~GcUses(b)'
    BY <1>1, <1>10 DEF Left
  <2>2. CASE b = opn["GC"].blk /\ Full(b)
    BY <2>2
  <2>3. CASE OpenAfterLoad(b)
    <3>1. PICK o \in OpenType : opn[o].wl < NUM_WL /\ opn[o].blk = b
      BY <2>3 DEF OpenAfterLoad
    <3>2. CASE o = "USER"
      <4>1. ~(opn'["USER"].wl < NUM_WL)
        BY <1>3, <2>1, <3>1, <3>2 DEF UserUses
      <4>. QED
        BY <1>6, <3>1, <3>2, <4>1
    <3>3. CASE o = "GC"
      BY <1>3, <1>7, <2>1, <3>1, <3>3 DEF GcUses
    <3>. QED
      BY <3>2, <3>3, StreamsDiffer
  <2>. QED
    BY <1>5, <2>1, <2>2, <2>3
<1>11. LeftFew'
  <2>1. \E x, y : Left' \subseteq {x, y}
    BY <1>10
  <2>2. \A b \in Left' : Full(b)'
    BY <1>4, <1>10 DEF Full
  <2>. QED
    BY <1>5, <2>1, <2>2 DEF LeftFew
<1>12. ScansInv'
  BY <1>1 DEF ScansInv, Scanning, Phase
<1>. QED
  BY <1>4, <1>9, <1>11, <1>12 DEF UseInv, OwnedInv

\* The steps of the opening that end before the scans.
LEMMA EarlySteps ==
  ASSUME RestInv,
         \/ MetaInit \/ BlkScanIssue \/ BlkScanPop \/ BlkScanReturn \/ BlkScanDone
         \/ PageScanPop \/ PageScanReturn \/ PageScanDone \/ MtLoadPop \/ MtLoadReturn
  PROVE  ~Loaded' /\ ~Scanning'
<1>1. CASE MetaInit \/ BlkScanDone \/ PageScanDone
  <2>1. mt' = "Open" /\ os'.step \in {"BlkScan", "PageScan", "MtLoad"}
    BY <1>1 DEF MetaInit, BlkScanDone, PageScanDone, OsIdle, Phase
  <2>. QED
    BY <2>1 DEF Loaded, Scanning, Phase
<1>2. CASE \/ BlkScanIssue \/ BlkScanPop \/ BlkScanReturn \/ PageScanPop \/ PageScanReturn
           \/ MtLoadPop \/ MtLoadReturn
  <2>1. PICK s \in ReadSteps : Phase(s)
    BY <1>2 DEF ReadSteps, BlkScanIssue, BlkScanPop, BlkScanReturn, PageScanPop, PageScanReturn,
         MtLoadPop, MtLoadReturn
  <2>2. IsOs(os) /\ mt = "Open" /\ os.step = s
    BY <2>1, InPhase DEF ReadState
  <2>3. mt' \in {"Open", "Assert"}
    BY <1>2, <2>2 DEF BlkScanIssue, BlkScanPop, BlkScanReturn, PageScanPop, PageScanReturn,
         MtLoadPop, MtLoadReturn
  <2>4. \/ os' = os \/ \E i : os' = [os EXCEPT !.iss = i] \/ \E d : os' = [os EXCEPT !.dn = d]
        \/ \E d, c : os' = [os EXCEPT !.dn = d, !.cpo = c]
        \/ \E d, a, b : os' = [os EXCEPT !.dn = d, !.age = a, !.bo = b]
    BY <1>2 DEF BlkScanIssue, BlkScanPop, BlkScanReturn, PageScanPop, PageScanReturn,
         MtLoadPop, MtLoadReturn, openVars
  <2>5. os'.step = os.step
    BY <2>2, <2>4 DEF IsOs, OsFields
  <2>. QED
    BY <2>1, <2>2, <2>3, <2>5 DEF Loaded, Scanning, Phase, ReadSteps
<1>. QED
  BY <1>1, <1>2

LEMMA OpenUse ==
  ASSUME MapInv, RestInv, AllocInv, FlashInv, UseInv, FirstInv, MetaOnly, cycle' = cycle,
         MetaOpen, ResumeSound'
  PROVE  UseInv'
<1>1. CASE \E o \in OpenType : ScanPop(o) \/ ScanReturn(o)
  BY <1>1, ScanPopUse, ScanReturnUse
<1>2. CASE MetaFormat \/ MtLoadDone \/ GcScanDone \/ UserScanDone
  BY <1>2, MetaFormatUse, MtLoadDoneUse, GcScanDoneUse, UserScanDoneUse
<1>3. CASE \/ MetaInit \/ BlkScanIssue \/ BlkScanPop \/ BlkScanReturn \/ BlkScanDone
           \/ PageScanPop \/ PageScanReturn \/ PageScanDone \/ MtLoadPop \/ MtLoadReturn
  <2>1. ~Loaded' /\ ~Scanning' /\ MetaOpen
    BY <1>3, EarlySteps
  <2>. QED
    BY <2>1, EarlyUse
<1>. QED
  BY <1>1, <1>2, <1>3 DEF MetaOpen

-----------------------------------------------------------------------------
(* No block lost: the invariant holds.                                     *)

LEMMA FreshUse == Fresh => UseInv
<1> SUFFICES ASSUME Fresh PROVE UseInv
  OBVIOUS
<1> USE DEF Fresh
<1>1. Under["User"] = {}
  BY NoUnder, KeysDiffer DEF Rested, NoneOf, Cnts
<1>2. LastPgm
  BY <1>1 DEF LastPgm, Pgms
<1>3. OwnedInv /\ ScansInv
  BY DEF OwnedInv, ScansInv, Loaded, Scanning, Phase, Rested, OsIdle
<1>. QED
  BY <1>2, <1>3 DEF UseInv

LEMMA UseInductive ==
  ASSUME MapInv, RestInv, AllocInv, AllocInv', FlashInv, UseInv, FirstInv, [Next]_vars, ResumeSound'
  PROVE  UseInv'
<1>1. CASE TaskReq
  BY <1>1, ReqUse DEF TaskReq
<1>2. CASE TaskResp
  BY <1>2, RespUse DEF TaskResp
<1>3. CASE TaskGc
  BY <1>3, GcUse DEF TaskGc, GcOnly
<1>4. CASE TaskMeta
  <2>1. MetaOnly /\ cycle' = cycle /\ ((MetaSave /\ UNCHANGED openVars) \/ MetaOpen)
    BY <1>4 DEF TaskMeta, MetaOnly
  <2>. QED
    BY <2>1, SaveUse, OpenUse
<1>5. CASE SchedRound \/ UNCHANGED vars \/ Host
  <2>1. UNCHANGED ioVars /\ UNCHANGED <<mt, os, us, opn, bst, gcSt, mv, pool, erb, cycle>>
    BY <1>5 DEF SchedRound, RoundWith, vars, otherThanSched, Host, HostWrite, HostRead,
       HostShutdown, Submit, openVars, mapVars, gcVars
  <2>. QED
    BY <2>1, QuietUse
<1>6. CASE Nand
  BY <1>6, NandUse
<1>7. CASE PowerCycle
  <2>1. Fresh'
    BY <1>7, PowerCycleFresh
  <2>. QED
    BY <2>1, FreshUse, PTL
<1>. QED
  BY <1>1, <1>2, <1>3, <1>4, <1>5, <1>6, <1>7 DEF Next, Task

\* A pair has at most two elements.
LEMMA PairSize ==
  ASSUME NEW x, NEW y
  PROVE  IsFiniteSet({x, y}) /\ Cardinality({x, y}) \in 0 .. 2
<1>1. IsFiniteSet({x}) /\ Cardinality({x}) = 1
  BY FS_Singleton
<1>2. /\ IsFiniteSet({x} \cup {y})
      /\ Cardinality({x} \cup {y}) = IF y \in {x} THEN Cardinality({x}) ELSE Cardinality({x}) + 1
  BY <1>1, FS_AddElement
<1>3. {x} \cup {y} = {x, y}
  OBVIOUS
<1>. QED
  BY <1>1, <1>2, <1>3

\* A stray is a block left behind.
LEMMA UsesLost ==
  ASSUME UseInv
  PROVE  NoBlockLost
<1> SUFFICES ASSUME Loaded
             PROVE  NoBlockLost
  BY DEF NoBlockLost
<1>1. VictimsKnown /\ FreeKnown /\ LeftFew
  BY DEF UseInv, OwnedInv
<1>2. Strays \subseteq Left
  BY StreamsDiffer DEF Strays, Left, UserUses, GcUses
<1>3. Cardinality(Strays) <= IF cycle = 0 THEN 0 ELSE 2
  <2>1. CASE cycle = 0
    <3>1. Strays = {}
      BY <1>1, <1>2, <2>1 DEF LeftFew
    <3>. QED
      BY <2>1, <3>1, FS_EmptySet
  <2>2. CASE cycle # 0
    <3>1. PICK x, y : Strays \subseteq {x, y}
      BY <1>1, <1>2 DEF LeftFew
    <3>2. Cardinality(Strays) <= Cardinality({x, y}) /\ Cardinality(Strays) \in Nat
      BY <3>1, PairSize, FS_Subset, FS_CardinalityType
    <3>3. Cardinality({x, y}) \in 0 .. 2
      BY PairSize
    <3>. QED
      BY <2>2, <3>2, <3>3
  <2>. QED
    BY <2>1, <2>2
<1>4. \A b \in Strays, w \in WL : ~IsErased(die[b][w])
  BY <1>1, <1>2 DEF LeftFew, Full
<1>. QED
  BY <1>1, <1>3, <1>4 DEF NoBlockLost, VictimsKnown, FreeKnown

LEMMA InitUse == Init => UseInv
  BY InitFresh, FreshUse

LEMMA UseHolds == Spec /\ []ResumeSound => []UseInv
<1>1. IInv /\ AllocInv /\ AllocInv' /\ FlashInv /\ UseInv /\ FirstAlloc /\ [Next]_vars /\ ResumeSound'
        => UseInv'
  BY UseInductive DEF IInv, FirstAlloc
<1>. QED
  BY <1>1, InitUse, IInvHolds, AllocHolds, FlashHolds, FirstHolds, PTL DEF Spec

FirstUse == cycle = 0 => UseInv

LEMMA FirstUseHolds == Spec => []FirstUse
<1>1. IInv /\ FirstAlloc /\ FirstAlloc' /\ FirstFlash /\ FirstUse /\ [Next]_vars => FirstUse'
  <2> SUFFICES ASSUME IInv, FirstAlloc, FirstAlloc', FirstFlash, FirstUse, [Next]_vars, cycle' = 0
               PROVE  UseInv'
    BY DEF FirstUse
  <2>1. cycle = 0
    BY DEF Next, Task, TaskReq, TaskResp, TaskGc, TaskMeta, SchedRound, RoundWith,
         otherThanSched, Nand, Host, HostWrite, HostRead, HostShutdown, Submit, vars,
         PowerCycle, FirstAlloc, FirstInv
  <2>2. ResumeSound'
    BY DEF FirstAlloc, FirstInv, FirstOpen, ResumeSound, Phase, Opening
  <2>3. AllocInv' /\ AllocInv /\ FlashInv /\ UseInv /\ FirstInv
    BY <2>1 DEF FirstAlloc, FirstFlash, FirstUse
  <2>. QED
    BY <2>2, <2>3, UseInductive DEF IInv
<1>2. Init => FirstUse
  BY InitUse DEF FirstUse
<1>. QED
  BY <1>1, <1>2, IInvHolds, FirstHolds, FirstFlashHolds, PTL DEF Spec

(* A block that is neither closed nor written to is free, being erased, or *)
(* the source of the move, and the open blocks of no stream are the full   *)
(* ones the scan found, two at most (page_gc.cpp, page_meta.cpp:853-859):  *)
(* no interleaving of REQ, GC, the erases of both and a stop of GC drops a *)
(* block out of use, if what a start resumes is sound.                     *)
THEOREM NoBlockLostHolds == Spec /\ []ResumeSound => []NoBlockLost
<1>1. UseInv => NoBlockLost
  BY UsesLost
<1>. QED
  BY <1>1, UseHolds, PTL

(* Up to the first power off no block is lost, without any hypothesis.     *)
THEOREM NoBlockLostFirst == Spec => [](cycle = 0 => NoBlockLost)
<1>1. FirstUse => (cycle = 0 => NoBlockLost)
  BY UsesLost DEF FirstUse
<1>. QED
  BY <1>1, FirstUseHolds, PTL
=============================================================================
