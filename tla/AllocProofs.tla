---------------------------- MODULE AllocProofs -----------------------------
(***************************************************************************)
(* The allocation of blocks: a block is free, open, closed or a victim for *)
(* one owner at a time, programs and erases go where their owner writes,   *)
(* and no logical page is mapped to a free block (AllocInv). Every step    *)
(* preserves that, given that a start resumes two sound streams            *)
(* (ResumeSound); hence no erase reaches a block with valid pages and the  *)
(* pool is sound. Then, that a journal that takes no more entries has      *)
(* asked for the save, and that a journal being saved grows no more; and   *)
(* that the pool of NAND commands is large enough.                         *)
(***************************************************************************)
EXTENDS TaskProofs

-----------------------------------------------------------------------------
(* The inductive invariant of the allocation of blocks.                    *)

\* The host has one request outstanding: it is queued, in work, or its
\* command is under way; and none before the FTL has opened.
UserCnt    == Cnt["User"]["READ"] + Cnt["User"]["PGM"] + Cnt["User"]["ERB"]
OneRequest ==
  Len(reqQ) + (IF reqSt = "Run" THEN 1 ELSE 0) + UserCnt = IF pend = NoReq THEN 0 ELSE 1

WellAsked(r) == /\ r.cmd = "write" => r.lpn \in LPN
                /\ r.cmd = "shutdown" => r.opt \in Shutdowns

HostInv ==
  /\ IsSeq(reqQ) /\ \A r \in Elems(reqQ) : WellAsked(r)
  /\ WellAsked(req)
  /\ ~pwr => rsp.req.cmd = "shutdown" /\ WellAsked(rsp.req)
  /\ reqSt = "Run" => req.cmd # "none"
  /\ OneRequest
  /\ Opening => Under["User"] = {}

\* The programs and the erases of k that are under way.
Pgms(k) == {c \in Under[k] : c.op = "PGM"}
Erbs(k) == {c \in Under[k] : c.op = "ERB"}

InUse == Loaded \/ Scanning

\* A stream is open while it has a page left to write or a program under way.
\* The block of GC is the open one until a move takes it for its destination.
UserOpen == (InUse /\ opn["USER"].wl < NUM_WL) \/ Pgms("User") # {}
GcOpen == \/ InUse /\ gcSt = "WaitOpen" /\ opn["GC"].wl < NUM_WL
          \/ gcSt = "Move" \/ Pgms("Mig") # {}
GcBlk == IF gcSt = "WaitOpen" THEN opn["GC"].blk ELSE mv.dst

\* A free block is in the pool once or being erased for one stream, and no
\* logical page is mapped to it.  Before GC starts nothing is free.
PoolInv ==
  /\ bst = [b \in UBlk |-> bst[b]]
  /\ gcSt = "WaitOpen" => pool = <<>> /\ \A b \in UBlk : bst[b] # "InFree"
  /\ \A i, j \in DOMAIN pool : i # j => pool[i] # pool[j]
  /\ \A i \in DOMAIN pool : bst[pool[i]] = "InFree"
  /\ \A o \in OpenType : erb[o].step # "Init" =>
       bst[erb[o].blk] = "InFree" /\ \A i \in DOMAIN pool : pool[i] # erb[o].blk
  /\ erb["USER"].step # "Init" /\ erb["GC"].step # "Init" => erb["USER"].blk # erb["GC"].blk
  /\ \A b \in UBlk : bst[b] = "InFree" => \A l \in LPN : map[l].blk # b

\* The two streams write to two blocks, both open, and GC reads a victim.
OpenInv ==
  /\ UserOpen => opn["USER"].blk \in UBlk /\ bst[opn["USER"].blk] = "Open"
  /\ GcOpen => GcBlk \in UBlk /\ bst[GcBlk] = "Open"
  /\ UserOpen /\ GcOpen => opn["USER"].blk # GcBlk
  /\ gcSt = "Move" /\ mv.src # NoBlk => mv.src \in UBlk /\ bst[mv.src] = "Victim"

\* Programs and erases of user blocks go where their issuer writes, and whoever
\* waits for an erase waits for that of its block.
UserCmds ==
  /\ \A c \in Pgms("User") :
       c.blk = opn["USER"].blk /\ c.wl \in Nat /\ c.wl + 1 = opn["USER"].wl
  /\ \A c \in Pgms("Mig") : c.blk = mv.dst /\ c.wl \in Nat /\ c.wl < mv.dwl
  /\ \A o \in OpenType : \A c \in Erbs(ErbKey(o)) :
       erb[o].step = "WaitErb" /\ c.blk = erb[o].blk
  /\ Erbs("User") = {}

\* The scan of a stream starts at the stream's next address.
LookAddr(o) ==
  /\ us.wl >= opn[o].wl
  /\ us.ers # FF16 => us.ers \in WL /\ us.ers >= opn[o].wl
  /\ \A c \in Under["Meta"] : c.wl >= opn[o].wl

ScanAddr == /\ Phase("GcScan") => LookAddr("GC")
            /\ Phase("UserScan") => LookAddr("USER")

\* META erases blocks of its ring only, and has no open block before the load.
RingAddr ==
  /\ mctx.bo \in MOff
  /\ \A c \in Erbs("Meta") : c.blk \in MBlk
  /\ mt = "Init" \/ Phase("BlkScan") => opn = [o \in OpenType |-> FF32]

AllocInv == HostInv /\ PoolInv /\ OpenInv /\ UserCmds /\ ScanAddr /\ RingAddr

-----------------------------------------------------------------------------
(* Turns: what they issue and collect, as the parts of the invariant see it. *)

LEMMA QuietTurn ==
  ASSUME IoTypes, UNCHANGED ioVars
  PROVE  Turns(<<>>, {})
<1>1. IsSeq(<<>>) /\ Elems(<<>>) = {}
  BY NoneFacts
<1>2. nq \o <<>> = nq
  BY SeqPlusNone DEF IoTypes, GoodCmds
<1>. QED
  BY <1>1, <1>2 DEF Turns, ioVars, GoodCmds, IoTypes

LEMMA IssueTurn ==
  ASSUME IoTypes, NEW c, GoodCmd(c), Issue(<<c>>), UNCHANGED <<die, done>>
  PROVE  Turns(<<c>>, {})
<1> DEFINE t == <<c>>
<1>1. IsSeq(t) /\ Elems(t) = {c}
  BY OneFacts
<1> HIDE DEF t
<1>2. Issue(t)
  BY DEF t
<1>3. Turns(t, {})
  BY <1>1, <1>2 DEF GoodCmds, IoTypes, Issue, Turns
<1>. QED
  BY <1>3 DEF t

LEMMA PopTurn ==
  ASSUME IoTypes, NEW k \in CbKey, HasDone(k), PopDone(k), UNCHANGED <<die, nq>>
  PROVE  Turns(<<>>, {k})
<1>1. IsSeq(<<>>) /\ Elems(<<>>) = {}
  BY NoneFacts
<1>2. nq \o <<>> = nq
  BY SeqPlusNone DEF IoTypes, GoodCmds
<1>. QED
  BY <1>1, <1>2 DEF Turns, GoodCmds, IoTypes, PopDone

LEMMA PopIssueTurn ==
  ASSUME IoTypes, NEW k \in CbKey, HasDone(k), PopDone(k),
         NEW c, GoodCmd(c), Issue(<<c>>), die' = die
  PROVE  Turns(<<c>>, {k})
<1> DEFINE t == <<c>>
<1>1. IsSeq(t) /\ Elems(t) = {c}
  BY OneFacts
<1> HIDE DEF t
<1>2. Issue(t)
  BY DEF t
<1>3. Turns(t, {k})
  BY <1>1, <1>2 DEF GoodCmds, IoTypes, Issue, PopDone, Turns
<1>. QED
  BY <1>3 DEF t

LEMMA TurnUnder ==
  ASSUME IoTypes, NEW t, NEW P, Turns(t, P)
  PROVE  /\ IoTypes' /\ die' = die
         /\ Elems(nq') = Elems(nq) \cup Elems(t)
         /\ \A k \in CbKey :
              /\ Under'[k] \subseteq Under[k] \cup {c \in Elems(t) : c.cb = k}
              /\ Elems(done'[k]) \subseteq Elems(done[k])
<1>1. IoTypes' /\ CountsMove(t, P)
  BY StepFacts
<1>2. Elems(nq') = Elems(nq) \cup Elems(t)
  BY ConcatFacts DEF Turns, IoTypes, GoodCmds
<1>3. ASSUME NEW k \in CbKey
      PROVE  Elems(done'[k]) \subseteq Elems(done[k])
  <2>1. CASE k \in P
    <3>1. IsSeq(done[k]) /\ done[k] # <<>>
      BY <2>1 DEF Turns, IoTypes, GoodCmds, HasDone
    <3>2. Elems(Tail(done[k])) \subseteq Elems(done[k])
      BY <3>1, TailFacts
    <3>. QED
      BY <2>1, <3>2 DEF Turns
  <2>2. CASE k \notin P
    BY <2>2 DEF Turns
  <2>. QED
    BY <2>1, <2>2
<1>4. \A k \in CbKey : Under'[k] \subseteq Under[k] \cup {c \in Elems(t) : c.cb = k}
  BY <1>1 DEF CountsMove, UnderNow
<1>. QED
  BY <1>1, <1>2, <1>3, <1>4 DEF Turns

\* What a turn adds to the programs and erases of k.
LEMMA TurnWrites ==
  ASSUME IoTypes, NEW t, NEW P, Turns(t, P), NEW k \in CbKey
  PROVE  /\ Pgms(k)' \subseteq Pgms(k) \cup {c \in Elems(t) : c.cb = k /\ c.op = "PGM"}
         /\ Erbs(k)' \subseteq Erbs(k) \cup {c \in Elems(t) : c.cb = k /\ c.op = "ERB"}
<1>1. Under'[k] \subseteq Under[k] \cup {c \in Elems(t) : c.cb = k}
  BY TurnUnder
<1>. QED
  BY <1>1 DEF Pgms, Erbs

LEMMA QueuedIsUnder ==
  ASSUME IoTypes, NEW c \in Elems(nq)
  PROVE  c.cb \in CbKey /\ c \in Under[c.cb] /\ GoodCmd(c)
  BY DEF IoTypes, GoodCmds, GoodCmd, Under

LEMMA DoneIsUnder ==
  ASSUME IoTypes, NEW k \in CbKey, NEW c \in Elems(done[k])
  PROVE  c \in Under[k] /\ c.cb = k /\ GoodCmd(c)
  BY DEF IoTypes, GoodCmds, Under

\* No command of the kind o is under way if they count none.
LEMMA NoPgms ==
  ASSUME IoTypes, NEW k \in CbKey
  PROVE  /\ Pgms(k) = {} <=> Cnt[k]["PGM"] = 0
         /\ Erbs(k) = {} <=> Cnt[k]["ERB"] = 0
  BY CntZero, KeysDiffer DEF Pgms, Erbs

\* A step leaves the programs and the erases of k as they are, or takes some.
Keeps(k) == Pgms(k)' \subseteq Pgms(k) /\ Erbs(k)' \subseteq Erbs(k)

LEMMA SubsetKeeps ==
  ASSUME NEW k \in CbKey, Under'[k] \subseteq Under[k]
  PROVE  Keeps(k)
  BY DEF Keeps, Pgms, Erbs

\* A turn that neither issues nor collects a command of k.
LEMMA TurnRests ==
  ASSUME IoTypes, NEW t, NEW P, Turns(t, P), NEW k \in CbKey, k \notin P,
         \A c \in Elems(t) : c.cb # k
  PROVE  SameFor(k) /\ Under'[k] \subseteq Under[k] /\ Keeps(k)
<1>1. CountsMove(t, P)
  BY StepFacts
<1>2. Under'[k] \subseteq Under[k]
  BY <1>1 DEF CountsMove, UnderNow
<1>3. ASSUME NEW o \in Ops
      PROVE  Cnt'[k][o] = Cnt[k][o]
  <2>1. Num(t, {k}, o) = 0
    BY NumType DEF Match, Turns, GoodCmds
  <2>2. Popped(P, k, o) = 0
    BY DEF Popped
  <2>3. Cnt'[k][o] = Cnt[k][o] + Num(t, {k}, o) - Popped(P, k, o) /\ Cnt[k][o] \in Nat
    BY <1>1, CntIs DEF CountsMove
  <2> HIDE DEF Cnt
  <2>. QED
    BY <2>1, <2>2, <2>3
<1>. QED
  BY <1>2, <1>3, SubsetKeeps DEF SameFor

\* A turn that issues nothing.
LEMMA TurnTakes ==
  ASSUME IoTypes, NEW P, Turns(<<>>, P), NEW k \in CbKey
  PROVE  Under'[k] \subseteq Under[k] /\ Keeps(k)
<1>1. CountsMove(<<>>, P)
  BY StepFacts
<1>2. Elems(<<>>) = {}
  BY NoneFacts
<1>3. Under'[k] \subseteq Under[k]
  BY <1>1, <1>2 DEF CountsMove, UnderNow
<1>. QED
  BY <1>3, SubsetKeeps

-----------------------------------------------------------------------------
(* The request of the host.                                                *)

LEMMA UserCntFacts ==
  ASSUME IoTypes
  PROVE  UserCnt \in Nat /\ (UserCnt = 0 => Under["User"] = {})
<1>1. Cnt["User"]["READ"] \in Nat /\ Cnt["User"]["PGM"] \in Nat /\ Cnt["User"]["ERB"] \in Nat
  BY CntIs, KeysDiffer
<1> DEFINE r == Cnt["User"]["READ"]
           p == Cnt["User"]["PGM"]
           e == Cnt["User"]["ERB"]
<1>2. UserCnt = r + p + e
  BY DEF UserCnt
<1>3. r \in Nat /\ p \in Nat /\ e \in Nat
  BY <1>1
<1>4. ASSUME r = 0, p = 0, e = 0
      PROVE  Under["User"] = {}
  BY <1>4, NoUnder, KeysDiffer DEF Cnts
<1> HIDE DEF r, p, e
<1>. QED
  BY <1>2, <1>3, <1>4

LEMMA UserCntSame ==
  ASSUME SameFor("User")
  PROVE  UserCnt' = UserCnt
  BY KeysDiffer DEF SameFor, UserCnt

\* A step that leaves the host, REQ and the user's commands alone.
LEMMA HostFrame ==
  ASSUME HostInv, UNCHANGED <<reqQ, reqSt, req, rsp, pwr, pend>>, SameFor("User"),
         Opening' => Opening /\ Under'["User"] \subseteq Under["User"]
  PROVE  HostInv'
<1>1. UserCnt' = UserCnt
  BY UserCntSame
<1>2. OneRequest'
  BY <1>1 DEF HostInv, OneRequest
<1>. QED
  BY <1>2 DEF HostInv, WellAsked

\* What REQ works on is a request of the host, and the only one.
LEMMA HandledIs ==
  ASSUME HostInv, IoTypes, NEW r, NEW at, Handling(r, at)
  PROVE  /\ WellAsked(r) /\ pend # NoReq /\ UserCnt = 0
         /\ IsSeq(reqQ') /\ Len(reqQ') = 0 /\ \A q \in Elems(reqQ') : WellAsked(q)
<1>1. UserCnt \in Nat
  BY UserCntFacts
<1>2. IsSeq(reqQ) /\ Len(reqQ) \in Nat
  BY SeqFacts DEF HostInv
<1>3. CASE reqSt = "Run" /\ r = req /\ UNCHANGED reqQ
  <2>1. Len(reqQ) + 1 + UserCnt = IF pend = NoReq THEN 0 ELSE 1
    BY <1>3 DEF HostInv, OneRequest
  <2>2. pend # NoReq /\ UserCnt = 0 /\ Len(reqQ) = 0
    BY <1>1, <1>2, <2>1
  <2>. QED
    BY <1>3, <2>2 DEF HostInv
<1>4. CASE reqSt = "WaitCmd" /\ reqQ # <<>> /\ r = Head(reqQ) /\ reqQ' = Tail(reqQ)
  <2>1. Len(reqQ) + UserCnt = IF pend = NoReq THEN 0 ELSE 1
    BY <1>1, <1>2, <1>4 DEF HostInv, OneRequest
  <2>2. /\ IsSeq(Tail(reqQ)) /\ Elems(reqQ) = {Head(reqQ)} \cup Elems(Tail(reqQ))
        /\ Len(Tail(reqQ)) = Len(reqQ) - 1
    BY <1>2, <1>4, TailFacts
  <2>3. Len(Tail(reqQ)) \in Nat
    BY <2>2, SeqFacts
  <2>4. pend # NoReq /\ UserCnt = 0 /\ Len(Tail(reqQ)) = 0
    <3> DEFINE m == Len(reqQ)
               n == Len(Tail(reqQ))
    <3>1. m = n + 1 /\ m \in Nat /\ n \in Nat /\ m + UserCnt = IF pend = NoReq THEN 0 ELSE 1
      BY <1>2, <2>1, <2>2, <2>3
    <3> HIDE DEF m, n
    <3>2. pend # NoReq /\ UserCnt = 0 /\ n = 0
      BY <1>1, <3>1
    <3>. QED
      BY <3>2 DEF n
  <2>. QED
    BY <1>4, <2>2, <2>4 DEF HostInv
<1>. QED
  BY <1>3, <1>4 DEF Handling

LEMMA HostRemains ==
  ASSUME HostInv, IoTypes, NEW r, NEW at, Handling(r, at), NEW s, Remains(r, s), r.cmd # "none",
         ~Opening', pwr, UNCHANGED <<rsp, pwr, pend>>, SameFor("User")
  PROVE  HostInv'
<1>1. UserCnt' = UserCnt
  BY UserCntSame
<1>2. OneRequest'
  BY <1>1, HandledIs DEF OneRequest, Remains
<1>. QED
  BY <1>2, HandledIs DEF HostInv, WellAsked, Remains

LEMMA HostIssues ==
  ASSUME HostInv, IoTypes, NEW r, NEW at, Handling(r, at), Fetched,
         ~Opening', pwr, UNCHANGED <<rsp, pwr, pend>>,
         NEW c, c.cb = "User", c.op \in Ops, Turns(<<c>>, {})
  PROVE  HostInv'
<1>1. /\ CountsMove(<<c>>, {}) /\ Cnt \in [CbKey -> [Ops -> Nat]]
  BY StepFacts, CntIs
<1>2. \A o \in Ops : Num(<<c>>, {"User"}, o) = IF c.op = o THEN 1 ELSE 0
  BY OneFacts DEF Match
<1>3. \A o \in Ops : Cnt'["User"][o] = Cnt["User"][o] + (IF c.op = o THEN 1 ELSE 0)
  <2> SUFFICES ASSUME NEW o \in Ops
               PROVE  Cnt'["User"][o] = Cnt["User"][o] + (IF c.op = o THEN 1 ELSE 0)
    OBVIOUS
  <2>1. Cnt'["User"][o] = Cnt["User"][o] + Num(<<c>>, {"User"}, o) - Popped({}, "User", o)
        /\ Cnt["User"][o] \in Nat
    BY <1>1, KeysDiffer DEF CountsMove
  <2>2. Popped({}, "User", o) = 0
    BY DEF Popped
  <2> HIDE DEF Cnt
  <2>. QED
    BY <1>2, <2>1, <2>2
<1>4. UserCnt' = UserCnt + 1
  <2>1. /\ Cnt'["User"]["READ"] = Cnt["User"]["READ"] + (IF c.op = "READ" THEN 1 ELSE 0)
        /\ Cnt'["User"]["PGM"] = Cnt["User"]["PGM"] + (IF c.op = "PGM" THEN 1 ELSE 0)
        /\ Cnt'["User"]["ERB"] = Cnt["User"]["ERB"] + (IF c.op = "ERB" THEN 1 ELSE 0)
        /\ Cnt["User"]["READ"] \in Nat /\ Cnt["User"]["PGM"] \in Nat /\ Cnt["User"]["ERB"] \in Nat
    BY <1>1, <1>3, KeysDiffer
  <2>2. c.op = "READ" \/ c.op = "PGM" \/ c.op = "ERB"
    BY DEF Ops
  <2> DEFINE r1 == Cnt["User"]["READ"]
             p1 == Cnt["User"]["PGM"]
             e1 == Cnt["User"]["ERB"]
             r2 == Cnt'["User"]["READ"]
             p2 == Cnt'["User"]["PGM"]
             e2 == Cnt'["User"]["ERB"]
  <2>3. /\ r2 = r1 + (IF c.op = "READ" THEN 1 ELSE 0) /\ p2 = p1 + (IF c.op = "PGM" THEN 1 ELSE 0)
        /\ e2 = e1 + (IF c.op = "ERB" THEN 1 ELSE 0)
        /\ r1 \in Nat /\ p1 \in Nat /\ e1 \in Nat
    BY <2>1
  <2>4. UserCnt = r1 + p1 + e1 /\ UserCnt' = r2 + p2 + e2
    BY DEF UserCnt
  <2> HIDE DEF r1, p1, e1, r2, p2, e2
  <2>. QED
    BY <2>2, <2>3, <2>4
<1>5. OneRequest'
  BY <1>4, HandledIs DEF OneRequest, Fetched
<1>. QED
  BY <1>5, HandledIs DEF HostInv, WellAsked, Fetched, NoReq

LEMMA HostAnswered ==
  ASSUME HostInv, IoTypes, NEW r, NEW at, Handling(r, at), Fetched, NEW pg, Respond(r, pg),
         ~Opening', SameFor("User")
  PROVE  HostInv'
<1>1. UserCnt' = UserCnt
  BY UserCntSame
<1>2. OneRequest'
  BY <1>1, HandledIs DEF OneRequest, Fetched, Respond
<1>3. rsp'.req = r
  BY DEF Respond
<1>. QED
  BY <1>2, <1>3, HandledIs DEF HostInv, WellAsked, Fetched, Respond, NoReq

\* REQ_RESP answers the command it collects.
LEMMA HostCollects ==
  ASSUME HostInv, IoTypes, ~Opening, mt' = mt, HasDone("User"), Turns(<<>>, {"User"}),
         UNCHANGED <<reqQ, reqSt, req>>, NEW pg, Respond(DoneHead("User").req, pg)
  PROVE  HostInv'
<1>0. IoTypes' /\ CountsMove(<<>>, {"User"})
  BY StepFacts
<1>1. DoneHead("User").op \in Ops /\ DoneHead("User").req.cmd # "shutdown"
      /\ Cnt["User"][DoneHead("User").op] > 0
  BY HeadUnder, KeysDiffer DEF GoodCmd
<1>2. \A o \in Ops : Cnt'["User"][o] = Cnt["User"][o] - Popped({"User"}, "User", o)
                     /\ Cnt["User"][o] \in Nat /\ Cnt'["User"][o] \in Nat
  <2> SUFFICES ASSUME NEW o \in Ops
               PROVE  Cnt'["User"][o] = Cnt["User"][o] - Popped({"User"}, "User", o)
                     /\ Cnt["User"][o] \in Nat /\ Cnt'["User"][o] \in Nat
    OBVIOUS
  <2>1. Cnt'["User"][o] = Cnt["User"][o] + Num(<<>>, {"User"}, o) - Popped({"User"}, "User", o)
    BY <1>0, KeysDiffer DEF CountsMove
  <2>2. Cnt["User"][o] \in Nat /\ Cnt'["User"][o] \in Nat
    BY <1>0, CntIs, CntIsPrimed, KeysDiffer
  <2>3. Num(<<>>, {"User"}, o) = 0
    BY NoneFacts
  <2>4. Popped({"User"}, "User", o) \in Int
    BY DEF Popped
  <2> HIDE DEF Cnt
  <2>. QED
    BY <2>1, <2>2, <2>3, <2>4
<1>3. UserCnt' = UserCnt - 1 /\ UserCnt \in Nat /\ UserCnt' \in Nat
  <2> DEFINE r1 == Cnt["User"]["READ"]
             p1 == Cnt["User"]["PGM"]
             e1 == Cnt["User"]["ERB"]
             r2 == Cnt'["User"]["READ"]
             p2 == Cnt'["User"]["PGM"]
             e2 == Cnt'["User"]["ERB"]
             op == DoneHead("User").op
  <2>3. /\ r2 = r1 - (IF op = "READ" THEN 1 ELSE 0) /\ p2 = p1 - (IF op = "PGM" THEN 1 ELSE 0)
        /\ e2 = e1 - (IF op = "ERB" THEN 1 ELSE 0)
        /\ r1 \in Nat /\ p1 \in Nat /\ e1 \in Nat /\ r2 \in Nat /\ p2 \in Nat /\ e2 \in Nat
    BY <1>2, KeysDiffer DEF Popped
  <2>4. UserCnt = r1 + p1 + e1 /\ UserCnt' = r2 + p2 + e2
    BY DEF UserCnt
  <2>5. op = "READ" \/ op = "PGM" \/ op = "ERB"
    BY <1>1 DEF Ops
  <2> HIDE DEF r1, p1, e1, r2, p2, e2, op
  <2>. QED
    BY <2>3, <2>4, <2>5
<1>4. OneRequest'
  <2>1. Len(reqQ) \in Nat
    BY SeqFacts DEF HostInv
  <2>2. Len(reqQ) + (IF reqSt = "Run" THEN 1 ELSE 0) + UserCnt = IF pend = NoReq THEN 0 ELSE 1
    BY DEF HostInv, OneRequest
  <2>3. Len(reqQ) + (IF reqSt = "Run" THEN 1 ELSE 0) + UserCnt' = 0
    BY <1>3, <2>1, <2>2
  <2>. QED
    BY <2>3 DEF OneRequest, Respond
<1>. QED
  BY <1>1, <1>4 DEF HostInv, WellAsked, Respond, Opening

LEMMA HostSubmits ==
  ASSUME HostInv, IoTypes, NEW r, Submit(r), WellAsked(r), r.cmd # "none"
  PROVE  HostInv'
<1>1. SameFor("User") /\ Under'["User"] = Under["User"]
  BY QuietFor, SameIo, KeysDiffer DEF Submit
<1>2. UserCnt' = UserCnt /\ UserCnt \in Nat
  BY <1>1, UserCntSame, UserCntFacts
<1>3. /\ IsSeq(reqQ') /\ Elems(reqQ') = Elems(reqQ) \cup {r} /\ Len(reqQ') = Len(reqQ) + 1
      /\ Len(reqQ) \in Nat
  BY AppendFacts, SeqFacts DEF HostInv, Submit
<1>4. OneRequest'
  <2>1. Len(reqQ) + (IF reqSt = "Run" THEN 1 ELSE 0) + UserCnt = 0
    BY DEF HostInv, OneRequest, Submit
  <2>2. Len(reqQ') + (IF reqSt' = "Run" THEN 1 ELSE 0) + UserCnt' = 1
    BY <1>2, <1>3, <2>1 DEF Submit
  <2>3. pend' # NoReq
    BY DEF Submit, NoReq
  <2>. QED
    BY <2>2, <2>3 DEF OneRequest
<1>. QED
  BY <1>1, <1>3, <1>4 DEF HostInv, WellAsked, Submit, Opening

-----------------------------------------------------------------------------
(* What a step that leaves the allocation of blocks alone has to keep.     *)

SameErb(o) == \/ erb'[o] = erb[o]
              \/ erb[o].step # "Init" /\ erb'[o].step # "Init" /\ erb'[o].blk = erb[o].blk
                 /\ Erbs(ErbKey(o))' = {}

LEMMA PoolFrame ==
  ASSUME PoolInv, UNCHANGED <<bst, pool, map>>, gcSt' = "WaitOpen" => gcSt = "WaitOpen",
         \A o \in OpenType : SameErb(o)
  PROVE  PoolInv'
<1>1. \A o \in OpenType : erb'[o].step # "Init" => erb[o].step # "Init" /\ erb'[o].blk = erb[o].blk
  BY DEF SameErb
<1>2. "USER" \in OpenType /\ "GC" \in OpenType
  BY DEF OpenType
<1>. QED
  BY <1>1, <1>2 DEF PoolInv

LEMMA OpnFrame ==
  ASSUME OpenInv, UNCHANGED <<bst, opn>>, UserOpen' => UserOpen,
         GcOpen' => GcOpen /\ GcBlk' = GcBlk,
         gcSt' = "Move" /\ mv'.src # NoBlk => gcSt = "Move" /\ mv'.src = mv.src
  PROVE  OpenInv'
<1>1. bst' = bst /\ opn' = opn
  OBVIOUS
<1>2. UserOpen' => opn'["USER"].blk \in UBlk /\ bst'[opn'["USER"].blk] = "Open"
  BY <1>1 DEF OpenInv
<1>3. GcOpen' => GcBlk' \in UBlk /\ bst'[GcBlk'] = "Open"
  BY <1>1 DEF OpenInv
<1>4. UserOpen' /\ GcOpen' => opn'["USER"].blk # GcBlk'
  BY <1>1 DEF OpenInv
<1>5. gcSt' = "Move" /\ mv'.src # NoBlk => mv'.src \in UBlk /\ bst'[mv'.src] = "Victim"
  BY <1>1 DEF OpenInv
<1>. QED
  BY <1>2, <1>3, <1>4, <1>5 DEF OpenInv

LEMMA CmdsFrame ==
  ASSUME UserCmds, \A k \in CbKey \ {"Meta"} : Keeps(k), opn' = opn,
         Pgms("Mig")' # {} => mv'.dst = mv.dst /\ mv'.dwl = mv.dwl,
         \A o \in OpenType : SameErb(o)
  PROVE  UserCmds'
<1>1. Keeps("User") /\ Keeps("Mig") /\ \A o \in OpenType : Keeps(ErbKey(o))
  BY KeysDiffer DEF ErbKey
<1>2. \A o \in OpenType : \A c \in Erbs(ErbKey(o))' : erb'[o].step = "WaitErb" /\ c.blk = erb'[o].blk
  BY <1>1 DEF UserCmds, Keeps, SameErb
<1>. QED
  BY <1>1, <1>2 DEF UserCmds, Keeps

LEMMA ScanFrame ==
  ASSUME ScanAddr, UNCHANGED <<mt, os, us>>, mt = "Open" => UNCHANGED opn, SameFor("Meta")
  PROVE  ScanAddr'
<1>1. ASSUME mt = "Open", NEW o, LookAddr(o)
      PROVE  LookAddr(o)'
  BY <1>1 DEF LookAddr, SameFor
<1>. QED
  BY <1>1 DEF ScanAddr, Phase

LEMMA RingFrame ==
  ASSUME RingAddr, UNCHANGED <<mt, os, opn, mctx>>, Keeps("Meta")
  PROVE  RingAddr'
  BY DEF RingAddr, Phase, Keeps

LEMMA AllocFrame ==
  ASSUME AllocInv, HostInv', ScanAddr', RingAddr',
         UNCHANGED <<bst, pool, map, opn>>, InUse' => InUse,
         \A k \in CbKey \ {"Meta"} : Keeps(k),
         \A o \in OpenType : SameErb(o),
         gcSt' = "WaitOpen" => gcSt = "WaitOpen",
         GcOpen' => GcOpen /\ GcBlk' = GcBlk,
         Pgms("Mig")' # {} => mv'.dst = mv.dst /\ mv'.dwl = mv.dwl,
         gcSt' = "Move" /\ mv'.src # NoBlk => gcSt = "Move" /\ mv'.src = mv.src
  PROVE  AllocInv'
<1>1. UserOpen' => UserOpen
  BY KeysDiffer DEF UserOpen, Keeps
<1>2. PoolInv'
  BY PoolFrame DEF AllocInv
<1>3. OpenInv'
  BY <1>1, OpnFrame DEF AllocInv
<1>4. UserCmds'
  BY CmdsFrame DEF AllocInv
<1>. QED
  BY <1>2, <1>3, <1>4 DEF AllocInv

\* The block GC writes to stays, as long as GC does.
LEMMA GcOpenSame ==
  ASSUME UNCHANGED <<gcSt, opn>>, mv'.dst = mv.dst, InUse' => InUse, Keeps("Mig")
  PROVE  GcOpen' => GcOpen /\ GcBlk' = GcBlk
  BY DEF GcOpen, GcBlk, Keeps

\* A shutdown stops GC.
LEMMA GcOpenStops ==
  ASSUME gcSt' = "Stop", UNCHANGED <<opn, mv>>, Keeps("Mig"),
         gcSt = "WaitOpen" => Pgms("Mig") = {}
  PROVE  GcOpen' => GcOpen /\ GcBlk' = GcBlk
  BY DEF GcOpen, GcBlk, Keeps

LEMMA GcOpenNot ==
  ASSUME gcSt' \notin {"WaitOpen", "Move"}, Keeps("Mig"), Pgms("Mig") = {}
  PROVE  ~GcOpen'
  BY DEF GcOpen, Keeps

\* A step of the tasks other than META, once META is done with its start.
LEMMA OthersAlloc ==
  ASSUME AllocInv, UNCHANGED <<mctx, mt, os, us, opn>>, SameFor("Meta"), Keeps("Meta")
  PROVE  ScanAddr' /\ RingAddr' /\ (InUse' => InUse) /\ (InUse => InUse')
<1>1. ScanAddr' /\ RingAddr'
  BY ScanFrame, RingFrame DEF AllocInv
<1>2. InUse' <=> InUse
  BY DEF InUse, Loaded, Scanning, Phase
<1>. QED
  BY <1>1, <1>2

LEMMA TypesCorollary ==
  ASSUME RestInv
  PROVE  /\ IoTypes
         /\ gcSt \in {"WaitOpen", "WaitReq", "GetDst"} => Pgms("Mig") = {} /\ Erbs("Mig") = {}
         /\ gcSt = "ErsDst" => Pgms("Mig") = {}
         /\ gcSt = "Move" => Erbs("Mig") = {}
         /\ erb["USER"].step # "WaitErb" => Erbs("UErs") = {}
         /\ gcSt = "ErsDst" /\ erb["GC"].step # "WaitErb" => Erbs("Mig") = {}
<1>1. IoTypes
  BY DEF RestInv
<1>2. /\ gcSt \in {"WaitOpen", "WaitReq", "GetDst"} => Cnt["Mig"]["PGM"] = 0 /\ Cnt["Mig"]["ERB"] = 0
      /\ gcSt = "ErsDst" => Cnt["Mig"]["PGM"] = 0
      /\ gcSt = "Move" => Cnt["Mig"]["ERB"] = 0
      /\ erb["USER"].step # "WaitErb" => Cnt["UErs"]["ERB"] = 0
      /\ gcSt = "ErsDst" /\ erb["GC"].step # "WaitErb" => Cnt["Mig"]["ERB"] = 0
  BY DEF RestInv, MigInv, ErbInv, Cnts
<1>3. \A k \in CbKey : (Pgms(k) = {} <=> Cnt[k]["PGM"] = 0) /\ (Erbs(k) = {} <=> Cnt[k]["ERB"] = 0)
  BY <1>1, NoPgms
<1>. QED
  BY <1>1, <1>2, <1>3, KeysDiffer

-----------------------------------------------------------------------------
(* The steps of REQ and of REQ_RESP.                                       *)

NextWrites(k) ==
  /\ Pgms(k)' = {} <=> Cnt'[k]["PGM"] = 0
  /\ Erbs(k)' = {} <=> Cnt'[k]["ERB"] = 0

LEMMA NoPgmsNext ==
  ASSUME IoTypes', NEW k \in CbKey
  PROVE  NextWrites(k)
<1>1. \A o \in Ops : Cnt'[k][o] = Num(nq', {k}, o) + Num(done'[k], CbKey, o)
         /\ Num(nq', {k}, o) \in Nat /\ Num(done'[k], CbKey, o) \in Nat
  BY CntIsPrimed
<1>2. \A o \in Ops : Cnt'[k][o] = 0 <=> Num(nq', {k}, o) = 0 /\ Num(done'[k], CbKey, o) = 0
  <2> SUFFICES ASSUME NEW o \in Ops
               PROVE  Cnt'[k][o] = 0 <=> Num(nq', {k}, o) = 0 /\ Num(done'[k], CbKey, o) = 0
    OBVIOUS
  <2> DEFINE n == Cnt'[k][o]
             a == Num(nq', {k}, o)
             b == Num(done'[k], CbKey, o)
  <2>1. n = a + b /\ a \in Nat /\ b \in Nat
    BY <1>1
  <2> HIDE DEF n, a, b
  <2>2. n = 0 <=> a = 0 /\ b = 0
    BY <2>1
  <2>. QED
    BY <2>2 DEF n, a, b
<1>3. /\ \A o \in Ops : Num(nq', {k}, o) = 0 <=> \A c \in Elems(nq') : ~Match(c, {k}, o)
      /\ \A o \in Ops : Num(done'[k], CbKey, o) = 0 <=> \A c \in Elems(done'[k]) : ~Match(c, CbKey, o)
  BY NumType DEF IoTypes, GoodCmds
<1>4. Under'[k] = {c \in Elems(nq') : c.cb = k} \cup Elems(done'[k])
      /\ \A c \in Elems(done'[k]) : c.cb \in CbKey
  BY DEF Under, IoTypes, GoodCmds, GoodCmd
<1>5. ASSUME NEW o \in Ops
      PROVE  Cnt'[k][o] = 0 <=> \A c \in Under'[k] : c.op # o
  <2>1. (\A c \in Elems(nq') : ~Match(c, {k}, o)) <=> \A c \in Elems(nq') : c.cb = k => c.op # o
    BY DEF Match
  <2>2. (\A c \in Elems(done'[k]) : ~Match(c, CbKey, o)) <=> \A c \in Elems(done'[k]) : c.op # o
    BY <1>4 DEF Match
  <2> HIDE DEF Cnt, Under
  <2>. QED
    BY <1>2, <1>3, <1>4, <2>1, <2>2
<1>6. /\ Cnt'[k]["PGM"] = 0 <=> \A c \in Under'[k] : c.op # "PGM"
      /\ Cnt'[k]["ERB"] = 0 <=> \A c \in Under'[k] : c.op # "ERB"
  BY <1>5, KeysDiffer
<1>. QED
  BY <1>6 DEF NextWrites, Pgms, Erbs

LEMMA ReqAllocFrame ==
  ASSUME RestInv, AllocInv, HostInv',
         SameFor("Meta"), \A k \in CbKey : Keeps(k),
         UNCHANGED <<bst, pool, map, opn, mctx, mt, os, us, mv>>,
         \A o \in OpenType : SameErb(o),
         gcSt' = gcSt \/ gcSt' = "Stop"
  PROVE  AllocInv'
<1>1. ScanAddr' /\ RingAddr' /\ (InUse' => InUse)
  BY OthersAlloc, KeysDiffer
<1>2. GcOpen' => GcOpen /\ GcBlk' = GcBlk
  BY <1>1, GcOpenSame, GcOpenStops, TypesCorollary, KeysDiffer
<1>. QED
  BY <1>1, <1>2, AllocFrame

LEMMA QuietKeeps ==
  ASSUME IoTypes, UNCHANGED ioVars
  PROVE  \A k \in CbKey : SameFor(k) /\ Keeps(k)
<1>1. \A k \in CbKey : Under'[k] \subseteq Under[k]
  BY SameIo
<1>. QED
  BY <1>1, QuietFor, SubsetKeeps

LEMMA ErbSame ==
  ASSUME UNCHANGED erb
  PROVE  \A o \in OpenType : SameErb(o)
  BY DEF SameErb

\* What REQ works on after the start.
LEMMA ReqWorks ==
  ASSUME MapInv, RestInv, NEW r, NEW at, Handling(r, at)
  PROVE  ~Opening /\ IoTypes
  BY DEF MapInv, Handling, RestInv

LEMMA ReqReadAlloc ==
  ASSUME MapInv, RestInv, AllocInv, pwr, NEW r, NEW at, Handling(r, at),
         ReqReadMapped(r, at) \/ ReqReadUnmapped(r, at)
  PROVE  AllocInv'
<1>0. ~Opening /\ ~Opening' /\ IoTypes /\ HostInv /\ OpenType = OpenType
  BY ReqWorks DEF AllocInv, Opening, ReqReadMapped, ReqReadUnmapped, otherThanReq
<1>e. \A o \in OpenType : SameErb(o)
  BY ErbSame DEF ReqReadMapped, ReqReadUnmapped, otherThanReq, gcVars
<1>1. CASE ReqReadMapped(r, at)
  <2> DEFINE c == UserCmd(ReadCmd("User", META_GetMap(r.lpn).blk, META_GetMap(r.lpn).wl), r)
  <2>1. GoodCmd(c) /\ c.cb = "User" /\ c.op = "READ"
    BY <1>1, PlainCmds, WithReq, KeysDiffer DEF ReqReadMapped
  <2>2. Issue(<<c>>) /\ UNCHANGED <<die, done>> /\ Fetched /\ UNCHANGED <<rsp, pwr, pend>>
        /\ UNCHANGED <<bst, pool, map, opn, mctx, mt, os, us, mv, gcSt>>
    BY <1>1 DEF ReqReadMapped, hostVars, otherThanReq, mapVars, openVars, gcVars
  <2> HIDE DEF c
  <2>3. Turns(<<c>>, {}) /\ Elems(<<c>>) = {c}
    BY <1>0, <2>1, <2>2, IssueTurn, OneFacts
  <2>4. HostInv'
    BY <1>0, <2>1, <2>2, <2>3, HostIssues, KeysDiffer
  <2>5. SameFor("Meta") /\ \A k \in CbKey : Keeps(k)
    <3>1. \A k \in CbKey \ {"User"} : SameFor(k) /\ Keeps(k)
      BY <1>0, <2>1, <2>3, TurnRests
    <3>2. Keeps("User")
      BY <1>0, <2>1, <2>3, TurnWrites, KeysDiffer DEF Keeps
    <3>. QED
      BY <3>1, <3>2, KeysDiffer
  <2>. QED
    BY <1>e, <2>2, <2>4, <2>5, ReqAllocFrame
<1>2. CASE ReqReadUnmapped(r, at)
  <2>1. Respond(r, Erased) /\ Fetched /\ UNCHANGED ioVars
        /\ UNCHANGED <<bst, pool, map, opn, mctx, mt, os, us, mv, gcSt>>
    BY <1>2 DEF ReqReadUnmapped, otherThanReq, mapVars, openVars, gcVars
  <2>2. \A k \in CbKey : SameFor(k) /\ Keeps(k)
    BY <1>0, <2>1, QuietKeeps
  <2>3. HostInv'
    BY <1>0, <2>1, <2>2, HostAnswered, KeysDiffer
  <2>. QED
    BY <1>e, <2>1, <2>2, <2>3, ReqAllocFrame, KeysDiffer
<1>. QED
  BY <1>1, <1>2

\* A step of REQ that issues nothing and leaves the blocks alone.
LEMMA ReqStaysAlloc ==
  ASSUME MapInv, RestInv, AllocInv, pwr, NEW r, NEW at, Handling(r, at), r.cmd # "none",
         NEW s, Remains(r, s), UNCHANGED hostVars, UNCHANGED ioVars,
         UNCHANGED <<mapVars, mctx, mt, openVars, mv, pool, erb>>,
         gcSt' = gcSt \/ gcSt' = "Stop"
  PROVE  AllocInv'
<1>0. ~Opening' /\ IoTypes /\ HostInv
  BY ReqWorks DEF AllocInv, Opening
<1>1. \A k \in CbKey : SameFor(k) /\ Keeps(k)
  BY <1>0, QuietKeeps
<1>2. HostInv'
  BY <1>0, <1>1, HostRemains, KeysDiffer DEF hostVars
<1>3. \A o \in OpenType : SameErb(o)
  BY ErbSame
<1>. QED
  BY <1>1, <1>2, <1>3, ReqAllocFrame, KeysDiffer DEF mapVars, openVars

LEMMA ReqAnswersAlloc ==
  ASSUME MapInv, RestInv, AllocInv, pwr, NEW r, NEW at, Handling(r, at),
         Respond(r, Erased), Fetched, UNCHANGED ioVars,
         UNCHANGED <<mapVars, mctx, mt, openVars, mv, pool, erb>>,
         gcSt' = gcSt \/ gcSt' = "Stop"
  PROVE  AllocInv'
<1>0. ~Opening' /\ IoTypes /\ HostInv
  BY ReqWorks DEF AllocInv, Opening
<1>1. \A k \in CbKey : SameFor(k) /\ Keeps(k)
  BY <1>0, QuietKeeps
<1>2. HostInv'
  BY <1>0, <1>1, HostAnswered, KeysDiffer
<1>3. \A o \in OpenType : SameErb(o)
  BY ErbSame
<1>. QED
  BY <1>1, <1>2, <1>3, ReqAllocFrame, KeysDiffer DEF mapVars, openVars

LEMMA ShutdownAlloc ==
  ASSUME MapInv, RestInv, AllocInv, pwr, NEW r, NEW at, Handling(r, at),
         \/ ShutdownWaitIo(r, at) \/ ShutdownSudden(r, at) \/ ShutdownSave(r, at)
         \/ ShutdownSaving(r, at) \/ ShutdownSaved(r, at) \/ ReqJnlBusy(r, at)
  PROVE  AllocInv'
<1>0. r.cmd # "none"
  BY DEF ShutdownWaitIo, ShutdownSudden, ShutdownSave, ShutdownSaving, ShutdownSaved, ReqJnlBusy
<1>1. CASE ShutdownWaitIo(r, at)
  <2>1. gcSt' = gcSt \/ gcSt' = "Stop"
    BY <1>1 DEF ShutdownWaitIo, StopGc
  <2>. QED
    BY <1>0, <1>1, <2>1, ReqStaysAlloc DEF ShutdownWaitIo
<1>2. CASE ShutdownSudden(r, at)
  <2>1. gcSt' = gcSt \/ gcSt' = "Stop"
    BY <1>2 DEF ShutdownSudden, StopGc
  <2>. QED
    BY <1>0, <1>2, <2>1, ReqAnswersAlloc DEF ShutdownSudden
<1>3. CASE ShutdownSave(r, at)
  <2>1. gcSt' = gcSt \/ gcSt' = "Stop"
    BY <1>3 DEF ShutdownSave, StopGc
  <2>. QED
    BY <1>0, <1>3, <2>1, ReqStaysAlloc DEF ShutdownSave
<1>4. CASE ShutdownSaving(r, at)
  BY <1>0, <1>4, ReqStaysAlloc DEF ShutdownSaving, otherThanReq, gcVars
<1>5. CASE ShutdownSaved(r, at)
  BY <1>0, <1>5, ReqAnswersAlloc DEF ShutdownSaved, otherThanReq, gcVars
<1>6. CASE ReqJnlBusy(r, at)
  BY <1>0, <1>6, ReqStaysAlloc DEF ReqJnlBusy, otherThanReq, gcVars
<1>. QED
  BY <1>1, <1>2, <1>3, <1>4, <1>5, <1>6

-----------------------------------------------------------------------------
(* The erase of a block, for either stream.                                *)

LEMMA StreamsDiffer ==
  /\ OpenType = {"USER", "GC"}
  /\ \A o \in OpenType : ErbKey(o) \in CbKey /\ ErbKey(o) # "Meta" /\ ErbKey(o) # "User"
  /\ \A o, u \in OpenType : o # u => ErbKey(o) # ErbKey(u)
  BY KeysDiffer DEF OpenType, ErbKey

LEMMA TailAt ==
  ASSUME NEW s, IsSeq(s), s # <<>>
  PROVE  /\ 1 \in DOMAIN s /\ Head(s) = s[1]
         /\ \A i \in DOMAIN Tail(s) : i + 1 \in DOMAIN s /\ i + 1 # 1 /\ Tail(s)[i] = s[i + 1]
                                      /\ i \in Nat
<1>1. IsSeq(Tail(s)) /\ Len(Tail(s)) = Len(s) - 1
  BY TailFacts
<1>2. Len(s) \in Nat /\ DOMAIN s = 1 .. Len(s) /\ DOMAIN Tail(s) = 1 .. Len(Tail(s))
      /\ Len(Tail(s)) \in Nat
  BY <1>1, SeqFacts
<1>3. s \in Seq(Elems(s)) /\ Len(s) # 0
  BY DEF IsSeq
<1>4. DOMAIN Tail(s) = 1 .. Len(s) - 1
  BY <1>1, <1>2
<1>. QED
  BY <1>2, <1>3, <1>4

LEMMA PoolTail ==
  ASSUME PoolInv, IsSeq(pool), pool # <<>>, NEW o \in OpenType, erb[o].step = "Init",
         UNCHANGED <<bst, map>>, pool' = Tail(pool), gcSt' = "WaitOpen" => gcSt = "WaitOpen",
         erb'[o].blk = Head(pool), \A u \in OpenType \ {o} : erb'[u] = erb[u]
  PROVE  PoolInv'
<1>1. /\ 1 \in DOMAIN pool /\ Head(pool) = pool[1]
      /\ \A i \in DOMAIN pool' : i + 1 \in DOMAIN pool /\ i + 1 # 1 /\ pool'[i] = pool[i + 1]
                                 /\ i \in Nat
  BY TailAt
<1>2. gcSt' # "WaitOpen"
  BY DEF PoolInv
<1>3. /\ \A i, j \in DOMAIN pool' : i # j => pool'[i] # pool'[j]
      /\ \A i \in DOMAIN pool' : bst[pool'[i]] = "InFree" /\ pool'[i] # Head(pool)
  BY <1>1 DEF PoolInv
<1>4. bst[Head(pool)] = "InFree"
  BY <1>1 DEF PoolInv
<1>5. ASSUME NEW u \in OpenType, erb'[u].step # "Init"
      PROVE  bst[erb'[u].blk] = "InFree" /\ \A i \in DOMAIN pool' : pool'[i] # erb'[u].blk
  <2>1. CASE u = o
    BY <2>1, <1>3, <1>4
  <2>2. CASE u # o
    <3>1. erb'[u] = erb[u]
      BY <2>2
    <3>. QED
      BY <3>1, <1>1, <1>5 DEF PoolInv
  <2>. QED
    BY <2>1, <2>2
<1>6. \A u \in OpenType \ {o} : erb[u].step # "Init" => erb[u].blk # Head(pool)
  BY <1>1 DEF PoolInv
<1>7. erb'["USER"].step # "Init" /\ erb'["GC"].step # "Init" => erb'["USER"].blk # erb'["GC"].blk
  <2>1. CASE o = "USER"
    BY <2>1, <1>6, StreamsDiffer
  <2>2. CASE o = "GC"
    BY <2>2, <1>6, StreamsDiffer
  <2>. QED
    BY <2>1, <2>2, StreamsDiffer
<1>. QED
  BY <1>2, <1>3, <1>5, <1>7 DEF PoolInv

LEMMA ErbStartAlloc ==
  ASSUME RestInv, AllocInv, HostInv', NEW o \in OpenType, erb[o].step = "Init",
         pool # <<>>, pool' = Tail(pool), NEW trig, ErbStart(o, Head(pool), trig),
         UNCHANGED <<die, done, bst, map, opn, mctx, mt, os, us, mv>>,
         Erbs(ErbKey(o)) = {},
         gcSt' = gcSt \/ (gcSt = "GetDst" /\ gcSt' = "ErsDst")
  PROVE  AllocInv'
<1> DEFINE c == EraseCmd(ErbKey(o), Head(pool))
<1>1. /\ IoTypes /\ AddrInv
      /\ ErbKey(o) \in CbKey /\ ErbKey(o) # "Meta" /\ ErbKey(o) # "User"
      /\ \A u \in OpenType \ {o} : ErbKey(u) # ErbKey(o) /\ ErbKey(u) \in CbKey
  BY StreamsDiffer DEF RestInv
<1>2. GoodCmd(c) /\ c.cb = ErbKey(o) /\ c.op = "ERB" /\ c.blk = Head(pool)
  BY <1>1, PlainCmds DEF EraseCmd, Cmd
<1>3. Issue(<<c>>) /\ erb' = [erb EXCEPT ![o] = [step |-> "WaitErb", blk |-> Head(pool), age |-> 0]]
  BY DEF ErbStart
<1> HIDE DEF c
<1>4. Turns(<<c>>, {}) /\ Elems(<<c>>) = {c}
  BY <1>1, <1>2, <1>3, IssueTurn, OneFacts
<1>5. \A k \in CbKey \ {ErbKey(o)} : SameFor(k) /\ Keeps(k)
  BY <1>1, <1>2, <1>4, TurnRests
<1>6. Pgms(ErbKey(o))' \subseteq Pgms(ErbKey(o)) /\ Erbs(ErbKey(o))' \subseteq {c}
  BY <1>1, <1>2, <1>4, TurnWrites
<1>7. /\ erb'[o].step = "WaitErb" /\ erb'[o].blk = Head(pool)
      /\ \A u \in OpenType \ {o} : erb'[u] = erb[u]
  BY <1>1, <1>3 DEF AddrInv
<1>8. ScanAddr' /\ RingAddr' /\ (InUse' => InUse)
  BY <1>1, <1>5, OthersAlloc, KeysDiffer
<1>9. Pgms("User")' \subseteq Pgms("User") /\ Pgms("Mig")' \subseteq Pgms("Mig") /\ Erbs("User")' \subseteq Erbs("User")
  BY <1>1, <1>5, <1>6, KeysDiffer DEF Keeps
<1>10. PoolInv'
  BY <1>1, <1>7, PoolTail DEF AllocInv, AddrInv
<1>11. OpenInv'
  <2>1. UserOpen' => UserOpen
    BY <1>8, <1>9 DEF UserOpen
  <2>2. GcOpen' => GcOpen /\ GcBlk' = GcBlk
    BY <1>8, <1>9, TypesCorollary DEF GcOpen, GcBlk
  <2>. QED
    BY <2>1, <2>2, OpnFrame DEF AllocInv
<1>12. UserCmds'
  <2>1. \A u \in OpenType : \A d \in Erbs(ErbKey(u))' : erb'[u].step = "WaitErb" /\ d.blk = erb'[u].blk
    <3> SUFFICES ASSUME NEW u \in OpenType, NEW d \in Erbs(ErbKey(u))'
                 PROVE  erb'[u].step = "WaitErb" /\ d.blk = erb'[u].blk
      OBVIOUS
    <3>1. CASE u = o
      BY <3>1, <1>2, <1>6, <1>7
    <3>2. CASE u # o
      BY <3>2, <1>1, <1>5, <1>7 DEF AllocInv, UserCmds, Keeps
    <3>. QED
      BY <3>1, <3>2
  <2>. QED
    BY <2>1, <1>9 DEF AllocInv, UserCmds
<1>. QED
  BY <1>8, <1>10, <1>11, <1>12 DEF AllocInv

LEMMA ErbGoesAlloc ==
  ASSUME RestInv, NEW o \in OpenType, ErbGoesOn(o), Erasing(o),
         UNCHANGED <<opn, mctx, pool, waitAge>>
  PROVE  /\ \A u \in OpenType : SameErb(u)
         /\ \A k \in CbKey : Keeps(k)
         /\ \A k \in CbKey \ {ErbKey(o)} : SameFor(k)
<1>1. /\ IoTypes /\ AddrInv /\ ErbKey(o) \in CbKey
  BY StreamsDiffer DEF RestInv
<1>2. /\ IoTypes' /\ Erasing(o)'
      /\ \A j \in CbKey \ {ErbKey(o)} : SameFor(j)
      /\ \A u \in OpenType \ {o} : erb'[u] = erb[u]
      /\ erb'[o].step # "Init" /\ erb[o].step # "Init"
  BY <1>1, ErbKeeps
<1>3. \A k \in CbKey : Keeps(k)
  <2>1. CASE ErbErased(o)
    <3>1. Turns(<<>>, {ErbKey(o)})
      BY <1>1, <2>1, PopTurn DEF ErbErased
    <3>. QED
      BY <1>1, <3>1, TurnTakes
  <2>2. CASE ErbRetry(o) \/ ErbWait(o)
    BY <1>1, <2>2, QuietKeeps DEF ErbRetry, ErbWait
  <2>. QED
    BY <2>1, <2>2 DEF ErbGoesOn
<1>4. SameErb(o)
  <2>1. CASE ErbWait(o)
    BY <2>1 DEF ErbWait, SameErb
  <2>2. CASE ErbErased(o) \/ ErbRetry(o)
    <3>1. PICK trig : ErbJournal(o, trig)
      BY <2>2 DEF ErbErased, ErbRetry
    <3>2. /\ erb'[o].blk = erb[o].blk /\ erb'[o].step # "WaitErb"
      BY <1>1, <3>1 DEF ErbJournal, AddrInv, IsErb
    <3>3. Cnt'[ErbKey(o)]["ERB"] = 0
      BY <1>2, <3>2 DEF Erasing, Cnts
    <3>4. Erbs(ErbKey(o))' = {}
      BY <1>1, <1>2, <3>3, NoPgmsNext DEF NextWrites
    <3>. QED
      BY <1>2, <3>2, <3>4 DEF SameErb
  <2>. QED
    BY <2>1, <2>2 DEF ErbGoesOn
<1>. QED
  BY <1>2, <1>3, <1>4 DEF SameErb

LEMMA ReqNeedsBlkAlloc ==
  ASSUME MapInv, RestInv, AllocInv, pwr, NEW r, NEW at, Handling(r, at), ReqNeedsBlk(r, at)
  PROVE  AllocInv'
<1>0. ~Opening' /\ IoTypes /\ AddrInv /\ HostInv /\ "USER" \in OpenType /\ r.cmd # "none"
  BY ReqWorks DEF AllocInv, Opening, ReqNeedsBlk, RestInv, OpenType
<1>1. erb["USER"].step = "Init"
  BY ErbRests DEF ReqNeedsBlk, RestInv
<1>2. CASE ReqMayTake
  <2>1. pool # <<>> /\ pool' = Tail(pool) /\ ErbStart("USER", Head(pool), BlkReqEvt)
    BY <1>0, <1>2 DEF ReqNeedsBlk, ReqMayTake, AddrInv, IsSeq
  <2>2. Erbs(ErbKey("USER")) = {}
    BY <1>1, TypesCorollary DEF ErbKey
  <2>3. SameFor("User")
    <3> DEFINE c == EraseCmd("UErs", Head(pool))
    <3>1. GoodCmd(c) /\ c.cb = "UErs"
      BY PlainCmds, KeysDiffer
    <3>2. Issue(<<c>>) /\ UNCHANGED <<die, done>>
      BY <2>1 DEF ErbStart, ErbKey, ReqNeedsBlk
    <3> HIDE DEF c
    <3>. QED
      BY <1>0, <3>1, <3>2, IssueFor, KeysDiffer
  <2>4. HostInv'
    BY <1>0, <1>2, <2>3, HostRemains DEF ReqNeedsBlk, hostVars
  <2>5. UNCHANGED <<die, done, bst, map, opn, mctx, mt, os, us, mv, gcSt>>
    BY DEF ReqNeedsBlk, mapVars, openVars
  <2>. QED
    BY <1>0, <1>1, <2>1, <2>2, <2>4, <2>5, ErbStartAlloc
<1>3. CASE ~ReqMayTake
  <2>1. UNCHANGED ioVars /\ UNCHANGED <<pool, erb>> /\ Remains(r, "Run")
    BY <1>3 DEF ReqNeedsBlk, ioVars
  <2>. QED
    BY <1>0, <2>1, ReqStaysAlloc DEF ReqNeedsBlk
<1>. QED
  BY <1>2, <1>3

LEMMA ReqErasingAlloc ==
  ASSUME MapInv, RestInv, AllocInv, pwr, NEW r, NEW at, Handling(r, at), ReqErasing(r, at)
  PROVE  AllocInv'
<1>0. ~Opening' /\ IoTypes /\ HostInv /\ "USER" \in OpenType /\ r.cmd # "none"
  BY ReqWorks DEF AllocInv, Opening, ReqErasing, OpenType
<1>1. Erasing("USER")
  BY DEF RestInv, ErbInv, Erasing, ErbKey
<1>2. /\ \A u \in OpenType : SameErb(u)
      /\ \A k \in CbKey : Keeps(k)
      /\ \A k \in CbKey \ {"UErs"} : SameFor(k)
  BY <1>0, <1>1, ErbGoesAlloc DEF ReqErasing, ErbKey, mapVars
<1>3. HostInv'
  BY <1>0, <1>2, HostRemains, KeysDiffer DEF ReqErasing, hostVars
<1>. QED
  BY <1>0, <1>2, <1>3, ReqAllocFrame, KeysDiffer DEF ReqErasing, mapVars, openVars

\* The block of the erase that is over is opened.
LEMMA OpenedPool ==
  ASSUME PoolInv, AddrInv, NEW o \in OpenType, ErbOver(o), META_SetOpen(o, erb[o].blk),
         UNCHANGED <<map, pool>>, gcSt' = gcSt \/ gcSt' = "Move"
  PROVE  /\ PoolInv' /\ erb[o].blk \in UBlk /\ bst[erb[o].blk] = "InFree"
         /\ bst'[erb[o].blk] = "Open" /\ \A b \in UBlk : bst[b] # "InFree" => bst'[b] = bst[b]
         /\ erb'[o].step = "Init" /\ \A u \in OpenType \ {o} : erb'[u] = erb[u]
         /\ opn'[o] = VAddr(erb[o].blk, 0) /\ \A u \in OpenType \ {o} : opn'[u] = opn[u]
<1>1. PICK b : b = erb[o].blk
  OBVIOUS
<1>2. erb[o].step # "Init" /\ b \in UBlk /\ bst[b] = "InFree"
      /\ \A i \in DOMAIN pool : pool[i] # b
  BY <1>1 DEF ErbOver, AddrInv, PoolInv
<1>3. /\ erb' = [erb EXCEPT ![o] = ErbIdle] /\ bst' = [bst EXCEPT ![b] = "Open"]
      /\ opn' = [opn EXCEPT ![o] = VAddr(b, 0)]
  BY <1>1 DEF ErbOver, META_SetOpen
<1>4. erb'[o].step = "Init" /\ \A u \in OpenType \ {o} : erb'[u] = erb[u]
  BY <1>3 DEF AddrInv, ErbIdle
<1>5. /\ bst' = [c \in UBlk |-> bst'[c]] /\ bst'[b] = "Open"
      /\ \A c \in UBlk : c # b => bst'[c] = bst[c]
      /\ \A c : c # b => bst'[c] = bst[c]
  BY <1>2, <1>3 DEF PoolInv
<1>6. gcSt' # "WaitOpen"
  BY <1>2 DEF PoolInv
<1>7. opn'[o] = VAddr(b, 0) /\ \A u \in OpenType \ {o} : opn'[u] = opn[u]
  BY <1>3 DEF AddrInv
<1>8. \A u \in OpenType \ {o} : erb[u].step # "Init" => erb[u].blk # b
  BY <1>1, <1>2, StreamsDiffer DEF PoolInv
<1>9. PoolInv'
  <2>1. \A i \in DOMAIN pool : bst'[pool[i]] = "InFree"
    BY <1>2, <1>5 DEF PoolInv
  <2>2. ASSUME NEW u \in OpenType, erb'[u].step # "Init"
        PROVE  bst'[erb'[u].blk] = "InFree" /\ \A i \in DOMAIN pool : pool[i] # erb'[u].blk
    <3>1. u # o /\ erb'[u] = erb[u]
      BY <1>4, <2>2
    <3>2. bst[erb[u].blk] = "InFree" /\ \A i \in DOMAIN pool : pool[i] # erb[u].blk
      BY <2>2, <3>1 DEF PoolInv
    <3>3. erb[u].blk # b
      BY <1>8, <2>2, <3>1
    <3>. QED
      BY <1>5, <3>1, <3>2, <3>3
  <2>3. ~(erb'["USER"].step # "Init" /\ erb'["GC"].step # "Init")
    BY <1>4, StreamsDiffer
  <2>4. \A c \in UBlk : bst'[c] = "InFree" => \A l \in LPN : map[l].blk # c
    BY <1>5 DEF PoolInv
  <2>. QED
    BY <1>5, <1>6, <2>1, <2>2, <2>3, <2>4 DEF PoolInv
<1>. QED
  BY <1>1, <1>2, <1>4, <1>5, <1>7, <1>9

LEMMA NoneOfUser ==
  ASSUME HostInv, IoTypes, NEW r, NEW at, Handling(r, at)
  PROVE  Under["User"] = {} /\ Pgms("User") = {}
<1>1. Under["User"] = {}
  BY HandledIs, UserCntFacts
<1>. QED
  BY <1>1 DEF Pgms

LEMMA NotOpening ==
  ASSUME RestInv, ~Opening
  PROVE  Loaded /\ mt # "Open"
  BY DEF RestInv, MetaInv, SaveInv, Opening, Loaded

\* REQ and GC do not touch what META reads, once it is done with its start.
LEMMA NotOpeningAddr ==
  ASSUME AllocInv, ~Opening, UNCHANGED <<mt, mctx>>, Keeps("Meta")
  PROVE  ScanAddr' /\ RingAddr'
<1>1. RingAddr'
  BY DEF AllocInv, RingAddr, Opening, Phase, Keeps
<1>. QED
  BY <1>1 DEF ScanAddr, Opening, Phase

LEMMA ReqNewBlkAlloc ==
  ASSUME MapInv, RestInv, AllocInv, pwr, NEW r, NEW at, Handling(r, at), ReqNewBlk(r, at)
  PROVE  AllocInv'
<1>0. ~Opening /\ ~Opening' /\ IoTypes /\ AddrInv /\ HostInv /\ "USER" \in OpenType /\ "GC" \in OpenType
      /\ r.cmd # "none"
  BY ReqWorks DEF AllocInv, Opening, ReqNewBlk, RestInv, OpenType
<1>1. \A k \in CbKey : SameFor(k) /\ Keeps(k)
  BY <1>0, QuietKeeps DEF ReqNewBlk
<1>2. HostInv'
  BY <1>0, <1>1, HostRemains, KeysDiffer DEF ReqNewBlk, hostVars
<1>3. ScanAddr' /\ RingAddr'
  BY <1>0, <1>1, NotOpeningAddr, KeysDiffer DEF ReqNewBlk
<1>4. /\ PoolInv' /\ erb["USER"].blk \in UBlk /\ bst[erb["USER"].blk] = "InFree"
      /\ bst'[erb["USER"].blk] = "Open" /\ \A b \in UBlk : bst[b] # "InFree" => bst'[b] = bst[b]
      /\ erb'["USER"].step = "Init" /\ \A u \in OpenType \ {"USER"} : erb'[u] = erb[u]
      /\ opn'["USER"] = VAddr(erb["USER"].blk, 0) /\ \A u \in OpenType \ {"USER"} : opn'[u] = opn[u]
  BY <1>0, OpenedPool DEF ReqNewBlk, AllocInv
<1>5. opn'["USER"].blk = erb["USER"].blk /\ opn'["GC"] = opn["GC"] /\ erb'["GC"] = erb["GC"]
  BY <1>4, StreamsDiffer DEF VAddr
<1>6. Pgms("User")' = {} /\ Keeps("Mig") /\ Keeps("UErs") /\ Keeps("User")
  BY <1>0, <1>1, NoneOfUser, KeysDiffer DEF Keeps
<1>7. GcOpen' => GcOpen /\ GcBlk' = GcBlk
  BY <1>5, <1>6, <1>0, NotOpening DEF GcOpen, GcBlk, InUse, ReqNewBlk, Keeps
<1>8. OpenInv'
  <2>1. GcOpen' => GcBlk' \in UBlk /\ bst'[GcBlk'] = "Open" /\ GcBlk' # erb["USER"].blk
    BY <1>4, <1>7 DEF AllocInv, OpenInv
  <2>2. gcSt' = "Move" /\ mv'.src # NoBlk => mv'.src \in UBlk /\ bst'[mv'.src] = "Victim"
    BY <1>4 DEF AllocInv, OpenInv, ReqNewBlk
  <2>. QED
    BY <1>4, <1>5, <2>1, <2>2 DEF OpenInv
<1>9. UserCmds'
  <2>1. Erbs("UErs") = {} /\ Erbs("UErs")' = {}
    BY <1>6, TypesCorollary DEF ReqNewBlk, ErbOver, Keeps
  <2>2. \A u \in OpenType : \A d \in Erbs(ErbKey(u))' : erb'[u].step = "WaitErb" /\ d.blk = erb'[u].blk
    BY <1>5, <1>6, <2>1, StreamsDiffer DEF AllocInv, UserCmds, Keeps, ErbKey
  <2>. QED
    BY <1>6, <2>2 DEF AllocInv, UserCmds, Keeps, ReqNewBlk
<1>. QED
  BY <1>2, <1>3, <1>4, <1>8, <1>9 DEF AllocInv

LEMMA ReqProgramAlloc ==
  ASSUME MapInv, RestInv, AllocInv, pwr, NEW r, NEW at, Handling(r, at), ReqProgram(r, at)
  PROVE  AllocInv'
<1> DEFINE c == UserCmd(PgmCmd("User", opn["USER"].blk, opn["USER"].wl, DataPage(r.lpn, r.ver)), r)
<1>0. ~Opening /\ ~Opening' /\ IoTypes /\ AddrInv /\ HostInv /\ "USER" \in OpenType /\ "GC" \in OpenType
      /\ r.cmd = "write" /\ r.lpn \in LPN
  BY ReqWorks, HandledIs DEF AllocInv, Opening, ReqProgram, RestInv, OpenType, WellAsked
<1>1. opn["USER"].wl \in Nat /\ opn["USER"].wl < NUM_WL /\ UserOpen
      /\ opn["USER"] = VAddr(opn["USER"].blk, opn["USER"].wl)
  BY <1>0, NotOpening, SizeAssumption DEF ReqProgram, UserBlkFull, AddrInv, IsNext, UserOpen, InUse
<1>2. opn["USER"].blk \in UBlk /\ bst[opn["USER"].blk] = "Open"
  BY <1>1 DEF AllocInv, OpenInv
<1>3. GoodCmd(c) /\ c.cb = "User" /\ c.op = "PGM" /\ c.blk = opn["USER"].blk /\ c.wl = opn["USER"].wl
  <2>1. PICK d : d = PgmCmd("User", opn["USER"].blk, opn["USER"].wl, DataPage(r.lpn, r.ver))
    OBVIOUS
  <2>2. GoodCmd(d) /\ d.cb = "User" /\ d.op = "PGM"
    BY <2>1, <1>2, UserPgm, KeysDiffer
  <2>3. d.blk = opn["USER"].blk /\ d.wl = opn["USER"].wl
    BY <2>1 DEF PgmCmd, Cmd
  <2>4. c = UserCmd(d, r)
    BY <2>1
  <2>5. GoodCmd(UserCmd(d, r)) /\ UserCmd(d, r).cb = d.cb /\ UserCmd(d, r).op = d.op
    BY <1>0, <2>2, WithReq
  <2>6. UserCmd(d, r).blk = d.blk /\ UserCmd(d, r).wl = d.wl
    BY <2>2 DEF UserCmd, GoodCmd
  <2>. QED
    BY <2>2, <2>3, <2>4, <2>5, <2>6
<1>4. Issue(<<c>>) /\ UNCHANGED <<die, done>> /\ Fetched /\ UNCHANGED <<rsp, pwr, pend>>
  BY DEF ReqProgram, hostVars
<1>m. map' = [map EXCEPT ![r.lpn] = opn["USER"]]
  BY <1>0 DEF ReqProgram, MetaUpdate
<1>u. UNCHANGED <<bst, mctx, mt, os, us, gcSt, mv, pool, erb>>
      /\ opn' = [opn EXCEPT !["USER"].wl = @ + 1]
  BY DEF ReqProgram, openVars, gcVars
<1> HIDE DEF c
<1>5. Turns(<<c>>, {}) /\ Elems(<<c>>) = {c}
  BY <1>0, <1>3, <1>4, IssueTurn, OneFacts
<1>6. HostInv'
  BY <1>0, <1>3, <1>4, <1>5, HostIssues, KeysDiffer
<1>7. \A k \in CbKey \ {"User"} : SameFor(k) /\ Keeps(k)
  BY <1>0, <1>3, <1>5, TurnRests
<1>8. ScanAddr' /\ RingAddr'
  BY <1>0, <1>7, <1>u, NotOpeningAddr, KeysDiffer
<1>9. Pgms("User")' \subseteq {c} /\ Erbs("User")' = {} /\ Keeps("Mig") /\ Keeps("UErs")
  <2>1. Pgms("User") = {} /\ Erbs("User") = {}
    BY <1>0, NoneOfUser DEF Erbs
  <2>2. /\ Pgms("User")' \subseteq Pgms("User") \cup {d \in Elems(<<c>>) : d.cb = "User" /\ d.op = "PGM"}
        /\ Erbs("User")' \subseteq Erbs("User") \cup {d \in Elems(<<c>>) : d.cb = "User" /\ d.op = "ERB"}
    BY <1>0, <1>5, TurnWrites, KeysDiffer
  <2>. QED
    BY <2>1, <2>2, <1>3, <1>5, <1>7, KeysDiffer
<1>10. opn'["GC"] = opn["GC"] /\ opn'["USER"].blk = opn["USER"].blk /\ opn'["USER"].wl = opn["USER"].wl + 1
  <2>1. PICK a : a = opn["USER"]
    OBVIOUS
  <2>2. a = VAddr(a.blk, a.wl)
    BY <2>1, <1>1
  <2>3. opn' = [opn EXCEPT !["USER"] = [a EXCEPT !.wl = @ + 1]]
    BY <1>u, <2>1
  <2>4. [a EXCEPT !.wl = @ + 1].blk = a.blk /\ [a EXCEPT !.wl = @ + 1].wl = a.wl + 1
    BY <2>2 DEF VAddr
  <2>. QED
    BY <2>1, <2>3, <2>4, <1>0, StreamsDiffer DEF AddrInv
<1>11. PoolInv'
  <2>1. \A b \in UBlk : bst[b] = "InFree" => \A l \in LPN : map'[l].blk # b
    BY <1>0, <1>2, <1>m DEF AllocInv, PoolInv, MapInv
  <2>. QED
    BY <2>1, <1>u DEF AllocInv, PoolInv
<1>12. OpenInv'
  <2>1. GcOpen' => GcOpen /\ GcBlk' = GcBlk
    BY <1>9, <1>10, <1>u, <1>0, NotOpening DEF GcOpen, GcBlk, InUse, Keeps
  <2>. QED
    BY <2>1, <1>1, <1>2, <1>10, <1>u DEF AllocInv, OpenInv
<1>13. UserCmds'
  <2>1. \A u \in OpenType : \A d \in Erbs(ErbKey(u))' : erb'[u].step = "WaitErb" /\ d.blk = erb'[u].blk
    BY <1>9, <1>u, StreamsDiffer DEF AllocInv, UserCmds, Keeps, ErbKey
  <2>. QED
    BY <1>1, <1>3, <1>9, <1>10, <1>u, <2>1 DEF AllocInv, UserCmds, Keeps
<1>. QED
  BY <1>6, <1>8, <1>11, <1>12, <1>13 DEF AllocInv

\* Once the request is answered, none of the user's commands is under way.
LEMMA AnsweredNone ==
  ASSUME HostInv', IoTypes', pend' = NoReq
  PROVE  Pgms("User")' = {}
<1>1. Len(reqQ') + (IF reqSt' = "Run" THEN 1 ELSE 0) + UserCnt' = 0
  BY DEF HostInv, OneRequest
<1>2. Len(reqQ') \in Nat
  BY SeqFacts DEF HostInv
<1>3. Cnt'["User"]["READ"] \in Nat /\ Cnt'["User"]["PGM"] \in Nat /\ Cnt'["User"]["ERB"] \in Nat
  BY CntIsPrimed, KeysDiffer
<1>4. Cnt'["User"]["PGM"] = 0
  <2> DEFINE r == Cnt'["User"]["READ"]
             p == Cnt'["User"]["PGM"]
             e == Cnt'["User"]["ERB"]
             n == Len(reqQ')
  <2>1. UserCnt' = r + p + e /\ r \in Nat /\ p \in Nat /\ e \in Nat /\ n \in Nat
    BY <1>2, <1>3 DEF UserCnt
  <2>2. n + (IF reqSt' = "Run" THEN 1 ELSE 0) + UserCnt' = 0
    BY <1>1
  <2> HIDE DEF r, p, e, n
  <2>3. p = 0
    BY <2>1, <2>2
  <2>. QED
    BY <2>3 DEF p
<1>. QED
  BY <1>4, NoPgmsNext, KeysDiffer DEF NextWrites

LEMMA RespAlloc ==
  ASSUME MapInv, RestInv, AllocInv, pwr, ReqResp_Run
  PROVE  AllocInv'
<1>0. IoTypes /\ HostInv /\ AddrInv
  BY DEF AllocInv, RestInv
<1>1. CASE RespWait
  <2>1. UNCHANGED ioVars /\ UNCHANGED <<mapVars, mctx, mt, openVars, gcVars, reqVars, hostVars>>
    BY <1>1 DEF RespWait, otherThanReq
  <2>2. \A k \in CbKey : SameFor(k) /\ Keeps(k)
    BY <1>0, <2>1, QuietKeeps
  <2>3. Under'["User"] \subseteq Under["User"]
    BY <1>0, <2>1, SameIo
  <2>4. HostInv'
    BY <1>0, <2>1, <2>2, <2>3, HostFrame, KeysDiffer DEF reqVars, hostVars, Opening
  <2>5. \A o \in OpenType : SameErb(o)
    BY <2>1, ErbSame DEF gcVars
  <2>. QED
    BY <2>1, <2>2, <2>4, <2>5, ReqAllocFrame, KeysDiffer DEF mapVars, openVars, gcVars
<1>2. CASE RespDone
  <2> DEFINE c == DoneHead("User")
  <2>1. HasDone("User") /\ PopDone("User") /\ UNCHANGED <<die, nq>>
        /\ UNCHANGED <<map, vpc, opn, mctx, mt, os, us, gcSt, mv, pool, erb, reqQ, reqSt, req>>
    BY <1>2 DEF RespDone, openVars, gcVars, reqVars
  <2>2. \E pg : Respond(c.req, pg)
    BY <1>2 DEF RespDone
  <2>3. bst' = IF c.op = "PGM" /\ c.wl = NUM_WL - 1 THEN [bst EXCEPT ![c.blk] = "Closed"] ELSE bst
    BY <1>2 DEF RespDone
  <2>4. Turns(<<>>, {"User"})
    BY <1>0, <2>1, PopTurn, KeysDiffer
  <2>5. /\ c \in Under["User"] /\ GoodCmd(c)
    BY <1>0, <2>1, HeadUnder, KeysDiffer
  <2> HIDE DEF c
  <2>6. ~Opening /\ mt' = mt
    BY <2>1, <2>5 DEF HostInv, AllocInv
  <2>7. HostInv'
    BY <1>0, <2>1, <2>2, <2>4, <2>6, HostCollects DEF c
  <2>8. IoTypes' /\ \A k \in CbKey : Keeps(k)
    BY <1>0, <2>4, StepFacts, TurnTakes
  <2>9. Pgms("User")' = {}
    <3>1. pend' = NoReq
      BY <2>2 DEF Respond
    <3>. QED
      BY <2>7, <2>8, <3>1, AnsweredNone
  <2>10. ScanAddr' /\ RingAddr'
    BY <2>1, <2>6, <2>8, NotOpeningAddr, KeysDiffer
  <2>11. /\ UserCmds' /\ InUse' = InUse
    <3>1. UserCmds'
      BY <2>1, <2>8, <2>9, StreamsDiffer, KeysDiffer DEF AllocInv, UserCmds, Keeps
    <3>2. InUse' = InUse
      BY <2>1 DEF InUse, Loaded, Scanning, Phase
    <3>. QED
      BY <3>1, <3>2
  <2>12. GcOpen' => GcOpen /\ GcBlk' = GcBlk
    BY <2>1, <2>8, <2>11, KeysDiffer DEF GcOpen, GcBlk, Keeps
  <2>13. UserOpen' => UserOpen
    BY <2>1, <2>9, <2>11 DEF UserOpen
  <2>14. CASE c.op = "PGM" /\ c.wl = NUM_WL - 1
    <3>1. c \in Pgms("User")
      BY <2>5, <2>14 DEF Pgms
    <3>2. c.blk = opn["USER"].blk /\ c.wl + 1 = opn["USER"].wl /\ UserOpen
      BY <3>1 DEF AllocInv, UserCmds, UserOpen
    <3>3. opn["USER"].wl = NUM_WL
      BY <2>14, <3>2, SizeAssumption
    <3>4. ~UserOpen'
      BY <2>1, <2>9, <3>3, SizeAssumption DEF UserOpen
    <3>5. bst[c.blk] = "Open" /\ c.blk \in UBlk /\ bst' = [bst EXCEPT ![c.blk] = "Closed"]
      BY <2>3, <2>14, <3>2 DEF AllocInv, OpenInv
    <3>6. bst' = [b \in UBlk |-> bst'[b]] /\ \A b : b # c.blk => bst'[b] = bst[b]
      BY <3>5 DEF AllocInv, PoolInv
    <3>7. bst'[c.blk] = "Closed"
      BY <3>5 DEF AllocInv, PoolInv
    <3>8. PoolInv'
      <4>1. \A b : bst[b] = "InFree" => bst'[b] = "InFree"
        BY <3>5, <3>6
      <4>2. \A b : bst'[b] = "InFree" => bst[b] = "InFree"
        BY <3>6, <3>7
      <4>. QED
        BY <4>1, <4>2, <3>6, <2>1 DEF AllocInv, PoolInv
    <3>9. OpenInv'
      <4>1. GcOpen' => GcBlk' \in UBlk /\ bst'[GcBlk'] = "Open"
        BY <2>12, <3>2, <3>6 DEF AllocInv, OpenInv
      <4>2. gcSt' = "Move" /\ mv'.src # NoBlk => mv'.src \in UBlk /\ bst'[mv'.src] = "Victim"
        BY <2>1, <3>5, <3>6 DEF AllocInv, OpenInv
      <4>. QED
        BY <3>4, <4>1, <4>2 DEF OpenInv
    <3>. QED
      BY <2>7, <2>10, <2>11, <3>8, <3>9 DEF AllocInv
  <2>15. CASE ~(c.op = "PGM" /\ c.wl = NUM_WL - 1)
    <3>1. bst' = bst
      BY <2>3, <2>15
    <3>2. PoolInv'
      BY <2>1, <3>1 DEF AllocInv, PoolInv
    <3>3. OpenInv'
      BY <2>1, <2>12, <2>13, <3>1, OpnFrame DEF AllocInv
    <3>. QED
      BY <2>7, <2>10, <2>11, <3>2, <3>3 DEF AllocInv
  <2>. QED
    BY <2>14, <2>15
<1>. QED
  BY <1>1, <1>2 DEF ReqResp_Run

LEMMA ReqAlloc ==
  ASSUME MapInv, RestInv, AllocInv, pwr, Req_Run
  PROVE  AllocInv'
<1>0. IoTypes /\ HostInv /\ AddrInv
  BY DEF AllocInv, RestInv
<1>1. CASE ReqWaitOpen \/ ReqOpened \/ ReqIdle
  <2>1. UNCHANGED ioVars /\ UNCHANGED <<mapVars, mctx, mt, openVars, gcVars, hostVars, req, reqQ>>
        /\ (reqSt' = "Run" <=> reqSt = "Run")
    BY <1>1 DEF ReqWaitOpen, ReqOpened, ReqIdle, otherThanReq, reqVars
  <2>2. \A k \in CbKey : SameFor(k) /\ Keeps(k)
    BY <1>0, <2>1, QuietKeeps
  <2>3. Under'["User"] \subseteq Under["User"] /\ UserCnt' = UserCnt
    BY <1>0, <2>1, <2>2, SameIo, UserCntSame, KeysDiffer
  <2>4. HostInv'
    <3>1. OneRequest'
      BY <1>0, <2>1, <2>3 DEF HostInv, OneRequest, hostVars
    <3>. QED
      BY <1>0, <2>1, <2>3, <3>1 DEF HostInv, WellAsked, hostVars, Opening
  <2>5. \A o \in OpenType : SameErb(o)
    BY <2>1, ErbSame DEF gcVars
  <2>. QED
    BY <2>1, <2>2, <2>4, <2>5, ReqAllocFrame, KeysDiffer DEF mapVars, openVars, gcVars
<1>2. ASSUME NEW r, NEW at, Handling(r, at), ReqStep(r, at)
      PROVE  AllocInv'
  BY <1>2, ReqReadAlloc, ReqNeedsBlkAlloc, ReqErasingAlloc, ReqNewBlkAlloc, ReqProgramAlloc,
     ShutdownAlloc DEF ReqStep
<1>. QED
  BY <1>1, <1>2 DEF Req_Run

-----------------------------------------------------------------------------
(* The steps of GC.                                                        *)

LEMMA NoneCounted ==
  ASSUME NEW m, NEW b, CountValid(m, b) = 0
  PROVE  \A l \in LPN : m[l].blk # b
<1> DEFINE S == {l \in LPN : m[l].blk = b}
<1>1. IsFiniteSet(S)
  BY CountType
<1>2. Cardinality(S) = 0
  BY DEF CountValid
<1>3. S = {}
  <2> HIDE DEF S
  <2>. QED
    BY <1>1, <1>2, FS_EmptySet
<1>. QED
  BY <1>3

\* gc_ScanFree takes blocks that no logical page is mapped to.
LEMMA ScanFreePool ==
  ASSUME PoolInv, AddrInv, Counted, NEW bs, ScanFree(bs),
         \A b \in UBlk : bs[b] = bst[b] \/ (bst[b] = "Victim" /\ bs[b] = "Closed"),
         UNCHANGED <<map, erb>>, gcSt' # "WaitOpen"
  PROVE  /\ PoolInv' /\ \A b \in UBlk : bs[b] # "Closed" => bst'[b] = bs[b]
         /\ \A b \in UBlk : bst'[b] = bs[b] \/ (bst'[b] = "InFree" /\ InPool(b)')
         /\ \A b \in UBlk : InPool(b) => InPool(b)'
<1> DEFINE n == Lesser(SIZE_FREE_POOL - Len(pool), Cardinality(FreeBlks(bs)))
<1>1. PICK s \in [1 .. n -> FreeBlks(bs)] :
         /\ pool' = pool \o s
         /\ \A i, j \in 1 .. n : i < j => s[i] < s[j]
         /\ bst' = [b \in UBlk |-> IF \E i \in DOMAIN s : s[i] = b THEN "InFree" ELSE bs[b]]
  BY DEF ScanFree, Taken
<1>2. n \in Int
  <2>1. IsFiniteSet(UBlk)
    <3>1. 0 \in Int /\ NUM_USER_BLK - 1 \in Int
      BY SizeAssumption
    <3>. QED
      BY <3>1, FS_Interval DEF UBlk
  <2>2. Cardinality(FreeBlks(bs)) \in Nat
    BY <2>1, FS_Subset, FS_CardinalityType DEF FreeBlks
  <2>3. Len(pool) \in Nat
    BY SeqFacts DEF AddrInv
  <2>. QED
    BY <2>2, <2>3, GcAssumption DEF Lesser
<1> HIDE DEF n
<1>3. PICK m \in Nat : 1 .. n = 1 .. m
  <2>1. CASE n \in Nat
    BY <2>1
  <2>2. CASE n \notin Nat
    <3>1. 1 .. n = 1 .. 0
      BY <1>2, <2>2
    <3>. QED
      BY <3>1
  <2>. QED
    BY <2>1, <2>2
<1>4. /\ s \in Seq(FreeBlks(bs)) /\ DOMAIN s = 1 .. m /\ Len(s) = m
      /\ \A i \in 1 .. m : s[i] \in FreeBlks(bs)
      /\ \A i, j \in 1 .. m : i < j => s[i] < s[j]
  <2>1. s \in [1 .. m -> FreeBlks(bs)]
    BY <1>3
  <2>2. s \in Seq(FreeBlks(bs)) /\ DOMAIN s = 1 .. m /\ Len(s) = m
    BY <2>1
  <2>3. \A i, j \in 1 .. m : i < j => s[i] < s[j]
    BY <1>1, <1>3
  <2>. QED
    BY <2>1, <2>2, <2>3
<1>5. \A i \in 1 .. m : s[i] \in UBlk /\ s[i] \in Int /\ bs[s[i]] = "Closed" /\ vpc[s[i]] = 0
  BY <1>4, SizeAssumption DEF FreeBlks, UBlk
<1>6. \A i, j \in 1 .. m : i # j => s[i] # s[j]
  BY <1>4, <1>5
<1>7. IsSeq(pool) /\ Len(pool) \in Nat /\ DOMAIN pool = 1 .. Len(pool)
      /\ \A i \in DOMAIN pool : pool[i] \in UBlk
  BY SeqFacts DEF AddrInv, Elems
<1>8. /\ IsSeq(pool') /\ Len(pool') = Len(pool) + m /\ DOMAIN pool' = 1 .. Len(pool) + m
      /\ \A i \in 1 .. Len(pool) : pool'[i] = pool[i]
      /\ \A i \in Len(pool) + 1 .. Len(pool) + m : pool'[i] = s[i - Len(pool)] /\ i - Len(pool) \in 1 .. m
  <2>1. IsSeq(s)
    BY <1>4, SeqOfAny
  <2>2. IsSeq(pool') /\ Len(pool') = Len(pool) + m
    BY <1>1, <1>4, <1>7, <2>1, ConcatFacts
  <2>3. DOMAIN pool' = 1 .. Len(pool) + m
    BY <2>2, SeqFacts
  <2>4. /\ \A i \in 1 .. Len(pool) : (pool \o s)[i] = pool[i]
        /\ \A i \in Len(pool) + 1 .. Len(pool) + m : (pool \o s)[i] = s[i - Len(pool)] /\ i - Len(pool) \in 1 .. m
    BY <1>3, <1>4, <1>7, <2>1 DEF IsSeq
  <2>. QED
    BY <1>1, <2>2, <2>3, <2>4
<1>9. ASSUME NEW b \in UBlk, bst[b] = "InFree"
      PROVE  bst'[b] = "InFree" /\ \A i \in 1 .. m : s[i] # b
  <2>1. bs[b] = "InFree"
    BY <1>9
  <2>. QED
    BY <1>1, <1>5, <2>1
<1>10. \A i \in 1 .. Len(pool) : bst[pool[i]] = "InFree"
  BY <1>7 DEF PoolInv
<1>11. \A i \in DOMAIN pool' : bst'[pool'[i]] = "InFree"
  <2> SUFFICES ASSUME NEW i \in DOMAIN pool'
               PROVE  bst'[pool'[i]] = "InFree"
    OBVIOUS
  <2>1. CASE i <= Len(pool)
    BY <2>1, <1>7, <1>8, <1>9, <1>10
  <2>2. CASE i > Len(pool)
    <3>1. pool'[i] = s[i - Len(pool)] /\ i - Len(pool) \in 1 .. m
      BY <2>2, <1>7, <1>8
    <3>2. pool'[i] \in UBlk /\ \E j \in DOMAIN s : s[j] = pool'[i]
      BY <1>4, <1>5, <3>1
    <3>. QED
      BY <1>1, <3>2
  <2>. QED
    BY <2>1, <2>2, <1>7, <1>8
<1>12. \A i, j \in DOMAIN pool' : i # j => pool'[i] # pool'[j]
  <2>1. ASSUME NEW i \in DOMAIN pool', NEW j \in DOMAIN pool', i < j
        PROVE  pool'[i] # pool'[j]
    <3>1. CASE j <= Len(pool)
      BY <2>1, <3>1, <1>7, <1>8 DEF PoolInv
    <3>2. CASE i <= Len(pool) /\ j > Len(pool)
      <4>1. pool'[j] = s[j - Len(pool)] /\ j - Len(pool) \in 1 .. m /\ pool'[i] = pool[i]
            /\ i \in 1 .. Len(pool)
        BY <2>1, <3>2, <1>7, <1>8
      <4>2. pool[i] \in UBlk /\ bst[pool[i]] = "InFree"
        BY <4>1, <1>7, <1>10
      <4>. QED
        BY <4>1, <4>2, <1>9
    <3>3. CASE i > Len(pool)
      <4>1. /\ pool'[j] = s[j - Len(pool)] /\ j - Len(pool) \in 1 .. m
            /\ pool'[i] = s[i - Len(pool)] /\ i - Len(pool) \in 1 .. m
            /\ i - Len(pool) # j - Len(pool)
        BY <2>1, <3>3, <1>7, <1>8
      <4>. QED
        BY <4>1, <1>6
    <3>. QED
      BY <2>1, <3>1, <3>2, <3>3, <1>7, <1>8
  <2>. QED
    BY <2>1, <1>7, <1>8
<1>13. ASSUME NEW o \in OpenType, erb[o].step # "Init"
       PROVE  bst'[erb[o].blk] = "InFree" /\ \A i \in DOMAIN pool' : pool'[i] # erb[o].blk
  <2>1. erb[o].blk \in UBlk /\ bst[erb[o].blk] = "InFree" /\ \A i \in DOMAIN pool : pool[i] # erb[o].blk
    BY <1>13 DEF PoolInv, AddrInv
  <2>2. bst'[erb[o].blk] = "InFree" /\ \A i \in 1 .. m : s[i] # erb[o].blk
    BY <1>9, <2>1
  <2>3. ASSUME NEW i \in DOMAIN pool'
        PROVE  pool'[i] # erb[o].blk
    <3>1. CASE i <= Len(pool)
      BY <3>1, <2>1, <1>7, <1>8
    <3>2. CASE i > Len(pool)
      BY <3>2, <2>2, <1>7, <1>8
    <3>. QED
      BY <3>1, <3>2, <1>7, <1>8
  <2>. QED
    BY <2>2, <2>3
<1>14. ASSUME NEW b \in UBlk, bst'[b] = "InFree", NEW l \in LPN
       PROVE  map[l].blk # b
  <2>1. CASE bst[b] = "InFree"
    BY <2>1 DEF PoolInv
  <2>2. CASE bst[b] # "InFree"
    <3>1. \E i \in DOMAIN s : s[i] = b
      BY <1>1, <1>14, <2>2
    <3>2. CountValid(map, b) = 0
      BY <3>1, <1>4, <1>5 DEF Counted
    <3>. QED
      BY <3>2, NoneCounted
  <2>. QED
    BY <2>1, <2>2
<1>15. bst' = [b \in UBlk |-> bst'[b]]
  BY <1>1
<1>16. ASSUME NEW b \in UBlk, bs[b] # "Closed"
       PROVE  bst'[b] = bs[b]
  BY <1>1, <1>4, <1>5, <1>16
<1>17. erb["USER"].step # "Init" /\ erb["GC"].step # "Init" => erb["USER"].blk # erb["GC"].blk
  BY DEF PoolInv
<1>18. ASSUME NEW b \in UBlk, bst'[b] # bs[b]
       PROVE  bst'[b] = "InFree" /\ InPool(b)'
  <2>1. bst'[b] = "InFree" /\ \E i \in DOMAIN s : s[i] = b
    BY <1>1, <1>18
  <2>2. PICK i \in 1 .. m : s[i] = b
    BY <1>4, <2>1
  <2>3. i + Len(pool) \in Len(pool) + 1 .. Len(pool) + m /\ i + Len(pool) - Len(pool) = i
    BY <1>7
  <2>4. pool'[i + Len(pool)] = b /\ i + Len(pool) \in DOMAIN pool'
    BY <1>7, <1>8, <2>2, <2>3
  <2>. QED
    BY <2>1, <2>4 DEF InPool, Elems
<1>19. ASSUME NEW b \in UBlk, InPool(b)
       PROVE  InPool(b)'
  <2>1. PICK i \in 1 .. Len(pool) : pool[i] = b
    BY <1>7, <1>19 DEF InPool, Elems
  <2>2. pool'[i] = b /\ i \in DOMAIN pool'
    BY <1>7, <1>8, <2>1
  <2>. QED
    BY <2>2 DEF InPool, Elems
<1>. QED
  BY <1>11, <1>12, <1>13, <1>14, <1>15, <1>16, <1>17, <1>18, <1>19 DEF PoolInv

GcOnly == UNCHANGED <<reqVars, hostVars>>

\* A turn of GC leaves the host's and META's parts alone.
LEMMA GcOthers ==
  ASSUME RestInv, AllocInv, GcOnly, UNCHANGED <<mctx, mt, os, us>>, ~Opening \/ opn' = opn,
         \A k \in CbKey \ {"Mig"} : SameFor(k) /\ Keeps(k),
         Under'["User"] \subseteq Under["User"]
  PROVE  /\ HostInv' /\ ScanAddr' /\ RingAddr' /\ (InUse' => InUse) /\ (InUse => InUse')
<1>1. HostInv'
  BY HostFrame, KeysDiffer DEF AllocInv, GcOnly, reqVars, hostVars, Opening
<1>2. ScanAddr' /\ RingAddr'
  <2>1. SameFor("Meta") /\ Keeps("Meta")
    BY KeysDiffer
  <2>2. CASE ~Opening
    BY <2>1, <2>2, NotOpeningAddr
  <2>3. CASE opn' = opn
    BY <2>1, <2>3, OthersAlloc
  <2>. QED
    BY <2>2, <2>3
<1>3. InUse' <=> InUse
  BY DEF InUse, Loaded, Scanning, Phase
<1>. QED
  BY <1>1, <1>2, <1>3

\* A turn of GC that changes no block, and neither the next addresses.
LEMMA GcAllocFrame ==
  ASSUME RestInv, AllocInv, GcOnly, UNCHANGED <<mctx, mt, os, us, bst, pool, map, opn>>,
         \A k \in CbKey \ {"Mig"} : SameFor(k) /\ Keeps(k),
         Under'["User"] \subseteq Under["User"], Keeps("Mig"),
         \A o \in OpenType : SameErb(o),
         gcSt' = "WaitOpen" => gcSt = "WaitOpen",
         \/ gcSt' = gcSt /\ mv'.dst = mv.dst /\ mv'.src = mv.src
            /\ (mv'.dwl = mv.dwl \/ Pgms("Mig") = {})
         \/ gcSt' \notin {"WaitOpen", "Move"} /\ Pgms("Mig") = {}
  PROVE  AllocInv'
<1>1. HostInv' /\ ScanAddr' /\ RingAddr' /\ (InUse' => InUse)
  BY GcOthers
<1>2. \A k \in CbKey \ {"Meta"} : Keeps(k)
  OBVIOUS
<1>3. Pgms("Mig")' \subseteq Pgms("Mig")
  BY DEF Keeps
<1>4. GcOpen' => GcOpen /\ GcBlk' = GcBlk
  BY <1>1, GcOpenSame, GcOpenNot
<1>5. Pgms("Mig")' # {} => mv'.dst = mv.dst /\ mv'.dwl = mv.dwl
  BY <1>3
<1>. QED
  BY <1>1, <1>2, <1>4, <1>5, AllocFrame

\* A turn with no command.
LEMMA GcQuiet ==
  ASSUME RestInv, UNCHANGED ioVars
  PROVE  /\ \A k \in CbKey : SameFor(k) /\ Keeps(k)
         /\ Under'["User"] \subseteq Under["User"]
<1>1. IoTypes
  BY DEF RestInv
<1>. QED
  BY <1>1, QuietKeeps, SameIo

\* A turn that collects one command of Mig.
LEMMA GcTakes ==
  ASSUME RestInv, HasDone("Mig"), PopDone("Mig"), UNCHANGED <<die, nq>>
  PROVE  /\ \A k \in CbKey \ {"Mig"} : SameFor(k) /\ Keeps(k)
         /\ Keeps("Mig") /\ Under'["User"] \subseteq Under["User"]
<1>1. IoTypes
  BY DEF RestInv
<1>2. Turns(<<>>, {"Mig"})
  BY <1>1, PopTurn, KeysDiffer
<1>3. \A k \in CbKey : k \notin {"Mig"} => SameFor(k) /\ Under'[k] \subseteq Under[k] /\ Keeps(k)
  <2>1. \A c \in Elems(<<>>) : FALSE
    BY NoneFacts
  <2>. QED
    BY <1>1, <1>2, <2>1, TurnRests
<1>4. Keeps("Mig")
  BY <1>1, <1>2, TurnTakes, KeysDiffer
<1>. QED
  BY <1>3, <1>4, KeysDiffer

LEMMA GcWaitAlloc ==
  ASSUME RestInv, AllocInv, GcOnly, GcWaitOpen \/ GcMoveWait \/ GcOpened
  PROVE  AllocInv'
<1>1. /\ UNCHANGED ioVars /\ UNCHANGED <<mctx, mt, os, us, bst, pool, map, opn, mv, erb>>
      /\ gcSt' = gcSt \/ (gcSt = "WaitOpen" /\ gcSt' = "WaitReq")
  BY DEF GcWaitOpen, GcMoveWait, GcOpened, otherThanGc, openVars, gcVars
<1>2. \A k \in CbKey : SameFor(k) /\ Keeps(k)
  BY <1>1, GcQuiet
<1>3. Under'["User"] \subseteq Under["User"]
  BY <1>1, GcQuiet
<1>4. \A o \in OpenType : SameErb(o)
  BY <1>1, ErbSame
<1>5. gcSt = "WaitOpen" => Pgms("Mig") = {}
  BY TypesCorollary
<1>. QED
  BY <1>1, <1>2, <1>3, <1>4, <1>5, GcAllocFrame, KeysDiffer

LEMMA GcTakesAlloc ==
  ASSUME RestInv, AllocInv, GcOnly, GcPgmDone \/ GcReadDropped
  PROVE  AllocInv'
<1>1. /\ HasDone("Mig") /\ PopDone("Mig") /\ UNCHANGED <<die, nq>>
      /\ UNCHANGED <<mctx, mt, os, us, bst, pool, map, opn, gcSt, erb>> /\ gcSt = "Move"
      /\ \/ mv' = [mv EXCEPT !.pg = @ - 1]
         \/ mv' = [mv EXCEPT !.data = @ - 1, !.rd = @ - 1]
  BY DEF GcPgmDone, GcReadDropped, Moving, otherThanGc, openVars
<1>2. mv'.dst = mv.dst /\ mv'.src = mv.src /\ mv'.dwl = mv.dwl
  <2>1. IsMv(mv)
    BY DEF RestInv, MigInv
  <2>. QED
    BY <1>1, <2>1 DEF IsMv, MvFields
<1>3. /\ \A k \in CbKey \ {"Mig"} : SameFor(k) /\ Keeps(k)
      /\ Keeps("Mig") /\ Under'["User"] \subseteq Under["User"]
  BY <1>1, GcTakes
<1>4. \A o \in OpenType : SameErb(o)
  BY <1>1, ErbSame
<1>. QED
  BY <1>1, <1>2, <1>3, <1>4, GcAllocFrame

LEMMA GcReadNextAlloc ==
  ASSUME RestInv, AllocInv, GcOnly, GcReadNext
  PROVE  AllocInv'
<1> DEFINE c == ReadCmd("Mig", mv.src, mv.swl)
<1>1. /\ Issue(<<c>>) /\ UNCHANGED <<die, done>>
      /\ UNCHANGED <<mctx, mt, os, us, bst, pool, map, opn, gcSt, erb>> /\ gcSt = "Move"
      /\ mv' = [mv EXCEPT !.swl = @ + 1, !.rd = @ + 1, !.data = @ + 1]
  BY DEF GcReadNext, Collected, otherThanGc, openVars
<1>2. mv'.dst = mv.dst /\ mv'.src = mv.src /\ mv'.dwl = mv.dwl
  <2>1. IsMv(mv)
    BY DEF RestInv, MigInv
  <2>. QED
    BY <1>1, <2>1 DEF IsMv, MvFields
<1>3. GoodCmd(c) /\ c.cb = "Mig" /\ c.op = "READ"
  BY PlainCmds, KeysDiffer
<1> HIDE DEF c
<1>4. Turns(<<c>>, {}) /\ Elems(<<c>>) = {c} /\ IoTypes
  BY <1>1, <1>3, IssueTurn, OneFacts DEF RestInv
<1>5. \A k \in CbKey : k # "Mig" => SameFor(k) /\ Under'[k] \subseteq Under[k] /\ Keeps(k)
  BY <1>3, <1>4, TurnRests
<1>6. Keeps("Mig")
  <2>1. /\ Pgms("Mig")' \subseteq Pgms("Mig") \cup {d \in Elems(<<c>>) : d.cb = "Mig" /\ d.op = "PGM"}
        /\ Erbs("Mig")' \subseteq Erbs("Mig") \cup {d \in Elems(<<c>>) : d.cb = "Mig" /\ d.op = "ERB"}
    BY <1>4, TurnWrites, KeysDiffer
  <2>. QED
    BY <1>3, <1>4, <2>1 DEF Keeps
<1>7. \A o \in OpenType : SameErb(o)
  BY <1>1, ErbSame
<1>. QED
  BY <1>1, <1>2, <1>5, <1>6, <1>7, GcAllocFrame, KeysDiffer

LEMMA GcStopAlloc ==
  ASSUME RestInv, AllocInv, GcOnly, GcStop
  PROVE  AllocInv'
<1>1. /\ gcSt = "Stop" /\ done' = [done EXCEPT !["Mig"] = <<>>] /\ UNCHANGED <<die, nq>>
      /\ UNCHANGED <<mctx, mt, os, us, bst, pool, map, opn, mv, gcSt, erb>>
  BY DEF GcStop, otherThanGc, openVars, gcVars
<1>2. IoTypes /\ \A k \in CbKey \ {"Mig"} : SameFor(k)
  BY <1>1, StopKeepsIo DEF RestInv
<1>3. \A k \in CbKey : Under'[k] \subseteq Under[k]
  <2>1. \A k \in CbKey : Elems(done'[k]) \subseteq Elems(done[k])
    BY <1>1, <1>2, NoneFacts DEF IoTypes
  <2>. QED
    BY <1>1, <2>1 DEF Under
<1>4. \A k \in CbKey : Keeps(k)
  BY <1>3, SubsetKeeps
<1>5. \A o \in OpenType : SameErb(o)
  BY <1>1, ErbSame
<1>. QED
  BY <1>1, <1>2, <1>3, <1>4, <1>5, GcAllocFrame, KeysDiffer

LEMMA GcEraseAlloc ==
  ASSUME RestInv, AllocInv, GcOnly, GcGetDst \/ GcErsDst
  PROVE  AllocInv'
<1>0. ErbKey("GC") = "Mig" /\ "GC" \in OpenType
  BY DEF ErbKey, OpenType
<1>1. CASE GcGetDst
  <2>1. /\ gcSt = "GetDst" /\ gcSt' = "ErsDst" /\ pool # <<>> /\ pool' = Tail(pool)
        /\ ErbStart("GC", Head(pool), {})
        /\ UNCHANGED <<die, done, bst, map, opn, mctx, mt, os, us, mv>>
    BY <1>1 DEF GcGetDst, otherThanGc, openVars
  <2>2. erb["GC"].step = "Init" /\ Erbs("Mig") = {} /\ IoTypes
    BY <2>1, TypesCorollary DEF RestInv, ErbInv
  <2>3. HostInv'
    <3> DEFINE c == EraseCmd("Mig", Head(pool))
    <3>0. Issue(<<c>>)
      BY <1>0, <2>1 DEF ErbStart
    <3>1. Issue(<<c>>) /\ GoodCmd(c) /\ c.cb = "Mig"
      BY <3>0, PlainCmds, KeysDiffer
    <3> HIDE DEF c
    <3>2. Turns(<<c>>, {}) /\ Elems(<<c>>) = {c}
      BY <2>1, <2>2, <3>1, IssueTurn, OneFacts
    <3>3. SameFor("User") /\ Under'["User"] \subseteq Under["User"]
      BY <2>2, <3>1, <3>2, TurnRests, KeysDiffer
    <3>. QED
      BY <2>1, <3>3, HostFrame DEF AllocInv, GcOnly, reqVars, hostVars, Opening
  <2>. QED
    BY <1>0, <2>1, <2>2, <2>3, ErbStartAlloc
<1>2. CASE GcErsDst
  <2>1. /\ gcSt = "ErsDst" /\ gcSt' = gcSt /\ ErbGoesOn("GC")
        /\ UNCHANGED <<map, bst, opn, mctx, mt, os, us, mv, pool>> /\ waitAge' = waitAge
    BY <1>2 DEF GcErsDst, openVars, GcOnly, reqVars
  <2>2. Erasing("GC") /\ Pgms("Mig") = {}
    BY <1>0, <2>1, TypesCorollary DEF RestInv, MigInv, Erasing
  <2>3. /\ \A u \in OpenType : SameErb(u)
        /\ \A k \in CbKey : Keeps(k)
        /\ \A k \in CbKey \ {"Mig"} : SameFor(k)
    BY <1>0, <2>1, <2>2, ErbGoesAlloc
  <2>4. Under'["User"] \subseteq Under["User"]
    <3>1. UNCHANGED ioVars \/ (HasDone("Mig") /\ PopDone("Mig") /\ UNCHANGED <<die, nq>>)
      BY <1>0, <2>1 DEF ErbGoesOn, ErbErased, ErbRetry, ErbWait
    <3>. QED
      BY <3>1, GcQuiet, GcTakes
  <2>. QED
    BY <2>1, <2>2, <2>3, <2>4, GcAllocFrame, KeysDiffer
<1>. QED
  BY <1>1, <1>2

\* Once Mig has no program and no erase under way, its commands are in order.
LEMMA CmdsNoMig ==
  ASSUME UserCmds, Keeps("User"), Keeps("UErs"), opn'["USER"] = opn["USER"],
         Pgms("Mig")' = {}, Erbs("Mig")' = {}, erb'["USER"] = erb["USER"]
  PROVE  UserCmds'
<1>1. \A o \in OpenType : \A c \in Erbs(ErbKey(o))' :
         erb'[o].step = "WaitErb" /\ c.blk = erb'[o].blk
  <2>1. \A c \in Erbs("UErs")' : erb["USER"].step = "WaitErb" /\ c.blk = erb["USER"].blk
    BY StreamsDiffer DEF UserCmds, Keeps, ErbKey
  <2>. QED
    BY <2>1, StreamsDiffer DEF ErbKey
<1>. QED
  BY <1>1 DEF UserCmds, Keeps

LEMMA GcResumeAlloc ==
  ASSUME MapInv, RestInv, AllocInv, GcOnly, GcResume
  PROVE  AllocInv'
<1>1. /\ gcSt = "WaitOpen" /\ gcSt' = "Move" /\ mt = "Ready" /\ opn["GC"].wl < NUM_WL
      /\ ScanFree(bst) /\ mv' = MoveInto(opn["GC"].blk, opn["GC"].wl)
      /\ UNCHANGED ioVars /\ UNCHANGED <<map, opn, mctx, mt, os, us, erb>>
  BY DEF GcResume, META_Ready, otherThanGc, openVars
<1>2. Loaded /\ InUse /\ Counted /\ AddrInv
  BY <1>1 DEF Loaded, InUse, MapInv, RestInv
<1>3. PoolInv' /\ \A b \in UBlk : bst[b] # "Closed" => bst'[b] = bst[b]
  BY <1>1, <1>2, ScanFreePool DEF AllocInv
<1>4. \A k \in CbKey : SameFor(k) /\ Keeps(k)
  BY <1>1, GcQuiet
<1>5. HostInv' /\ ScanAddr' /\ RingAddr' /\ (InUse' => InUse)
  BY <1>1, <1>4, GcQuiet, GcOthers
<1>6. GcOpen /\ GcBlk = opn["GC"].blk
  BY <1>1, <1>2 DEF GcOpen, GcBlk
<1>7. mv'.dst = opn["GC"].blk /\ mv'.src = NoBlk
  BY <1>1 DEF MoveInto, MvIdle
<1>8. GcBlk' = GcBlk /\ Pgms("Mig")' = {} /\ Erbs("Mig")' = {}
  BY <1>1, <1>4, <1>6, <1>7, TypesCorollary, KeysDiffer DEF GcBlk, Keeps
<1>9. OpenInv'
  <2>1. GcBlk \in UBlk /\ bst[GcBlk] = "Open"
    BY <1>6 DEF AllocInv, OpenInv
  <2>2. UserOpen' => UserOpen
    BY <1>1, <1>4, <1>5, KeysDiffer DEF UserOpen, Keeps
  <2>. QED
    BY <1>1, <1>3, <1>6, <1>7, <1>8, <2>1, <2>2 DEF AllocInv, OpenInv
<1>10. UserCmds'
  BY <1>1, <1>4, <1>8, CmdsNoMig, KeysDiffer DEF AllocInv
<1>. QED
  BY <1>3, <1>5, <1>9, <1>10 DEF AllocInv

LEMMA GcWaitReqAlloc ==
  ASSUME MapInv, RestInv, AllocInv, GcOnly, GcWaitReq
  PROVE  AllocInv'
<1>1. /\ gcSt = "WaitReq" /\ gcSt' \in {"GetDst", "WaitReq"}
      /\ ScanFree(bst)
      /\ UNCHANGED ioVars /\ UNCHANGED <<map, opn, mctx, mt, os, us, erb, mv>>
  BY DEF GcWaitReq, otherThanGc, openVars
<1>2. ~Opening /\ Loaded /\ Counted /\ AddrInv
  <2>1. ~Opening
    BY <1>1 DEF MapInv
  <2>. QED
    BY <2>1, NotOpening DEF MapInv, RestInv
<1>3. PoolInv' /\ \A b \in UBlk : bst[b] # "Closed" => bst'[b] = bst[b]
  BY <1>1, <1>2, ScanFreePool DEF AllocInv
<1>4. \A k \in CbKey : SameFor(k) /\ Keeps(k)
  BY <1>1, GcQuiet
<1>5. HostInv' /\ ScanAddr' /\ RingAddr' /\ (InUse' => InUse)
  BY <1>1, <1>4, GcQuiet, GcOthers
<1>6. Pgms("Mig")' = {} /\ Erbs("Mig")' = {} /\ Pgms("Mig") = {}
  BY <1>1, <1>4, TypesCorollary, KeysDiffer DEF Keeps
<1>7. ~GcOpen'
  BY <1>1, <1>4, <1>6, GcOpenNot, KeysDiffer
<1>8. OpenInv'
  <2>1. UserOpen' => UserOpen
    BY <1>1, <1>4, <1>5, KeysDiffer DEF UserOpen, Keeps
  <2>. QED
    BY <1>1, <1>3, <1>7, <2>1 DEF AllocInv, OpenInv
<1>9. UserCmds'
  BY <1>1, <1>4, <1>6, CmdsNoMig, KeysDiffer DEF AllocInv
<1>. QED
  BY <1>3, <1>5, <1>8, <1>9 DEF AllocInv

LEMMA GcErsDstDoneAlloc ==
  ASSUME MapInv, RestInv, AllocInv, GcOnly, GcErsDstDone
  PROVE  AllocInv'
<1>1. /\ gcSt = "ErsDst" /\ gcSt' = "Move" /\ ErbOver("GC")
      /\ META_SetOpen("GC", erb["GC"].blk) /\ mv' = MoveInto(erb["GC"].blk, 0)
      /\ UNCHANGED ioVars /\ UNCHANGED <<map, mctx, mt, os, us, pool>>
  BY DEF GcErsDstDone, openVars
<1>2. ~Opening /\ AddrInv
  BY <1>1 DEF MapInv, RestInv
<1>3. /\ PoolInv' /\ erb["GC"].blk \in UBlk /\ bst[erb["GC"].blk] = "InFree"
      /\ bst'[erb["GC"].blk] = "Open" /\ \A b \in UBlk : bst[b] # "InFree" => bst'[b] = bst[b]
      /\ erb'["GC"].step = "Init" /\ \A u \in OpenType \ {"GC"} : erb'[u] = erb[u]
      /\ opn'["GC"] = VAddr(erb["GC"].blk, 0) /\ \A u \in OpenType \ {"GC"} : opn'[u] = opn[u]
  BY <1>1, <1>2, OpenedPool, StreamsDiffer DEF AllocInv
<1>4. \A k \in CbKey : SameFor(k) /\ Keeps(k)
  BY <1>1, GcQuiet
<1>5. HostInv' /\ ScanAddr' /\ RingAddr' /\ (InUse' => InUse)
  BY <1>1, <1>2, <1>4, GcQuiet, GcOthers
<1>6. opn'["USER"] = opn["USER"] /\ erb'["USER"] = erb["USER"]
  BY <1>3, StreamsDiffer
<1>7. mv'.dst = erb["GC"].blk /\ mv'.src = NoBlk
  BY <1>1 DEF MoveInto, MvIdle
<1>8. Pgms("Mig")' = {} /\ Erbs("Mig")' = {}
  BY <1>1, <1>4, TypesCorollary, KeysDiffer DEF Keeps, ErbOver
<1>9. OpenInv'
  <2>1. UserOpen' => UserOpen
    BY <1>4, <1>5, <1>6, KeysDiffer DEF UserOpen, Keeps
  <2>2. UserOpen' => opn["USER"].blk \in UBlk /\ bst'[opn["USER"].blk] = "Open"
                     /\ opn["USER"].blk # erb["GC"].blk
    BY <1>3, <2>1 DEF AllocInv, OpenInv
  <2>3. GcBlk' = erb["GC"].blk
    BY <1>1, <1>7 DEF GcBlk
  <2>. QED
    BY <1>3, <1>6, <1>7, <2>2, <2>3 DEF OpenInv
<1>10. UserCmds'
  BY <1>4, <1>6, <1>8, CmdsNoMig, KeysDiffer DEF AllocInv
<1>. QED
  BY <1>3, <1>5, <1>9, <1>10 DEF AllocInv

LEMMA GcReadMovedAlloc ==
  ASSUME MapInv, RestInv, AllocInv, GcOnly, GcReadMoved
  PROVE  AllocInv'
<1> DEFINE pg == DoneHead("Mig").pg
           c  == PgmCmd("Mig", mv.dst, mv.dwl, pg)
<1>1. /\ gcSt = "Move" /\ HasDone("Mig") /\ PopDone("Mig")
      /\ MetaUpdate(pg.lpn, VAddr(mv.dst, mv.dwl), "GC") /\ Issue(<<c>>)
      /\ mv' = [mv EXCEPT !.dwl = @ + 1, !.pg = @ + 1, !.rd = @ - 1]
      /\ UNCHANGED <<die, opn, bst, mctx, mt, os, us, gcSt, pool, erb>>
  BY DEF GcReadMoved, Moving, openVars
<1>2. MoveAcc /\ IsMv(mv) /\ IoTypes /\ Erbs("Mig") = {}
  BY <1>1, MoveFacts, TypesCorollary
<1>3. mv'.dst = mv.dst /\ mv'.dwl = mv.dwl + 1 /\ mv'.src = mv.src /\ mv.dwl \in Nat /\ mv.dst \in UBlk
  BY <1>1, <1>2 DEF IsMv, MvFields, MoveAcc
<1>4. GoodCmd(c) /\ c.cb = "Mig" /\ c.op = "PGM" /\ c.blk = mv.dst /\ c.wl = mv.dwl
  <2>1. GoodCmd(c) /\ c.cb = "Mig" /\ c.op = "PGM"
    BY <1>3, UserPgm, KeysDiffer
  <2>. QED
    BY <2>1 DEF PgmCmd, Cmd
<1>m. map' = map \/ (\E l \in LPN : map' = [map EXCEPT ![l] = VAddr(mv.dst, mv.dwl)])
  BY <1>1 DEF MetaUpdate
<1> HIDE DEF c, pg
<1>5. Turns(<<c>>, {"Mig"}) /\ Elems(<<c>>) = {c}
  BY <1>1, <1>2, <1>4, PopIssueTurn, OneFacts, KeysDiffer
<1>6. \A k \in CbKey : k # "Mig" => SameFor(k) /\ Under'[k] \subseteq Under[k] /\ Keeps(k)
  BY <1>2, <1>4, <1>5, TurnRests
<1>7. Pgms("Mig")' \subseteq Pgms("Mig") \cup {c} /\ Erbs("Mig")' = {}
  <2>1. /\ Pgms("Mig")' \subseteq Pgms("Mig") \cup {d \in Elems(<<c>>) : d.cb = "Mig" /\ d.op = "PGM"}
        /\ Erbs("Mig")' \subseteq Erbs("Mig") \cup {d \in Elems(<<c>>) : d.cb = "Mig" /\ d.op = "ERB"}
    BY <1>2, <1>5, TurnWrites, KeysDiffer
  <2>. QED
    BY <1>2, <1>4, <1>5, <2>1
<1>8. HostInv' /\ ScanAddr' /\ RingAddr' /\ (InUse' => InUse)
  BY <1>1, <1>6, GcOthers, KeysDiffer
<1>9. GcOpen /\ GcBlk = mv.dst /\ GcBlk' = mv.dst
  BY <1>1, <1>3 DEF GcOpen, GcBlk
<1>10. mv.dst \in UBlk /\ bst[mv.dst] = "Open"
  BY <1>9 DEF AllocInv, OpenInv
<1>11. PoolInv'
  <2>1. \A b \in UBlk : bst[b] = "InFree" => \A l \in LPN : map'[l].blk # b
    <3>1. map = [l \in LPN |-> map[l]] /\ \A b \in UBlk : bst[b] = "InFree" => \A l \in LPN : map[l].blk # b
      BY DEF AllocInv, PoolInv, MapInv
    <3>2. VAddr(mv.dst, mv.dwl).blk = mv.dst
      BY DEF VAddr
    <3>. QED
      BY <1>m, <1>10, <3>1, <3>2
  <2>. QED
    BY <1>1, <2>1 DEF AllocInv, PoolInv
<1>12. OpenInv'
  <2>1. UserOpen' => UserOpen
    BY <1>1, <1>6, <1>8, KeysDiffer DEF UserOpen, Keeps
  <2>. QED
    BY <1>1, <1>3, <1>9, <2>1 DEF AllocInv, OpenInv
<1>13. UserCmds'
  <2>1. \A d \in Pgms("Mig")' : d.blk = mv'.dst /\ d.wl \in Nat /\ d.wl < mv'.dwl
    <3>1. ASSUME NEW d \in Pgms("Mig")'
          PROVE  d.blk = mv'.dst /\ d.wl \in Nat /\ d.wl < mv'.dwl
      <4>1. CASE d = c
        BY <4>1, <1>3, <1>4
      <4>2. CASE d \in Pgms("Mig")
        <5>1. d.blk = mv.dst /\ d.wl \in Nat /\ d.wl < mv.dwl
          BY <4>2 DEF AllocInv, UserCmds
        <5>. QED
          BY <5>1, <1>3
      <4>. QED
        BY <1>7, <4>1, <4>2
    <3>. QED
      BY <3>1
  <2>2. \A o \in OpenType : \A d \in Erbs(ErbKey(o))' :
           erb'[o].step = "WaitErb" /\ d.blk = erb'[o].blk
    BY <1>1, <1>6, <1>7, StreamsDiffer, KeysDiffer DEF AllocInv, UserCmds, Keeps, ErbKey
  <2>3. /\ \A d \in Pgms("User")' : d.blk = opn'["USER"].blk /\ d.wl \in Nat
                                        /\ d.wl + 1 = opn'["USER"].wl
        /\ Erbs("User")' = {}
    BY <1>1, <1>6, KeysDiffer DEF AllocInv, UserCmds, Keeps
  <2>. QED
    BY <2>1, <2>2, <2>3 DEF UserCmds
<1>. QED
  BY <1>8, <1>11, <1>12, <1>13 DEF AllocInv

LEMMA NoBlkIs == NoBlk \notin UBlk
BY SizeAssumption DEF NoBlk, UBlk

\* The steps of a move that change blocks: no free block and no block but the
\* source and, in the end, the destination.
LEMMA BlkMoves ==
  ASSUME RestInv, AllocInv, UserCmds', HostInv' /\ ScanAddr' /\ RingAddr', InUse' => InUse,
         PoolInv', gcSt = "Move", opn' = opn, Keeps("User"), Keeps("Mig"),
         \A b \in UBlk : bst[b] = "Open" /\ b # mv.dst => bst'[b] = "Open",
         \/ gcSt' = "Move" /\ mv'.dst = mv.dst /\ (bst[mv.dst] = "Open" => bst'[mv.dst] = "Open")
            /\ (mv'.src # NoBlk => mv'.src \in UBlk /\ bst'[mv'.src] = "Victim")
         \/ gcSt' = "WaitReq" /\ Pgms("Mig") = {}
  PROVE  AllocInv'
<1>1. GcOpen /\ GcBlk = mv.dst /\ mv.dst \in UBlk /\ bst[mv.dst] = "Open"
  BY DEF GcOpen, GcBlk, AllocInv, OpenInv
<1>2. UserOpen' => UserOpen /\ opn["USER"].blk \in UBlk /\ bst'[opn["USER"].blk] = "Open"
                   /\ opn["USER"].blk # mv.dst
  BY <1>1 DEF AllocInv, OpenInv, UserOpen, Keeps
<1>3. gcSt' = "Move" => GcBlk' = mv.dst /\ bst'[mv.dst] = "Open"
                        /\ (mv'.src # NoBlk => mv'.src \in UBlk /\ bst'[mv'.src] = "Victim")
  BY <1>1 DEF GcBlk
<1>4. gcSt' # "Move" => ~GcOpen'
  BY GcOpenNot
<1>5. OpenInv'
  BY <1>1, <1>2, <1>3, <1>4 DEF OpenInv
<1>. QED
  BY <1>5 DEF AllocInv

LEMMA GcBlkAlloc ==
  ASSUME MapInv, RestInv, AllocInv, GcOnly, GcDstFull \/ GcNewSrc \/ GcSrcDone
  PROVE  AllocInv'
<1>1. /\ gcSt = "Move" /\ UNCHANGED ioVars /\ UNCHANGED <<map, opn, mctx, mt, os, us, erb>>
  BY DEF GcDstFull, GcNewSrc, GcSrcDone, Collected, otherThanGc, openVars
<1>2. MoveAcc /\ IsMv(mv) /\ Erbs("Mig") = {} /\ AddrInv /\ Counted
  <2>1. ~Opening
    BY <1>1 DEF MapInv
  <2>2. Loaded
    BY <2>1, NotOpening
  <2>. QED
    BY <1>1, <2>2, MoveFacts, TypesCorollary DEF MapInv, RestInv
<1>3. \A k \in CbKey : SameFor(k) /\ Keeps(k)
  BY <1>1, GcQuiet
<1>4. HostInv' /\ ScanAddr' /\ RingAddr' /\ (InUse' => InUse)
  BY <1>1, <1>3, GcQuiet, GcOthers
<1>5. /\ mv.dst \in UBlk /\ bst[mv.dst] = "Open"
      /\ mv.src # NoBlk => mv.src \in UBlk /\ bst[mv.src] = "Victim"
  BY <1>1 DEF AllocInv, OpenInv, GcOpen, GcBlk
<1>6. bst = [b \in UBlk |-> bst[b]]
  BY DEF AllocInv, PoolInv
<1>7. Keeps("Mig") /\ Keeps("User") /\ Keeps("UErs")
  BY <1>3, KeysDiffer
<1>8. Erbs("Mig")' = {} /\ Pgms("Mig")' \subseteq Pgms("Mig")
  BY <1>2, <1>7 DEF Keeps
<1>9. CASE GcDstFull
  <2>1. /\ bst' = [b \in UBlk |-> IF b \in {mv.src, mv.dst} THEN "Closed" ELSE bst[b]]
        /\ gcSt' = "WaitReq" /\ UNCHANGED pool /\ mv.pg = 0
    BY <1>9 DEF GcDstFull, DstFull
  <2>2. Pgms("Mig") = {} /\ Pgms("Mig")' = {}
    <3>1. Cnt["Mig"]["PGM"] = 0
      BY <1>2, <2>1 DEF MoveAcc, Cnts
    <3>2. Pgms("Mig") = {}
      BY <3>1, NoPgms, KeysDiffer DEF RestInv
    <3>. QED
      BY <1>8, <3>2
  <2>3. \A b \in UBlk : bst[b] = "Open" /\ b # mv.dst => bst'[b] = "Open"
    <3>1. ASSUME NEW b \in UBlk, bst[b] = "Open", b # mv.dst
          PROVE  bst'[b] = "Open"
      <4>1. b # mv.src
        BY <3>1, <1>5, NoBlkIs
      <4>. QED
        BY <2>1, <3>1, <4>1
    <3>. QED
      BY <3>1
  <2>4. \A b \in UBlk : bst'[b] = "InFree" <=> bst[b] = "InFree"
    BY <2>1, <1>5, NoBlkIs
  <2>5. PoolInv'
    <3>1. bst' = [b \in UBlk |-> bst'[b]]
      BY <2>1
    <3>2. \A i \in DOMAIN pool : pool[i] \in UBlk
      BY <1>2 DEF AddrInv, Elems
    <3>3. \A o \in OpenType : erb[o].step # "Init" => erb[o].blk \in UBlk
      BY <1>2 DEF AddrInv
    <3>. QED
      BY <3>1, <3>2, <3>3, <1>1, <2>1, <2>4 DEF AllocInv, PoolInv
  <2>6. UserCmds'
    BY <1>1, <1>7, <1>8, <2>2, CmdsNoMig DEF AllocInv
  <2>. QED
    BY <1>1, <1>4, <1>7, <2>1, <2>2, <2>3, <2>5, <2>6, BlkMoves
<1>10. ASSUME gcSt' = gcSt, mv'.dst = mv.dst, mv'.dwl = mv.dwl
       PROVE  UserCmds'
  <2>1. \A k \in CbKey \ {"Meta"} : Keeps(k)
    BY <1>3
  <2>2. \A o \in OpenType : SameErb(o)
    BY <1>1, ErbSame
  <2>. QED
    BY <1>1, <1>10, <2>1, <2>2, CmdsFrame DEF AllocInv
<1>11. CASE GcNewSrc
  <2>1. PICK b \in Victims :
          /\ mv' = [mv EXCEPT !.src = b, !.swl = 0]
          /\ bst' = [c \in UBlk |-> IF c = b THEN "Victim" ELSE bst[c]]
    BY <1>11 DEF GcNewSrc
  <2>2. gcSt' = gcSt /\ UNCHANGED pool
    BY <1>11 DEF GcNewSrc
  <2>3. b = NoBlk \/ (b \in UBlk /\ bst[b] = "Closed")
    BY DEF Victims
  <2>4. mv'.dst = mv.dst /\ mv'.dwl = mv.dwl /\ mv'.src = b
    BY <1>2, <2>1 DEF IsMv, MvFields
  <2>5. \A c \in UBlk : (bst[c] = "Open" => bst'[c] = "Open") /\ (bst'[c] = "InFree" <=> bst[c] = "InFree")
    BY <2>1, <2>3, NoBlkIs
  <2>6. PoolInv'
    <3>1. bst' = [c \in UBlk |-> bst'[c]]
      BY <2>1
    <3>2. \A i \in DOMAIN pool : pool[i] \in UBlk
      BY <1>2 DEF AddrInv, Elems
    <3>3. \A o \in OpenType : erb[o].step # "Init" => erb[o].blk \in UBlk
      BY <1>2 DEF AddrInv
    <3>. QED
      BY <3>1, <3>2, <3>3, <1>1, <2>2, <2>5 DEF AllocInv, PoolInv
  <2>7. UserCmds'
    BY <1>10, <2>2, <2>4
  <2>8. mv'.src # NoBlk => mv'.src \in UBlk /\ bst'[mv'.src] = "Victim"
    BY <2>1, <2>3, <2>4
  <2>. QED
    BY <1>1, <1>4, <1>5, <1>7, <2>2, <2>4, <2>5, <2>6, <2>7, <2>8, BlkMoves
<1>12. CASE GcSrcDone
  <2> DEFINE bs == [bst EXCEPT ![mv.src] = "Closed"]
  <2>1. /\ ScanFree(bs) /\ mv' = [mv EXCEPT !.src = NoBlk] /\ gcSt' = gcSt /\ mv.src # NoBlk
    BY <1>12 DEF GcSrcDone, SrcRead
  <2>2. mv'.dst = mv.dst /\ mv'.dwl = mv.dwl /\ mv'.src = NoBlk
    BY <1>2, <2>1 DEF IsMv, MvFields
  <2>3. \A b \in UBlk : bs[b] = IF b = mv.src THEN "Closed" ELSE bst[b]
    BY <1>6
  <2> HIDE DEF bs
  <2>4. \A b \in UBlk : bs[b] = bst[b] \/ (bst[b] = "Victim" /\ bs[b] = "Closed")
    BY <1>5, <2>1, <2>3
  <2>5. PoolInv' /\ \A b \in UBlk : bs[b] # "Closed" => bst'[b] = bs[b]
    BY <1>1, <1>2, <2>1, <2>4, ScanFreePool DEF AllocInv
  <2>6. \A b \in UBlk : bst[b] = "Open" => bst'[b] = "Open"
    BY <2>4, <2>5
  <2>7. UserCmds'
    BY <1>10, <2>1, <2>2
  <2>. QED
    BY <1>1, <1>4, <1>5, <1>7, <2>1, <2>2, <2>5, <2>6, <2>7, BlkMoves
<1>. QED
  BY <1>9, <1>11, <1>12

LEMMA GcAlloc ==
  ASSUME MapInv, RestInv, AllocInv, GcOnly, GC_Run
  PROVE  AllocInv'
<1>1. \/ GcWaitOpen \/ GcResume \/ GcOpened \/ GcWaitReq \/ GcGetDst \/ GcErsDst
      \/ GcErsDstDone \/ GcMove \/ GcStop
  BY DEF GC_Run
<1>2. CASE GcWaitOpen \/ GcOpened
  BY <1>2, GcWaitAlloc
<1>3. CASE GcResume
  BY <1>3, GcResumeAlloc
<1>4. CASE GcWaitReq
  BY <1>4, GcWaitReqAlloc
<1>5. CASE GcGetDst \/ GcErsDst
  BY <1>5, GcEraseAlloc
<1>6. CASE GcErsDstDone
  BY <1>6, GcErsDstDoneAlloc
<1>7. CASE GcMove
  <2>1. GcPgmDone \/ GcReadMoved \/ GcReadDropped \/ GcDstFull \/ GcNewSrc \/ GcReadNext
        \/ GcSrcDone \/ GcMoveWait
    BY <1>7 DEF GcMove
  <2>. QED
    BY <2>1, GcTakesAlloc, GcReadMovedAlloc, GcBlkAlloc, GcReadNextAlloc, GcWaitAlloc
<1>8. CASE GcStop
  BY <1>8, GcStopAlloc
<1>. QED
  BY <1>1, <1>2, <1>3, <1>4, <1>5, <1>6, <1>7, <1>8

-----------------------------------------------------------------------------
(* The saves.                                                              *)

LEMMA RingBlk ==
  ASSUME NEW b \in MOff
  PROVE  MtBlk2PBN(b) \in MBlk
BY MetaAddr, SizeAssumption DEF PageOf, VAddr, WL

\* A turn of META alone.
LEMMA MetaRests ==
  ASSUME IoTypes, NEW t, NEW P, Turns(t, P), P \subseteq {"Meta"},
         \A c \in Elems(t) : c.cb = "Meta"
  PROVE  /\ IoTypes'
         /\ \A k \in CbKey \ {"Meta"} : SameFor(k) /\ Keeps(k) /\ Under'[k] \subseteq Under[k]
<1>1. IoTypes'
  BY StepFacts
<1>2. \A k \in CbKey : k # "Meta" => SameFor(k) /\ Under'[k] \subseteq Under[k] /\ Keeps(k)
  BY TurnRests
<1>. QED
  BY <1>1, <1>2

\* A step of a save, by what it issues and collects.
LEMMA SaveFrame ==
  ASSUME RestInv, AllocInv, MetaOnly, UNCHANGED openVars, UNCHANGED mapVars,
         mt \in {"Ready", "SaveErase", "SaveProgram"}, mt' \in {"Ready", "SaveErase", "SaveProgram"},
         NEW t, NEW P, Turns(t, P), P \subseteq {"Meta"},
         \A c \in Elems(t) : c.cb = "Meta" /\ (c.op = "ERB" => c.blk \in MBlk),
         mctx'.bo \in MOff
  PROVE  AllocInv'
<1>0. IoTypes
  BY DEF RestInv
<1>1. UNCHANGED <<bst, pool, map, opn, erb, gcSt, mv, os, us>>
  BY DEF MetaOnly, openVars, mapVars, gcVars
<1>2. \A k \in CbKey \ {"Meta"} : SameFor(k) /\ Keeps(k) /\ Under'[k] \subseteq Under[k]
  BY <1>0, MetaRests
<1>3. HostInv'
  BY <1>2, HostFrame, KeysDiffer DEF AllocInv, MetaOnly, reqVars, hostVars, Opening
<1>4. ScanAddr'
  BY DEF ScanAddr, Phase
<1>5. RingAddr'
  <2>1. Erbs("Meta")' \subseteq Erbs("Meta") \cup {c \in Elems(t) : c.cb = "Meta" /\ c.op = "ERB"}
    BY <1>0, TurnWrites, KeysDiffer
  <2>. QED
    BY <2>1 DEF AllocInv, RingAddr, Phase
<1>6. \A o \in OpenType : SameErb(o)
  BY <1>1, ErbSame
<1>7. InUse' => InUse
  BY DEF InUse, Loaded
<1>8. GcOpen' => GcOpen /\ GcBlk' = GcBlk
  BY <1>1, <1>2, <1>7, GcOpenSame, KeysDiffer
<1>. QED
  BY <1>1, <1>2, <1>3, <1>4, <1>5, <1>6, <1>7, <1>8, AllocFrame

\* The programs and erases of META are those of its ring.
LEMMA MetaCmdIs ==
  ASSUME AddrInv, RingAddr
  PROVE  /\ GoodCmd(MetaErase) /\ MetaErase.cb = "Meta" /\ MetaErase.op = "ERB"
         /\ MetaErase.blk = MtBlk2PBN(mctx.bo) /\ MetaErase.blk \in MBlk
         /\ GoodCmd(MetaPgm) /\ MetaPgm.cb = "Meta" /\ MetaPgm.op = "PGM"
         /\ MetaPgm.blk = MtBlk2PBN(mctx.bo) /\ MetaPgm.wl = mctx.wl
<1>1. GoodCmd(MetaErase) /\ MetaErase.cb = "Meta" /\ MetaErase.op = "ERB"
  BY PlainCmds, KeysDiffer DEF MetaErase
<1>2. GoodCmd(MetaPgm) /\ MetaPgm.cb = "Meta" /\ MetaPgm.op = "PGM"
  BY SavedPageGood
<1>3. MtBlk2PBN(mctx.bo) \in MBlk
  BY RingBlk DEF RingAddr
<1>4. MetaErase.blk = MtBlk2PBN(mctx.bo)
  BY DEF MetaErase, EraseCmd, Cmd
<1>5. MetaPgm.blk = MtBlk2PBN(mctx.bo) /\ MetaPgm.wl = mctx.wl
  BY DEF MetaPgm, PgmCmd, Cmd
<1>. QED
  BY <1>1, <1>2, <1>3, <1>4, <1>5

LEMMA NextSaveIs ==
  ASSUME mctx.bo \in MOff
  PROVE  NextSave.bo \in MOff
<1>1. (mctx.bo + 1) % NUM_META_BLK \in MOff
  <2>1. mctx.bo + 1 \in Int
    BY DEF MOff
  <2>. QED
    BY <2>1, RingMod
<1>. QED
  BY <1>1 DEF NextSave

LEMMA SaveAlloc ==
  ASSUME RestInv, AllocInv, MetaOnly, UNCHANGED openVars, MetaSave
  PROVE  AllocInv'
<1>0. IoTypes /\ AddrInv /\ RingAddr /\ mctx.bo \in MOff
  BY DEF RestInv, AllocInv, RingAddr
<1>n. \A c \in Elems(<<>>) : FALSE
  BY NoneFacts
<1>1. CASE MetaIdle \/ MetaSaveWait
  <2>1. UNCHANGED ioVars /\ UNCHANGED <<mapVars, mctx, mt>> /\ mt \in {"Ready", "SaveErase", "SaveProgram"}
    BY <1>1 DEF MetaIdle, MetaSaveWait
  <2>2. Turns(<<>>, {})
    BY <1>0, <2>1, QuietTurn
  <2>. QED
    BY <1>0, <1>n, <2>1, <2>2, SaveFrame
<1>2. CASE MetaSaveStart
  <2>1. /\ mt = "Ready" /\ UNCHANGED <<die, done>> /\ UNCHANGED mapVars /\ mctx' = mctx
    BY <1>2 DEF MetaSaveStart
  <2>2. PICK c \in {MetaErase, MetaPgm} : Issue(<<c>>) /\ mt' \in {"SaveErase", "SaveProgram"}
    BY <1>2 DEF MetaSaveStart
  <2>3. GoodCmd(c) /\ c.cb = "Meta" /\ c.blk \in MBlk
    BY <1>0, <2>2, MetaCmdIs
  <2>4. Turns(<<c>>, {}) /\ Elems(<<c>>) = {c}
    BY <1>0, <2>1, <2>2, <2>3, IssueTurn, OneFacts
  <2>. QED
    BY <1>0, <2>1, <2>2, <2>3, <2>4, SaveFrame
<1>3. CASE MetaSaveErased
  <2>1. /\ mt = "SaveErase" /\ mt' = "SaveProgram" /\ HasDone("Meta") /\ PopDone("Meta")
        /\ Issue(<<MetaPgm>>) /\ die' = die /\ UNCHANGED mapVars /\ mctx' = mctx
    BY <1>3 DEF MetaSaveErased
  <2>2. PICK c : c = MetaPgm
    OBVIOUS
  <2>3. GoodCmd(c) /\ c.cb = "Meta" /\ c.op = "PGM"
    BY <1>0, <2>2, MetaCmdIs
  <2>4. Turns(<<c>>, {"Meta"}) /\ Elems(<<c>>) = {c}
    BY <1>0, <2>1, <2>2, <2>3, PopIssueTurn, OneFacts, KeysDiffer
  <2>. QED
    BY <1>0, <2>1, <2>3, <2>4, SaveFrame
<1>4. CASE MetaSaveDone
  <2>1. /\ mt = "SaveProgram" /\ mt' = "Ready" /\ HasDone("Meta") /\ PopDone("Meta")
        /\ mctx' = NextSave /\ UNCHANGED <<die, nq>> /\ UNCHANGED mapVars
    BY <1>4 DEF MetaSaveDone
  <2>2. Turns(<<>>, {"Meta"})
    BY <1>0, <2>1, PopTurn, KeysDiffer
  <2>3. mctx'.bo \in MOff
    BY <1>0, <2>1, NextSaveIs
  <2>. QED
    BY <1>n, <2>1, <2>2, <2>3, SaveFrame
<1>. QED
  BY <1>1, <1>2, <1>3, <1>4 DEF MetaSave

-----------------------------------------------------------------------------
(* Opening.                                                                *)

\* The reads of a turn of META.
LEMMA ReadsTurn ==
  ASSUME IoTypes, NEW n \in Int, NEW t, IsReads(t, n), Issue(t), UNCHANGED <<die, done>>
  PROVE  /\ Turns(t, {}) /\ IsSeq(t) /\ Elems(t) = {t[i] : i \in 1 .. n}
         /\ \A c \in Elems(t) : c.cb = "Meta" /\ c.op = "READ"
<1>0. PICK m \in Nat : 1 .. n = 1 .. m
  <2>1. CASE n \in Nat
    BY <2>1
  <2>2. CASE n \notin Nat
    <3>1. 1 .. n = 1 .. 0
      BY <2>2
    <3>. QED
      BY <3>1
  <2>. QED
    BY <2>1, <2>2
<1>1. IsSeq(t) /\ Elems(t) = {t[i] : i \in 1 .. n}
  <2>1. t \in [1 .. m -> Elems(t)]
    BY <1>0 DEF IsReads, Elems
  <2>2. DOMAIN t = 1 .. n
    BY DEF IsReads
  <2>3. t \in Seq(Elems(t))
    BY <2>1
  <2>. QED
    BY <2>2, <2>3 DEF IsSeq, Elems
<1>2. \A i \in 1 .. n : GoodCmd(t[i]) /\ t[i].cb = "Meta" /\ t[i].op = "READ"
  BY PlainCmds, KeysDiffer DEF IsReads
<1>3. GoodCmds(t) /\ \A c \in Elems(t) : c.cb = "Meta" /\ c.op = "READ"
  BY <1>1, <1>2 DEF GoodCmds
<1>4. Turns(t, {})
  BY <1>3 DEF Turns, Issue, IoTypes
<1>. QED
  BY <1>1, <1>3, <1>4

LEMMA OpeningFrame ==
  ASSUME MapInv, RestInv, AllocInv, MetaOnly, Opening,
         NEW t, NEW P, Turns(t, P), P \subseteq {"Meta"},
         \A c \in Elems(t) : c.cb = "Meta",
         bst' = [b \in UBlk |-> bst'[b]], \A b \in UBlk : bst'[b] # "InFree",
         InUse' => \A o \in OpenType : opn'[o].wl < NUM_WL =>
                      opn'[o].blk \in UBlk /\ bst'[opn'[o].blk] = "Open",
         InUse' /\ opn'["USER"].wl < NUM_WL /\ opn'["GC"].wl < NUM_WL =>
                      opn'["USER"].blk # opn'["GC"].blk,
         ScanAddr', RingAddr'
  PROVE  AllocInv'
<1>1. /\ erb["USER"].step = "Init" /\ erb["GC"].step = "Init" /\ gcSt = "WaitOpen"
      /\ UNCHANGED <<erb, gcSt, mv, pool>> /\ IoTypes
  BY OpeningRests DEF MetaOnly, gcVars, RestInv
<1>2. \A k \in CbKey \ {"Meta"} : SameFor(k) /\ Keeps(k) /\ Under'[k] \subseteq Under[k]
  BY <1>1, MetaRests
<1>3. HostInv'
  BY <1>2, HostFrame, KeysDiffer DEF AllocInv, MetaOnly, reqVars, hostVars
<1>4. Pgms("User")' = {} /\ Pgms("Mig")' = {} /\ Erbs("Mig")' = {} /\ Erbs("UErs")' = {} /\ Erbs("User")' = {}
  <2>1. Under["User"] = {}
    BY DEF AllocInv, HostInv
  <2>2. Pgms("User") = {} /\ Erbs("User") = {}
    BY <2>1 DEF Pgms, Erbs
  <2>3. Pgms("Mig") = {} /\ Erbs("Mig") = {} /\ Erbs("UErs") = {}
    BY <1>1, TypesCorollary
  <2>. QED
    BY <1>2, <2>2, <2>3, KeysDiffer DEF Keeps
<1>5. PoolInv'
  <2>1. pool' = <<>> /\ \A o \in OpenType : erb'[o].step = "Init"
    BY <1>1, StreamsDiffer DEF AllocInv, PoolInv
  <2>. QED
    BY <1>1, <2>1, StreamsDiffer DEF PoolInv
<1>6. OpenInv'
  <2>1. UserOpen' => InUse' /\ opn'["USER"].wl < NUM_WL
    BY <1>4 DEF UserOpen
  <2>2. GcOpen' => InUse' /\ opn'["GC"].wl < NUM_WL /\ GcBlk' = opn'["GC"].blk
    BY <1>1, <1>4 DEF GcOpen, GcBlk
  <2>. QED
    BY <1>1, <2>1, <2>2, StreamsDiffer DEF OpenInv
<1>7. UserCmds'
  BY <1>4, StreamsDiffer DEF UserCmds, ErbKey
<1>. QED
  BY <1>3, <1>5, <1>6, <1>7 DEF AllocInv

LEMMA ReadAt == \A b, w : ReadCmd("Meta", b, w).blk = b /\ ReadCmd("Meta", b, w).wl = w
BY DEF ReadCmd, Cmd

\* A step of the phases before the map is in use.
LEMMA ReadFrame ==
  ASSUME MapInv, RestInv, AllocInv, MetaOnly, Opening,
         NEW t, NEW P, Turns(t, P), P \subseteq {"Meta"},
         \A c \in Elems(t) : c.cb = "Meta" /\ c.op = "READ", bst' = bst,
         mt' = "Assert" \/ (mt' = "Open" /\ os'.step \in ReadSteps),
         mctx'.bo \in MOff,
         mt' = "Open" /\ os'.step = "BlkScan" => opn' = [o \in OpenType |-> FF32]
  PROVE  AllocInv'
<1>1. gcSt = "WaitOpen" /\ IoTypes
  BY OpeningRests DEF RestInv
<1>2. bst = [b \in UBlk |-> bst[b]] /\ \A b \in UBlk : bst[b] # "InFree"
  BY <1>1 DEF AllocInv, PoolInv
<1>3. ~InUse' /\ ScanAddr'
  BY DEF InUse, Loaded, Scanning, Phase, ReadSteps, ScanAddr
<1>4. RingAddr'
  <2>1. Erbs("Meta")' \subseteq Erbs("Meta") \cup {c \in Elems(t) : c.cb = "Meta" /\ c.op = "ERB"}
    BY <1>1, TurnWrites, KeysDiffer
  <2>. QED
    BY <2>1 DEF AllocInv, RingAddr, Phase
<1>. QED
  BY <1>2, <1>3, <1>4, OpeningFrame

LEMMA MetaInitAlloc ==
  ASSUME MapInv, RestInv, AllocInv, MetaOnly, MetaInit
  PROVE  AllocInv'
<1> DEFINE n == IssueUpto(0, NUM_META_BLK)
           t == Reads(0, n, FirstPageOf)
<1>1. /\ mt = "Init" /\ mt' = "Open" /\ UNCHANGED <<die, done, opn, bst, mctx>>
  BY DEF MetaInit
<1>2. os'.step = "BlkScan" /\ os'.iss = n
  BY DEF MetaInit, OsIdle
<1>3. Issue(t)
  BY <1>2 DEF MetaInit
<1>4. n \in Int
  BY LesserFacts, SizeAssumption DEF IssueUpto
<1> HIDE DEF n
<1>5. IsReads(t, n)
  BY <1>4, ReadAt DEF Reads, IsReads
<1> HIDE DEF t
<1>6. Opening /\ IoTypes /\ mctx.bo \in MOff /\ opn = [o \in OpenType |-> FF32]
  BY <1>1 DEF Opening, RestInv, AllocInv, RingAddr
<1>7. Turns(t, {}) /\ \A c \in Elems(t) : c.cb = "Meta" /\ c.op = "READ"
  BY <1>1, <1>3, <1>4, <1>5, <1>6, ReadsTurn
<1>. QED
  BY <1>1, <1>2, <1>6, <1>7, ReadFrame DEF ReadSteps

\* A step in one of these phases that changes neither bst, opn nor mctx.bo.
LEMMA PhaseFrame ==
  ASSUME MapInv, RestInv, AllocInv, MetaOnly, NEW s \in ReadSteps, Phase(s),
         NEW t, NEW P, Turns(t, P), P \subseteq {"Meta"},
         \A c \in Elems(t) : c.cb = "Meta" /\ c.op = "READ", bst' = bst,
         mt' = mt, os'.step = os.step, mctx'.bo = mctx.bo, opn' = opn \/ s # "BlkScan"
  PROVE  AllocInv'
<1>1. Opening /\ mt = "Open" /\ os.step = s /\ mctx.bo \in MOff
  BY InPhase DEF AllocInv, RingAddr
<1>2. s = "BlkScan" => opn' = [o \in OpenType |-> FF32]
  BY DEF AllocInv, RingAddr
<1>. QED
  BY <1>1, <1>2, ReadFrame

LEMMA BlkScanAlloc ==
  ASSUME MapInv, RestInv, AllocInv, MetaOnly, BlkScanIssue \/ BlkScanPop \/ BlkScanReturn
  PROVE  AllocInv'
<1>0. "BlkScan" \in ReadSteps /\ Phase("BlkScan")
  BY DEF ReadSteps, BlkScanIssue, BlkScanPop, BlkScanReturn
<1>1. IoTypes /\ ReadState
  BY <1>0, InPhase
<1>2. IsOs(os) /\ os.iss \in Int /\ os.dn \in Nat
  BY <1>1 DEF ReadState
<1>3. UNCHANGED <<opn, bst, mctx, mt>>
  BY DEF BlkScanIssue, BlkScanPop, BlkScanReturn, mapVars
<1>4. os'.step = os.step
  <2>1. \/ os' = os \/ os' = [os EXCEPT !.iss = IssueUpto(os.dn, NUM_META_BLK)]
        \/ os' = [os EXCEPT !.dn = @ + 1]
        \/ \E a, b : os' = [os EXCEPT !.dn = @ + 1, !.age = a, !.bo = b]
    BY DEF BlkScanIssue, BlkScanPop, BlkScanReturn, openVars
  <2>. QED
    BY <1>2, <2>1 DEF IsOs, OsFields
<1>5. CASE BlkScanIssue
  <2> DEFINE n == IssueUpto(os.dn, NUM_META_BLK)
             t == Reads(os.iss, n, FirstPageOf)
  <2>1. Issue(t) /\ UNCHANGED <<die, done>>
    <3>1. os' = [os EXCEPT !.iss = n]
      BY <1>5 DEF BlkScanIssue
    <3>2. os'.iss = n
      BY <1>2, <3>1 DEF IsOs, OsFields
    <3>. QED
      BY <1>5, <3>2 DEF BlkScanIssue
  <2>2. n \in Int
    BY <1>2, LesserFacts, SizeAssumption DEF IssueUpto
  <2> HIDE DEF n
  <2>3. IsReads(t, n - os.iss)
    BY <1>2, <2>2, ReadAt DEF Reads, IsReads
  <2> HIDE DEF t
  <2>4. n - os.iss \in Int
    BY <1>2, <2>2
  <2>5. Turns(t, {}) /\ \A c \in Elems(t) : c.cb = "Meta" /\ c.op = "READ"
    BY <1>1, <2>1, <2>3, <2>4, ReadsTurn
  <2>. QED
    BY <1>0, <1>3, <1>4, <2>5, PhaseFrame
<1>n. \A c \in Elems(<<>>) : FALSE
  BY NoneFacts
<1>6. CASE BlkScanPop
  <2>1. Turns(<<>>, {"Meta"})
    BY <1>1, <1>6, PopTurn, KeysDiffer DEF BlkScanPop
  <2>. QED
    BY <1>0, <1>3, <1>4, <1>n, <2>1, PhaseFrame
<1>7. CASE BlkScanReturn
  <2>1. Turns(<<>>, {})
    BY <1>1, <1>7, QuietTurn DEF BlkScanReturn
  <2>. QED
    BY <1>0, <1>3, <1>4, <1>n, <2>1, PhaseFrame
<1>. QED
  BY <1>5, <1>6, <1>7

LEMMA BlkScanDoneAlloc ==
  ASSUME MapInv, RestInv, AllocInv, MetaOnly, BlkScanDone
  PROVE  AllocInv'
<1> DEFINE n == IssueUpto(0, NUM_WL)
           t == Reads(0, n, LAMBDA i : PageOf(os.bo, i))
<1>1. /\ Phase("BlkScan") /\ mt' = mt /\ UNCHANGED <<die, done, opn, bst, mctx>>
  BY DEF BlkScanDone, mapVars
<1>2. os'.step = "PageScan" /\ os'.iss = n
  BY DEF BlkScanDone, OsIdle
<1>3. Issue(t)
  BY <1>2 DEF BlkScanDone
<1>4. n \in Int
  BY LesserFacts, SizeAssumption DEF IssueUpto
<1> HIDE DEF n
<1>5. IsReads(t, n)
  BY <1>4, ReadAt DEF Reads, IsReads
<1> HIDE DEF t
<1>6. Opening /\ IoTypes /\ mctx.bo \in MOff /\ mt = "Open"
  BY <1>1, InPhase DEF AllocInv, RingAddr, ReadSteps
<1>7. Turns(t, {}) /\ \A c \in Elems(t) : c.cb = "Meta" /\ c.op = "READ"
  BY <1>1, <1>3, <1>4, <1>5, <1>6, ReadsTurn
<1>. QED
  BY <1>1, <1>2, <1>6, <1>7, ReadFrame DEF ReadSteps

LEMMA PageScanAlloc ==
  ASSUME MapInv, RestInv, AllocInv, MetaOnly, PageScanPop \/ PageScanReturn
  PROVE  AllocInv'
<1>0. "PageScan" \in ReadSteps /\ Phase("PageScan") /\ "PageScan" # "BlkScan"
  BY DEF ReadSteps, PageScanPop, PageScanReturn
<1>1. IoTypes /\ ReadState /\ AddrInv
  BY <1>0, InPhase
<1>2. IsOs(os) /\ os.iss \in Int /\ os.dn \in Nat
  BY <1>1 DEF ReadState
<1>3. UNCHANGED <<opn, bst, mt>>
  BY DEF PageScanPop, PageScanReturn, mapVars
<1>4. os'.step = os.step
  <2>1. \/ os' = [os EXCEPT !.iss = PageScanIssued]
        \/ os' = [os EXCEPT !.dn = @ + 1]
        \/ \E a : os' = [os EXCEPT !.dn = @ + 1, !.cpo = a]
    BY DEF PageScanPop, PageScanReturn
  <2>. QED
    BY <1>2, <2>1 DEF IsOs, OsFields
<1>5. mctx'.bo = mctx.bo
  <2>1. mctx' = mctx \/ \E a, b : mctx' = [mctx EXCEPT !.age = a, !.slice = b]
    BY DEF PageScanPop, PageScanReturn
  <2>. QED
    BY <1>1, <2>1 DEF AddrInv, IsCtx
<1>6. CASE PageScanPop
  <2>1. Turns(<<>>, {"Meta"}) /\ \A c \in Elems(<<>>) : FALSE
    BY <1>1, <1>6, PopTurn, NoneFacts, KeysDiffer DEF PageScanPop
  <2>. QED
    BY <1>0, <1>3, <1>4, <1>5, <2>1, PhaseFrame
<1>7. CASE PageScanReturn
  <2> DEFINE n == PageScanIssued
             t == Reads(os.iss, n, LAMBDA i : PageOf(os.bo, i))
  <2>1. Issue(t) /\ UNCHANGED <<die, done>>
    BY <1>7 DEF PageScanReturn
  <2>2. n \in Int
    BY <1>2, LesserFacts, SizeAssumption DEF PageScanIssued, IssueUpto
  <2> HIDE DEF n
  <2>3. IsReads(t, n - os.iss)
    BY <1>2, <2>2, ReadAt DEF Reads, IsReads
  <2> HIDE DEF t
  <2>4. n - os.iss \in Int
    BY <1>2, <2>2
  <2>5. Turns(t, {}) /\ \A c \in Elems(t) : c.cb = "Meta" /\ c.op = "READ"
    BY <1>1, <2>1, <2>3, <2>4, ReadsTurn
  <2>. QED
    BY <1>0, <1>3, <1>4, <1>5, <2>5, PhaseFrame
<1>. QED
  BY <1>6, <1>7

LEMMA PageScanDoneAlloc ==
  ASSUME MapInv, RestInv, AllocInv, MetaOnly, PageScanDone
  PROVE  AllocInv'
<1> DEFINE n == IssueUpto(0, NUM_MAP_SLICE)
           bo == os'.bo
           cpo == os'.cpo
           t == Reads(0, n, LAMBDA i : LoadPage(bo, cpo, i))
<1>1. /\ Phase("PageScan") /\ mt' = mt /\ UNCHANGED <<die, done, opn, bst>>
  BY DEF PageScanDone
<1>2. os'.step = "MtLoad" /\ os'.iss = n
  BY DEF PageScanDone, OsIdle
<1>3. Issue(t)
  BY <1>2 DEF PageScanDone
<1>4. n \in Int
  BY LesserFacts, MetaAssumption DEF IssueUpto
<1> HIDE DEF n, bo, cpo
<1>5. IsReads(t, n)
  BY <1>4, ReadAt DEF Reads, IsReads
<1> HIDE DEF t
<1>6. Opening /\ IoTypes /\ mt = "Open" /\ AddrInv /\ ReadState
  BY <1>1, InPhase DEF ReadSteps
<1>7. Turns(t, {}) /\ \A c \in Elems(t) : c.cb = "Meta" /\ c.op = "READ"
  BY <1>1, <1>3, <1>4, <1>5, <1>6, ReadsTurn
<1>8. mctx'.bo \in MOff
  <2>1. os.bo \in MOff
    BY <1>1, <1>6 DEF ReadState, Phase
  <2>2. (os.bo + 1) % NUM_META_BLK \in MOff
    <3>1. os.bo + 1 \in Int
      BY <2>1 DEF MOff
    <3>. QED
      BY <3>1, RingMod
  <2>3. \E b \in MOff : \E w : mctx' = [mctx EXCEPT !.bo = b, !.wl = w]
    BY <2>1, <2>2 DEF PageScanDone
  <2>. QED
    BY <1>6, <2>3 DEF AddrInv, IsCtx
<1>. QED
  BY <1>1, <1>2, <1>6, <1>7, <1>8, ReadFrame DEF ReadSteps

LEMMA MtLoadAlloc ==
  ASSUME MapInv, RestInv, AllocInv, MetaOnly, MtLoadPop \/ MtLoadReturn
  PROVE  AllocInv'
<1>0. "MtLoad" \in ReadSteps /\ Phase("MtLoad") /\ "MtLoad" # "BlkScan"
  BY DEF ReadSteps, MtLoadPop, MtLoadReturn
<1>1. IoTypes /\ ReadState /\ Opening /\ mt = "Open" /\ os.step = "MtLoad"
  BY <1>0, InPhase
<1>2. IsOs(os) /\ os.iss \in Int /\ os.dn \in Nat
  BY <1>1 DEF ReadState
<1>3. UNCHANGED <<bst, mctx>> /\ mctx.bo \in MOff
  BY DEF MtLoadPop, MtLoadReturn, mapVars, AllocInv, RingAddr
<1>4. os'.step = os.step
  <2>1. \/ os' = [os EXCEPT !.iss = IssueUpto(os.dn, NUM_MAP_SLICE)]
        \/ os' = [os EXCEPT !.dn = @ + 1]
    BY DEF MtLoadPop, MtLoadReturn
  <2>. QED
    BY <1>2, <2>1 DEF IsOs, OsFields
<1>5. mt' = "Assert" \/ mt' = mt
  BY DEF MtLoadPop, MtLoadReturn
<1>6. CASE MtLoadPop
  <2>1. Turns(<<>>, {"Meta"}) /\ \A c \in Elems(<<>>) : FALSE
    BY <1>1, <1>6, PopTurn, NoneFacts, KeysDiffer DEF MtLoadPop
  <2>. QED
    BY <1>0, <1>1, <1>3, <1>4, <1>5, <2>1, ReadFrame
<1>7. CASE MtLoadReturn
  <2> DEFINE n == IssueUpto(os.dn, NUM_MAP_SLICE)
             t == Reads(os.iss, n, LAMBDA i : LoadPage(os.bo, os.cpo, i))
  <2>1. Issue(t) /\ UNCHANGED <<die, done>>
    <3>1. os' = [os EXCEPT !.iss = n]
      BY <1>7 DEF MtLoadReturn
    <3>2. os'.iss = n
      BY <1>2, <3>1 DEF IsOs, OsFields
    <3>. QED
      BY <1>7, <3>2 DEF MtLoadReturn
  <2>2. n \in Int
    BY <1>2, LesserFacts, MetaAssumption DEF IssueUpto
  <2> HIDE DEF n
  <2>3. IsReads(t, n - os.iss)
    BY <1>2, <2>2, ReadAt DEF Reads, IsReads
  <2> HIDE DEF t
  <2>4. n - os.iss \in Int
    BY <1>2, <2>2
  <2>5. Turns(t, {}) /\ \A c \in Elems(t) : c.cb = "Meta" /\ c.op = "READ"
    BY <1>1, <2>1, <2>3, <2>4, ReadsTurn
  <2>. QED
    BY <1>0, <1>1, <1>3, <1>4, <1>5, <2>5, ReadFrame
<1>. QED
  BY <1>6, <1>7

\* What the reads of a scan are.
LEMMA ScanReadsTurn ==
  ASSUME IoTypes, NEW u, IsUs(u), u.nRun \in 0 .. 2, u.wl \in Nat, NEW w \in Nat, u.wl >= w,
         us' = ScanIssued(u), Issue(ScanReads(u)), UNCHANGED <<die, done>>,
         \A c \in Under["Meta"] : c.wl >= w
  PROVE  /\ Turns(ScanReads(u), {})
         /\ \A c \in Elems(ScanReads(u)) : c.cb = "Meta" /\ c.op = "READ"
         /\ us'.wl >= w /\ us'.ers = u.ers /\ \A c \in Under'["Meta"] : c.wl >= w
<1> DEFINE n == ScanIssues(u)
           t == ScanReads(u)
<1>1. n \in Nat
  BY ScanIssuesIs
<1>2. t = [i \in 1 .. n |-> ReadCmd("Meta", u.blk, u.wl + i - 1)]
  BY DEF ScanReads
<1>3. us' = [u EXCEPT !.wl = @ + n, !.nRun = @ + n]
  BY DEF ScanIssued
<1> HIDE DEF n, t
<1>4. IsReads(t, n) /\ \A i \in 1 .. n : t[i].wl = u.wl + i - 1
  <2>1. \A i \in 1 .. n : t[i].wl = u.wl + i - 1
    BY <1>2, ReadAt
  <2>. QED
    BY <1>2, <2>1, ReadAt DEF IsReads
<1>5. Issue(t)
  BY DEF t
<1>6. Turns(t, {}) /\ Elems(t) = {t[i] : i \in 1 .. n}
      /\ \A c \in Elems(t) : c.cb = "Meta" /\ c.op = "READ"
  BY <1>1, <1>4, <1>5, ReadsTurn
<1>7. us'.wl = u.wl + n /\ us'.ers = u.ers
  BY <1>3 DEF IsUs, UsFields
<1>8. \A c \in Under'["Meta"] : c.wl >= w
  <2>1. Under'["Meta"] \subseteq Under["Meta"] \cup Elems(t)
    BY <1>6, TurnUnder, KeysDiffer
  <2>2. \A c \in Elems(t) : c.wl >= w
    BY <1>1, <1>4, <1>6
  <2>. QED
    BY <2>1, <2>2
<1>9. Turns(ScanReads(u), {}) /\ \A c \in Elems(ScanReads(u)) : c.cb = "Meta" /\ c.op = "READ"
  BY <1>6 DEF t
<1>. QED
  BY <1>1, <1>7, <1>8, <1>9

\* The beginning of the scan of stream o.
LEMMA ScanStartTurn ==
  ASSUME IoTypes, AddrInv, NEW o \in OpenType, Cnts("Meta", 0, 0, 0), opn'[o] = opn[o],
         ScanStart(o), UNCHANGED <<die, done>>
  PROVE  /\ \E t : Turns(t, {}) /\ \A c \in Elems(t) : c.cb = "Meta" /\ c.op = "READ"
         /\ LookAddr(o)'
<1> DEFINE u == [blk |-> opn[o].blk, wl |-> opn[o].wl, ers |-> FF16, nRun |-> 0]
<1>1. us' = ScanIssued(u) /\ Issue(ScanReads(u))
  BY DEF ScanStart
<1>2. /\ IsUs(u) /\ u.wl = opn[o].wl /\ u.ers = FF16 /\ u.nRun \in 0 .. 2
  BY DEF IsUs, UsFields
<1> HIDE DEF u
<1>3. opn[o].wl \in Nat /\ u.wl >= opn[o].wl
  BY <1>2 DEF AddrInv, IsNext
<1>4. Under["Meta"] = {}
  BY NoUnder, KeysDiffer
<1>5. /\ Turns(ScanReads(u), {})
      /\ \A c \in Elems(ScanReads(u)) : c.cb = "Meta" /\ c.op = "READ"
      /\ us'.wl >= opn[o].wl /\ us'.ers = u.ers /\ \A c \in Under'["Meta"] : c.wl >= opn[o].wl
  BY <1>1, <1>2, <1>3, <1>4, ScanReadsTurn
<1>. QED
  BY <1>2, <1>5 DEF LookAddr

\* What holds of the blocks while the meta data are opened.
LEMMA OpeningPool ==
  ASSUME MapInv, RestInv, AllocInv, Opening
  PROVE  /\ bst = [b \in UBlk |-> bst[b]] /\ \A b \in UBlk : bst[b] # "InFree"
         /\ InUse => /\ \A o \in OpenType : opn[o].wl < NUM_WL =>
                          opn[o].blk \in UBlk /\ bst[opn[o].blk] = "Open"
                     /\ opn["USER"].wl < NUM_WL /\ opn["GC"].wl < NUM_WL =>
                          opn["USER"].blk # opn["GC"].blk
<1>1. gcSt = "WaitOpen"
  BY OpeningRests
<1>2. InUse /\ opn["USER"].wl < NUM_WL => UserOpen
  BY DEF UserOpen
<1>3. InUse /\ opn["GC"].wl < NUM_WL => GcOpen /\ GcBlk = opn["GC"].blk
  BY <1>1 DEF GcOpen, GcBlk
<1>. QED
  BY <1>1, <1>2, <1>3, StreamsDiffer DEF AllocInv, PoolInv, OpenInv

LEMMA MetaFormatAlloc ==
  ASSUME MapInv, RestInv, AllocInv, MetaOnly, MetaFormat
  PROVE  AllocInv'
<1>1. /\ Phase("BlkScan") /\ mt' = "Ready" /\ UNCHANGED ioVars /\ opn' = opn
      /\ bst' = [b \in UBlk |-> "Closed"] /\ mctx'.bo = 0
  BY DEF MetaFormat
<1>2. IoTypes /\ Opening
  BY <1>1, InPhase DEF ReadSteps
<1>3. Turns(<<>>, {}) /\ \A c \in Elems(<<>>) : FALSE
  BY <1>1, <1>2, QuietTurn, NoneFacts
<1>4. \A o \in OpenType : ~(opn'[o].wl < NUM_WL)
  BY <1>1, SizeAssumption DEF AllocInv, RingAddr, FF32, VAddr
<1>5. ScanAddr'
  BY <1>1 DEF ScanAddr, Phase
<1>6. RingAddr'
  <2>1. Keeps("Meta")
    BY <1>2, <1>3, TurnTakes, KeysDiffer
  <2>. QED
    BY <1>1, <2>1, SizeAssumption DEF AllocInv, RingAddr, Keeps, Phase, MOff
<1>7. bst' = [b \in UBlk |-> bst'[b]] /\ \A b \in UBlk : bst'[b] # "InFree"
  BY <1>1
<1>. QED
  BY <1>2, <1>3, <1>4, <1>5, <1>6, <1>7, OpeningFrame, StreamsDiffer

LEMMA MtLoadDoneAlloc ==
  ASSUME MapInv, RestInv, AllocInv, MetaOnly, MtLoadDone, ResumeSound'
  PROVE  AllocInv'
<1>1. /\ Phase("MtLoad") /\ mt' = mt /\ os.dn = NUM_MAP_SLICE
      /\ bst' = [b \in UBlk |-> IF OpenAfterLoad(b) THEN "Open" ELSE "Closed"]
      /\ os' = [OsIdle EXCEPT !.step = "GcScan"] /\ ScanStart("GC")
      /\ UNCHANGED <<die, done, opn, mctx>>
  BY DEF MtLoadDone
<1>2. "MtLoad" \in ReadSteps /\ "MtLoad" # "BlkScan" /\ "MtLoad" # "PageScan" /\ "GC" \in OpenType
  BY DEF ReadSteps, OpenType
<1>3. ReadState /\ mt = "Open" /\ os.step = "MtLoad" /\ Opening /\ AddrInv /\ IoTypes
  BY <1>1, <1>2, InPhase
<1>4. Cnts("Meta", 0, 0, 0)
  <2>1. os.iss <= os.dn
    BY <1>1, <1>2, <1>3 DEF ReadState, Total, Phase
  <2>. QED
    BY <1>1, <1>2, <2>1, PhaseOver
<1>5. PICK t : Turns(t, {}) /\ \A c \in Elems(t) : c.cb = "Meta" /\ c.op = "READ"
  BY <1>1, <1>2, <1>3, <1>4, ScanStartTurn
<1>6. LookAddr("GC")'
  BY <1>1, <1>2, <1>3, <1>4, ScanStartTurn
<1>7. mt' = "Open" /\ os'.step = "GcScan" /\ Phase("GcScan")' /\ ~Phase("UserScan")'
  BY <1>1, <1>3 DEF OsIdle, Phase
<1>8. ScanAddr'
  BY <1>6, <1>7 DEF ScanAddr
<1>9. RingAddr'
  <2>1. Erbs("Meta")' \subseteq Erbs("Meta") \cup {c \in Elems(t) : c.cb = "Meta" /\ c.op = "ERB"}
    BY <1>3, <1>5, TurnWrites, KeysDiffer
  <2>. QED
    BY <1>1, <1>5, <1>7, <2>1 DEF AllocInv, RingAddr, Phase
<1>10. \A o \in OpenType : opn[o].wl < NUM_WL => opn[o].blk \in UBlk /\ bst'[opn[o].blk] = "Open"
  <2>1. \A o \in OpenType : opn[o].wl < NUM_WL => opn[o].blk \in UBlk /\ OpenAfterLoad(opn[o].blk)
    BY <1>3 DEF AddrInv, IsNext, OpenAfterLoad
  <2>. QED
    BY <1>1, <2>1
<1>11. opn["USER"].wl < NUM_WL /\ opn["GC"].wl < NUM_WL => opn["USER"].blk # opn["GC"].blk
  BY <1>1, <1>7 DEF ResumeSound
<1>12. bst' = [b \in UBlk |-> bst'[b]] /\ \A b \in UBlk : bst'[b] # "InFree"
  BY <1>1
<1>. QED
  BY <1>1, <1>3, <1>5, <1>8, <1>9, <1>10, <1>11, <1>12, OpeningFrame

LEMMA ScanPopAlloc ==
  ASSUME MapInv, RestInv, AllocInv, MetaOnly, NEW o \in OpenType, ScanPop(o)
  PROVE  AllocInv'
<1> DEFINE c == DoneHead("Meta")
           e == IF IsErased(c.pg) /\ us.ers = FF16 THEN c.wl ELSE us.ers
<1>1. /\ ScanPhase(o) /\ HasDone("Meta") /\ PopDone("Meta")
      /\ us' = [us EXCEPT !.nRun = @ - 1, !.ers = e]
      /\ UNCHANGED <<die, nq, bst, opn, mctx, mt, os>>
  BY DEF ScanPop
<1>2. /\ ScanState(o) /\ ScanOf(us) /\ us.blk = opn[o].blk
      /\ Opening /\ mt = "Open" /\ IoTypes /\ AddrInv
  BY <1>1, InScan
<1>3. Turns(<<>>, {"Meta"}) /\ \A x \in Elems(<<>>) : FALSE
  BY <1>1, <1>2, PopTurn, NoneFacts, KeysDiffer
<1>4. Under'["Meta"] \subseteq Under["Meta"] /\ Keeps("Meta")
  BY <1>2, <1>3, TurnTakes, KeysDiffer
<1>5. LookAddr(o)
  BY <1>1 DEF AllocInv, ScanAddr, ScanPhase
<1>6. c \in Under["Meta"] /\ c.wl \in WL
  BY <1>1, <1>2, HeadUnder, KeysDiffer DEF ScanOf
<1>7. e # FF16 => e \in WL /\ e >= opn[o].wl
  BY <1>5, <1>6 DEF LookAddr
<1> HIDE DEF c, e
<1>8. us'.wl = us.wl /\ us'.ers = e
  BY <1>1, <1>2 DEF ScanOf, IsUs, UsFields
<1>9. LookAddr(o)'
  BY <1>1, <1>4, <1>5, <1>7, <1>8 DEF LookAddr
<1>10. ScanAddr'
  BY <1>1, <1>9 DEF ScanAddr, ScanPhase, Phase
<1>11. RingAddr'
  BY <1>1, <1>4, RingFrame DEF AllocInv
<1>12. InUse' => InUse
  BY <1>1 DEF InUse, Loaded, Scanning, Phase
<1>. QED
  BY <1>1, <1>2, <1>3, <1>10, <1>11, <1>12, OpeningPool, OpeningFrame

LEMMA ScanReturnAlloc ==
  ASSUME MapInv, RestInv, AllocInv, MetaOnly, NEW o \in OpenType, ScanReturn(o)
  PROVE  AllocInv'
<1>1. /\ ScanPhase(o) /\ us' = ScanIssued(us) /\ Issue(ScanReads(us))
      /\ UNCHANGED <<die, done, bst, opn, mctx, mt, os>>
  BY DEF ScanReturn, mapVars
<1>2. ScanOf(us) /\ Opening /\ IoTypes /\ AddrInv
  BY <1>1, InScan
<1>3. LookAddr(o) /\ opn[o].wl \in Nat
  BY <1>1, <1>2 DEF AllocInv, ScanAddr, ScanPhase, AddrInv, IsNext
<1>4. IsUs(us) /\ us.nRun \in 0 .. 2 /\ us.wl \in Nat /\ us.wl >= opn[o].wl
      /\ \A c \in Under["Meta"] : c.wl >= opn[o].wl
  BY <1>2, <1>3 DEF ScanOf, LookAddr
<1>5. /\ Turns(ScanReads(us), {})
      /\ \A c \in Elems(ScanReads(us)) : c.cb = "Meta" /\ c.op = "READ"
      /\ us'.wl >= opn[o].wl /\ us'.ers = us.ers /\ \A c \in Under'["Meta"] : c.wl >= opn[o].wl
  BY <1>1, <1>2, <1>3, <1>4, ScanReadsTurn
<1>6. PICK t : t = ScanReads(us)
  OBVIOUS
<1>7. Turns(t, {}) /\ \A c \in Elems(t) : c.cb = "Meta" /\ c.op = "READ"
  BY <1>5, <1>6
<1>8. LookAddr(o)'
  BY <1>1, <1>3, <1>5 DEF LookAddr
<1>9. ScanAddr'
  BY <1>1, <1>8 DEF ScanAddr, ScanPhase, Phase
<1>10. RingAddr'
  <2>1. Erbs("Meta")' \subseteq Erbs("Meta") \cup {c \in Elems(t) : c.cb = "Meta" /\ c.op = "ERB"}
    BY <1>2, <1>7, TurnWrites, KeysDiffer
  <2>. QED
    BY <1>1, <1>7, <2>1 DEF AllocInv, RingAddr, Phase
<1>11. InUse' => InUse
  BY <1>1 DEF InUse, Loaded, Scanning, Phase
<1>. QED
  BY <1>1, <1>2, <1>7, <1>9, <1>10, <1>11, OpeningPool, OpeningFrame

\* The end of the scan of stream o: its block stays, and its next address is
\* within the block only where it was before.
LEMMA ScanOverAddr ==
  ASSUME MapInv, RestInv, AllocInv, NEW o \in OpenType, ScanOver(o)
  PROVE  /\ InUse /\ opn'[o].blk = opn[o].blk /\ (opn'[o].wl < NUM_WL => opn[o].wl < NUM_WL)
         /\ \A u \in OpenType \ {o} : opn'[u] = opn[u]
<1>1. ScanPhase(o) /\ opn' = [opn EXCEPT ![o].wl = IF us.ers # FF16 THEN us.ers ELSE NUM_WL]
  BY DEF ScanOver, ScanEnd
<1>2. AddrInv /\ \A u \in OpenType \ {o} : opn'[u] = opn[u]
  BY ScanOverKeeps
<1> DEFINE w == IF us.ers # FF16 THEN us.ers ELSE NUM_WL
<1>3. opn'[o].blk = opn[o].blk /\ opn'[o].wl = w
  <2>1. opn = [u \in OpenType |-> opn[u]] /\ opn[o] = [blk |-> opn[o].blk, wl |-> opn[o].wl]
    BY <1>2 DEF AddrInv, IsNext, VAddr
  <2> HIDE DEF w
  <2>2. opn' = [opn EXCEPT ![o].wl = w]
    BY <1>1 DEF w
  <2>3. opn'[o] = [opn[o] EXCEPT !.wl = w]
    BY <2>1, <2>2
  <2>. QED
    BY <2>1, <2>3
<1>4. us.ers # FF16 => us.ers \in WL /\ us.ers >= opn[o].wl
  BY <1>1 DEF AllocInv, ScanAddr, ScanPhase, LookAddr
<1>5. w < NUM_WL => opn[o].wl < NUM_WL
  <2>1. opn[o].wl \in Nat
    BY <1>2 DEF AddrInv, IsNext
  <2>. QED
    BY <1>4, <2>1, SizeAssumption DEF WL
<1>6. InUse
  BY <1>1 DEF InUse, Scanning, ScanPhase
<1> HIDE DEF w
<1>. QED
  BY <1>2, <1>3, <1>5, <1>6

LEMMA ScanOverAlloc ==
  ASSUME MapInv, RestInv, AllocInv, MetaOnly, GcScanDone \/ UserScanDone
  PROVE  AllocInv'
<1>0. PICK o \in OpenType : ScanOver(o) /\ ((GcScanDone /\ o = "GC") \/ (UserScanDone /\ o = "USER"))
  BY StreamsDiffer DEF GcScanDone, UserScanDone
<1>1. /\ Cnts("Meta", 0, 0, 0) /\ Opening /\ mt = "Open" /\ IoTypes /\ AddrInv
      /\ UNCHANGED <<bst, die, done, mctx>>
  <2>1. Cnts("Meta", 0, 0, 0) /\ Opening /\ mt = "Open" /\ IoTypes /\ AddrInv
    BY <1>0, ScanOverKeeps
  <2>2. UNCHANGED <<bst, die, done, mctx>>
    BY <1>0 DEF GcScanDone, UserScanDone, ioVars
  <2>. QED
    BY <2>1, <2>2
<1>2. /\ InUse /\ opn'[o].blk = opn[o].blk /\ (opn'[o].wl < NUM_WL => opn[o].wl < NUM_WL)
      /\ \A u \in OpenType \ {o} : opn'[u] = opn[u]
  BY <1>0, ScanOverAddr
<1>3. \A u \in OpenType : opn'[u].blk = opn[u].blk /\ (opn'[u].wl < NUM_WL => opn[u].wl < NUM_WL)
  BY <1>2
<1>4. PICK t : Turns(t, {}) /\ (\A c \in Elems(t) : c.cb = "Meta" /\ c.op = "READ") /\ ScanAddr'
  <2>1. CASE GcScanDone
    <3>1. ScanOver("GC") /\ ScanStart("USER") /\ os'.step = "UserScan"
          /\ "USER" \in OpenType /\ "GC" \in OpenType /\ "USER" # "GC"
      BY <2>1, StreamsDiffer DEF GcScanDone, OsIdle
    <3>2. opn'["USER"] = opn["USER"]
      BY <3>1, ScanOverAddr
    <3>3. PICK t : Turns(t, {}) /\ \A c \in Elems(t) : c.cb = "Meta" /\ c.op = "READ"
      BY <1>1, <3>1, <3>2, ScanStartTurn
    <3>4. LookAddr("USER")'
      BY <1>1, <3>1, <3>2, ScanStartTurn
    <3>. QED
      BY <3>1, <3>3, <3>4 DEF ScanAddr, Phase
  <2>2. CASE UserScanDone
    <3>1. UNCHANGED ioVars /\ mt' = "Ready"
      BY <2>2 DEF UserScanDone
    <3>2. Turns(<<>>, {}) /\ \A c \in Elems(<<>>) : FALSE
      BY <1>1, <3>1, QuietTurn, NoneFacts
    <3>. QED
      BY <3>1, <3>2 DEF ScanAddr, Phase
  <2>. QED
    BY <1>0, <2>1, <2>2
<1>5. RingAddr'
  <2>1. Erbs("Meta")' \subseteq Erbs("Meta") \cup {c \in Elems(t) : c.cb = "Meta" /\ c.op = "ERB"}
    BY <1>1, <1>4, TurnWrites, KeysDiffer
  <2>2. mt' # "Init" /\ ~Phase("BlkScan")'
    BY <1>0, <1>1 DEF GcScanDone, UserScanDone, Phase, OsIdle
  <2>. QED
    BY <1>1, <1>4, <2>1, <2>2 DEF AllocInv, RingAddr
<1>6. /\ \A u \in OpenType : opn'[u].wl < NUM_WL => opn'[u].blk \in UBlk /\ bst'[opn'[u].blk] = "Open"
      /\ opn'["USER"].wl < NUM_WL /\ opn'["GC"].wl < NUM_WL => opn'["USER"].blk # opn'["GC"].blk
  BY <1>1, <1>2, <1>3, OpeningPool, StreamsDiffer
<1>. QED
  BY <1>1, <1>4, <1>5, <1>6, OpeningPool, OpeningFrame

LEMMA MetaAlloc ==
  ASSUME MapInv, RestInv, AllocInv, MetaOnly, MetaOpen, ResumeSound'
  PROVE  AllocInv'
<1>1. CASE \E o \in OpenType : ScanPop(o) \/ ScanReturn(o)
  BY <1>1, ScanPopAlloc, ScanReturnAlloc
<1>2. CASE ~(\E o \in OpenType : ScanPop(o) \/ ScanReturn(o))
  <2>1. \/ MetaInit \/ BlkScanIssue \/ BlkScanPop \/ BlkScanReturn \/ MetaFormat \/ BlkScanDone
        \/ PageScanPop \/ PageScanReturn \/ PageScanDone
        \/ MtLoadPop \/ MtLoadReturn \/ MtLoadDone \/ GcScanDone \/ UserScanDone
    BY <1>2 DEF MetaOpen
  <2>. QED
    BY <2>1, MetaInitAlloc, BlkScanAlloc, MetaFormatAlloc, BlkScanDoneAlloc, PageScanAlloc,
       PageScanDoneAlloc, MtLoadAlloc, MtLoadDoneAlloc, ScanOverAlloc
<1>. QED
  BY <1>1, <1>2

\* A step that no task takes, and that leaves the programs and erases alone.
LEMMA QuietAlloc ==
  ASSUME AllocInv, HostInv', \A k \in CbKey : SameFor(k) /\ Keeps(k),
         UNCHANGED <<mapVars, mctx, mt, openVars, gcVars>>
  PROVE  AllocInv'
<1> USE DEF mapVars, openVars, gcVars
<1>1. UNCHANGED <<mctx, mt, os, us, opn, bst, pool, map, gcSt, mv, erb>>
  OBVIOUS
<1>2. SameFor("Meta") /\ Keeps("Meta") /\ Keeps("Mig")
  BY KeysDiffer
<1>3. ScanAddr' /\ RingAddr' /\ (InUse' => InUse)
  BY <1>1, <1>2, OthersAlloc
<1>4. GcOpen' => GcOpen /\ GcBlk' = GcBlk
  BY <1>1, <1>2, <1>3, GcOpenSame
<1>. QED
  BY <1>1, <1>3, <1>4, AllocFrame DEF SameErb

\* The device executes a command.
LEMMA NandKeepsCmds ==
  ASSUME IoTypes, NandDone
  PROVE  \A k \in CbKey : Keeps(k)
<1> DEFINE c == Head(nq)
           a == Answered(c)
<1>1. IsSeq(nq) /\ nq # <<>> /\ nq' = Tail(nq)
  BY DEF IoTypes, GoodCmds, NandDone
<1>2. Elems(nq) = {c} \cup Elems(nq')
  BY <1>1, TailFacts
<1>3. GoodCmd(c)
  BY <1>2 DEF IoTypes, GoodCmds
<1>4. c.cb \in CbKey /\ done' = [done EXCEPT ![c.cb] = Append(@, a)]
      /\ a.op = c.op /\ (c.op # "READ" => a = c)
  BY <1>3, AnsweredIsGood DEF NandDone, Answered, GoodCmd
<1> HIDE DEF a, c
<1>5. /\ \A k \in CbKey : k # c.cb => done'[k] = done[k]
      /\ Elems(done'[c.cb]) = Elems(done[c.cb]) \cup {a}
  BY <1>4, AppendFacts DEF IoTypes, GoodCmds
<1>6. ASSUME NEW k \in CbKey, NEW x \in Under'[k], x.op # "READ"
      PROVE  x \in Under[k]
  <2>1. (x \in Elems(nq') /\ x.cb = k) \/ x \in Elems(done'[k])
    BY <1>6 DEF Under
  <2>2. Under[k] = {d \in Elems(nq) : d.cb = k} \cup Elems(done[k])
    BY DEF Under
  <2>3. CASE k = c.cb
    BY <2>1, <2>2, <2>3, <1>2, <1>4, <1>5, <1>6
  <2>4. CASE k # c.cb
    BY <2>1, <2>2, <2>4, <1>2, <1>5
  <2>. QED
    BY <2>3, <2>4
<1>. QED
  BY <1>6 DEF Keeps, Pgms, Erbs

LEMMA NandAlloc ==
  ASSUME RestInv, AllocInv, Nand
  PROVE  AllocInv'
<1>1. IoTypes' /\ \A k \in CbKey : SameFor(k) /\ Keeps(k)
  BY NandKeepsIo, NandKeepsCmds DEF RestInv, Nand
<1>2. HostInv'
  <2>1. UNCHANGED <<reqQ, reqSt, req, rsp, pwr, pend, mt>>
    BY DEF Nand, reqVars, hostVars
  <2>2. SameFor("User")
    BY <1>1, KeysDiffer
  <2>3. Opening' => Opening /\ Under'["User"] \subseteq Under["User"]
    BY <2>1, <2>2 DEF Opening, AllocInv, HostInv, SameFor
  <2>. QED
    BY <2>1, <2>2, <2>3, HostFrame DEF AllocInv
<1>. QED
  BY <1>1, <1>2, QuietAlloc DEF Nand

\* No command is issued, executed or collected.
LEMMA NoIo ==
  ASSUME IoTypes, UNCHANGED ioVars
  PROVE  \A k \in CbKey : SameFor(k) /\ Keeps(k) /\ Under'[k] \subseteq Under[k]
<1>1. Turns(<<>>, {}) /\ IsSeq(<<>>) /\ Elems(<<>>) = {}
  BY QuietTurn, NoneFacts
<1>2. ASSUME NEW k \in CbKey
      PROVE  SameFor(k) /\ Under'[k] \subseteq Under[k] /\ Keeps(k)
  BY <1>1, TurnRests
<1>. QED
  BY <1>2

LEMMA RoundAlloc ==
  ASSUME RestInv, AllocInv, UNCHANGED otherThanSched
  PROVE  AllocInv'
<1> USE DEF otherThanSched
<1>1. \A k \in CbKey : SameFor(k) /\ Keeps(k) /\ Under'[k] \subseteq Under[k]
  BY NoIo DEF RestInv
<1>2. HostInv'
  <2>1. UNCHANGED <<reqQ, reqSt, req, rsp, pwr, pend, mt>>
    BY DEF reqVars, hostVars
  <2>2. SameFor("User") /\ Under'["User"] \subseteq Under["User"]
    BY <1>1, KeysDiffer
  <2>. QED
    BY <2>1, <2>2, HostFrame DEF AllocInv, Opening
<1>. QED
  BY <1>1, <1>2, QuietAlloc

LEMMA HostAlloc ==
  ASSUME RestInv, AllocInv, Host
  PROVE  AllocInv'
<1>1. PICK r : Submit(r) /\ WellAsked(r) /\ r.cmd # "none"
  <2>1. CASE \E l \in LPN : HostWrite(l)
    BY <2>1 DEF HostWrite, WriteReq, WellAsked
  <2>2. CASE \E l \in ReadLPNs : HostRead(l)
    BY <2>2 DEF HostRead, ReadReq, WellAsked
  <2>3. CASE \E opt \in Shutdowns : HostShutdown(opt)
    BY <2>3 DEF HostShutdown, ShutdownReq, WellAsked
  <2>. QED
    BY <2>1, <2>2, <2>3 DEF Host
<1>2. \A k \in CbKey : SameFor(k) /\ Keeps(k)
  BY <1>1, NoIo DEF RestInv, Submit
<1>3. HostInv'
  BY <1>1, HostSubmits DEF AllocInv, RestInv
<1>. QED
  BY <1>1, <1>2, <1>3, QuietAlloc DEF Submit

\* Every module as its initialisation leaves it, and no request.
Fresh == /\ Rested /\ bst = [b \in UBlk |-> "Closed"] /\ os = OsIdle
         /\ reqQ = <<>> /\ req = NoReq /\ pend = NoReq

LEMMA FreshAlloc == Fresh => AllocInv
<1> SUFFICES ASSUME Fresh PROVE AllocInv
  OBVIOUS
<1> USE DEF Fresh
<1>1. \A k \in CbKey : Under[k] = {} /\ Pgms(k) = {} /\ Erbs(k) = {}
  <2>1. \A k \in CbKey : Under[k] = {}
    BY NoUnder, KeysDiffer DEF Rested, NoneOf, Cnts
  <2>. QED
    BY <2>1 DEF Pgms, Erbs
<1>2. HostInv
  <2>1. UserCnt = 0
    <3>1. Cnts("User", 0, 0, 0)
      BY KeysDiffer DEF Rested, NoneOf, Cnts
    <3> HIDE DEF Cnt
    <3>. QED
      BY <3>1 DEF UserCnt, Cnts
  <2>2. IsSeq(reqQ) /\ Elems(reqQ) = {} /\ Len(reqQ) = 0
    BY NoneFacts
  <2>3. WellAsked(req)
    BY DEF WellAsked, NoReq
  <2>4. OneRequest
    BY <2>1, <2>2 DEF OneRequest, Rested
  <2>. QED
    BY <1>1, <2>2, <2>3, <2>4, KeysDiffer DEF HostInv, Rested
<1>3. ~InUse /\ erb["USER"].step = "Init" /\ \A o \in OpenType : erb[o].step = "Init"
  BY StreamsDiffer DEF InUse, Loaded, Scanning, Phase, Rested, ErbIdle
<1>4. DOMAIN pool = {}
  BY DEF Rested
<1>5. PoolInv
  BY <1>3, <1>4 DEF PoolInv, Rested
<1>6. OpenInv
  BY <1>1, <1>3, KeysDiffer DEF OpenInv, UserOpen, GcOpen, Rested
<1>7. UserCmds
  <2>1. \A o \in OpenType : ErbKey(o) \in CbKey
    BY KeysDiffer DEF ErbKey
  <2>. QED
    BY <1>1, <2>1, KeysDiffer DEF UserCmds
<1>8. ScanAddr
  BY DEF ScanAddr, Phase, OsIdle
<1>9. RingAddr
  BY <1>1, KeysDiffer, SizeAssumption DEF RingAddr, Rested, MOff
<1>. QED
  BY <1>2, <1>5, <1>6, <1>7, <1>8, <1>9 DEF AllocInv

LEMMA InitFresh == Init => Fresh
  BY InitIsRested DEF Init, Fresh, ReqInit

LEMMA PowerCycleFresh ==
  ASSUME RestInv, PowerCycle
  PROVE  Fresh'
  BY PowerCycleRests DEF PowerCycle, Fresh

LEMMA AllocInductive ==
  ASSUME MapInv, RestInv, AllocInv, [Next]_vars, ResumeSound'
  PROVE  AllocInv'
<1>1. CASE TaskReq
  BY <1>1, ReqAlloc DEF TaskReq
<1>2. CASE TaskResp
  BY <1>2, RespAlloc DEF TaskResp
<1>3. CASE TaskGc
  BY <1>3, GcAlloc DEF TaskGc, GcOnly
<1>4. CASE TaskMeta
  <2>1. MetaOnly /\ ((MetaSave /\ UNCHANGED openVars) \/ MetaOpen)
    BY <1>4 DEF TaskMeta, MetaOnly
  <2>. QED
    BY <2>1, SaveAlloc, MetaAlloc
<1>5. CASE SchedRound \/ UNCHANGED vars
  <2>1. UNCHANGED otherThanSched
    BY <1>5 DEF SchedRound, RoundWith, vars, otherThanSched
  <2>. QED
    BY <2>1, RoundAlloc
<1>6. CASE Nand \/ Host
  BY <1>6, NandAlloc, HostAlloc
<1>7. CASE PowerCycle
  <2>1. Fresh'
    BY <1>7, PowerCycleFresh
  <2>. QED
    BY <2>1, FreshAlloc, PTL
<1>. QED
  BY <1>1, <1>2, <1>3, <1>4, <1>5, <1>6, <1>7 DEF Next, Task

-----------------------------------------------------------------------------
(* Before the first power cycle there is nothing to load.                  *)

FirstOpen ==
  /\ mt = "Init" \/ (Phase("BlkScan") /\ os.bo = INV_BN)
  /\ \A b \in Blk, w \in WL : IsErased(die[b][w])
  /\ \A c \in Elems(done["Meta"]) : IsErased(c.pg)

FirstInv == cycle \in Nat /\ (cycle = 0 /\ Opening => FirstOpen)

\* All commands under way while META opens are its own reads.
LEMMA OpeningReads ==
  ASSUME MapInv, RestInv, AllocInv, mt = "Init" \/ Phase("BlkScan"), NEW c \in Elems(nq)
  PROVE  c.cb = "Meta" /\ c.op = "READ" /\ c.blk \in MBlk /\ c.wl \in WL
<1>1. Opening /\ IoTypes
  BY DEF Opening, Phase, RestInv
<1>2. c.cb \in CbKey /\ c \in Under[c.cb] /\ c.op \in Ops
  BY <1>1, QueuedIsUnder DEF GoodCmd
<1>3. Under["User"] = {} /\ Under["Mig"] = {} /\ Under["UErs"] = {}
  <2>1. Cnts("Mig", 0, 0, 0) /\ Cnts("UErs", 0, 0, 0)
    BY <1>1, OpeningRests DEF RestInv, MigInv, ErbInv
  <2>. QED
    BY <1>1, <2>1, NoUnder, KeysDiffer DEF AllocInv, HostInv
<1>4. c.cb = "Meta" /\ c \in Under["Meta"]
  BY <1>2, <1>3 DEF CbKey
<1>5. CASE mt = "Init"
  BY <1>1, <1>4, <1>5, NoUnder, KeysDiffer DEF RestInv, MetaInv, SaveInv
<1>6. CASE Phase("BlkScan")
  <2>1. ReadState
    BY <1>6, InPhase DEF ReadSteps
  <2>2. c.op # "PGM" /\ c.op # "ERB"
    <3>1. Pgms("Meta") = {} /\ Erbs("Meta") = {}
      BY <1>1, <2>1, NoPgms, KeysDiffer DEF ReadState, Cnts
    <3>. QED
      BY <1>4, <3>1 DEF Pgms, Erbs
  <2>. QED
    BY <1>2, <1>4, <2>1, <2>2 DEF ReadState, Ops
<1>. QED
  BY <1>5, <1>6

\* The device executes a read of META.
LEMMA NandFirst ==
  ASSUME MapInv, RestInv, AllocInv, FirstInv, Nand
  PROVE  FirstInv'
<1>1. UNCHANGED <<cycle, mt, os>>
  BY DEF Nand, openVars
<1>2. CASE ~(cycle = 0 /\ Opening)
  BY <1>1, <1>2 DEF FirstInv, Opening
<1>3. CASE cycle = 0 /\ Opening
  <2> DEFINE c == Head(nq)
  <2>1. FirstOpen /\ IoTypes
    BY <1>3 DEF FirstInv, RestInv
  <2>2. c \in Elems(nq)
    <3>1. IsSeq(nq) /\ nq # <<>>
      BY <2>1 DEF IoTypes, GoodCmds, Nand, NandDone
    <3>. QED
      BY <3>1, TailFacts
  <2>3. c.cb = "Meta" /\ c.op = "READ" /\ c.blk \in MBlk /\ c.wl \in WL /\ GoodCmd(c)
    BY <2>1, <2>2, OpeningReads DEF FirstOpen, IoTypes, GoodCmds
  <2>4. die' = die /\ done' = [done EXCEPT !["Meta"] = Append(@, Answered(c))]
    BY <2>3 DEF Nand, NandDone, Answered
  <2>5. Answered(c).pg = die[c.blk][c.wl]
    BY <2>3 DEF Answered, GoodCmd
  <2>6. IsErased(Answered(c).pg)
    <3>1. c.blk \in Blk
      BY <2>3, SizeAssumption DEF MBlk, Blk
    <3>. QED
      BY <2>1, <2>3, <2>5, <3>1 DEF FirstOpen
  <2> HIDE DEF c
  <2>7. Elems(done'["Meta"]) = Elems(done["Meta"]) \cup {Answered(c)}
    <3>1. done'["Meta"] = Append(done["Meta"], Answered(c)) /\ IsSeq(done["Meta"])
      BY <2>1, <2>4, KeysDiffer DEF IoTypes, GoodCmds
    <3>. QED
      BY <3>1, AppendFacts
  <2>. QED
    BY <1>1, <2>1, <2>4, <2>6, <2>7 DEF FirstInv, FirstOpen, Phase
<1>. QED
  BY <1>2, <1>3

\* A step that neither ends nor feeds the scan.
LEMMA FirstFrame ==
  ASSUME FirstInv, UNCHANGED <<cycle, mt>>, Opening => UNCHANGED <<os, die, done>>
  PROVE  FirstInv'
BY DEF FirstInv, FirstOpen, Opening, Phase

\* REQ, REQ_RESP and GC leave META's state and the flash alone, and do nothing
\* before META is open.
LEMMA ReqLeaves ==
  ASSUME MapInv, RestInv, AllocInv, Req_Run \/ ReqResp_Run
  PROVE  UNCHANGED <<die, mt, os, us, mctx>> /\ (Opening => done' = done)
<1> USE DEF otherThanReq, openVars, ioVars
<1>1. CASE ReqWaitOpen \/ ReqOpened \/ ReqIdle
  BY <1>1 DEF ReqWaitOpen, ReqOpened, ReqIdle
<1>2. ASSUME NEW r, NEW at, Handling(r, at), ReqStep(r, at)
      PROVE  UNCHANGED <<die, mt, os, us, mctx>>
  BY <1>2 DEF ReqStep, ReqReadMapped, ReqReadUnmapped, ReqNeedsBlk, ReqErasing, ReqNewBlk,
       ReqProgram, ReqJnlBusy, ShutdownWaitIo, ShutdownSudden, ShutdownSave, ShutdownSaving,
       ShutdownSaved, ErbGoesOn, ErbErased, ErbRetry, ErbWait
<1>3. ASSUME NEW r, NEW at, Handling(r, at), ReqStep(r, at)
      PROVE  ~Opening
  BY <1>3, ReqWorks
<1>4. CASE RespWait
  BY <1>4 DEF RespWait
<1>5. CASE RespDone
  <2>1. ~Opening
    <3>1. IoTypes /\ done["User"] # <<>> /\ IsSeq(done["User"])
      BY <1>5, KeysDiffer DEF RespDone, HasDone, RestInv, IoTypes, GoodCmds
    <3>2. DoneHead("User") \in Under["User"]
      BY <1>5, <3>1, HeadUnder, KeysDiffer DEF RespDone
    <3>. QED
      BY <3>2 DEF AllocInv, HostInv
  <2>. QED
    BY <1>5, <2>1 DEF RespDone
<1>. QED
  BY <1>1, <1>2, <1>3, <1>4, <1>5 DEF Req_Run, ReqResp_Run

LEMMA GcLeaves ==
  ASSUME MapInv, GC_Run
  PROVE  UNCHANGED <<die, mt, os, us, mctx>> /\ (Opening => done' = done)
<1> USE DEF otherThanGc, openVars, ioVars
<1>1. CASE GcWaitOpen
  BY <1>1 DEF GcWaitOpen
<1>2. CASE GcResume \/ GcOpened \/ GcWaitReq \/ GcGetDst \/ GcErsDst \/ GcErsDstDone \/ GcStop
  <2>1. ~Opening
    BY <1>2 DEF GcResume, GcOpened, GcWaitReq, GcGetDst, GcErsDst, GcErsDstDone, GcStop,
         META_Ready, MapInv, Opening
  <2>. QED
    BY <1>2, <2>1 DEF GcResume, GcOpened, GcWaitReq, GcGetDst, GcErsDst, GcErsDstDone, GcStop,
         ErbGoesOn, ErbErased, ErbRetry, ErbWait
<1>3. CASE GcMove
  <2>1. ~Opening
    BY <1>3 DEF GcMove, GcPgmDone, GcReadMoved, GcReadDropped, GcDstFull, GcNewSrc, GcReadNext,
         GcSrcDone, GcMoveWait, Moving, Collected, MapInv
  <2>. QED
    BY <1>3, <2>1 DEF GcMove, GcPgmDone, GcReadMoved, GcReadDropped, GcDstFull, GcNewSrc,
         GcReadNext, GcSrcDone, GcMoveWait
<1>. QED
  BY <1>1, <1>2, <1>3 DEF GC_Run

LEMMA OpenFirst ==
  ASSUME RestInv, FirstInv, MetaOpen, cycle' = cycle
  PROVE  FirstInv'
<1>1. CASE ~(cycle = 0 /\ Opening')
  BY <1>1 DEF FirstInv
<1>2. CASE cycle = 0 /\ Opening'
  <2>1. Opening /\ IoTypes
    BY DEF MetaOpen, MetaInit, BlkScanIssue, BlkScanPop, BlkScanReturn, MetaFormat, BlkScanDone,
           PageScanPop, PageScanReturn, PageScanDone, MtLoadPop, MtLoadReturn, MtLoadDone,
           ScanPop, ScanReturn, GcScanDone, UserScanDone, ScanOver, ScanPhase, Phase, Opening,
           RestInv
  <2>2. FirstOpen
    BY <1>2, <2>1 DEF FirstInv
  <2>3. MetaInit \/ BlkScanIssue \/ BlkScanPop \/ BlkScanReturn
    BY <1>2, <2>2 DEF MetaOpen, MetaFormat, BlkScanDone, Opening, FirstOpen,
           PageScanPop, PageScanReturn, PageScanDone, MtLoadPop, MtLoadReturn, MtLoadDone,
           ScanPop, ScanReturn, GcScanDone, UserScanDone, ScanOver, ScanPhase, Phase
  <2>4. CASE MetaInit
    <3>1. mt' = "Open" /\ os'.step = "BlkScan" /\ os'.bo = INV_BN /\ UNCHANGED <<die, done>>
      BY <2>4 DEF MetaInit, OsIdle
    <3>. QED
      BY <2>2, <3>1 DEF FirstInv, FirstOpen, Phase
  <2>5. CASE BlkScanIssue \/ BlkScanPop \/ BlkScanReturn
    <3>1. Phase("BlkScan") /\ UNCHANGED <<mt, die>>
      BY <2>5 DEF BlkScanIssue, BlkScanPop, BlkScanReturn, ioVars
    <3>2. IsOs(os) /\ mt = "Open" /\ os.step = "BlkScan" /\ os.bo = INV_BN
      BY <2>2, <3>1, InPhase DEF ReadSteps, ReadState, FirstOpen, Phase
    <3>3. Elems(done'["Meta"]) \subseteq Elems(done["Meta"])
          /\ (BlkScanPop => DoneHead("Meta") \in Elems(done["Meta"]))
      <4>1. CASE BlkScanPop
        <5>1. IsSeq(done["Meta"]) /\ done["Meta"] # <<>> /\ done'["Meta"] = Tail(done["Meta"])
          BY <4>1, <2>1, KeysDiffer DEF BlkScanPop, IoTypes, GoodCmds, HasDone, PopDone
        <5>. QED
          BY <5>1, TailFacts DEF DoneHead
      <4>2. CASE BlkScanIssue \/ BlkScanReturn
        <5>1. done' = done
          BY <4>2 DEF BlkScanIssue, BlkScanReturn, ioVars
        <5>2. ~BlkScanPop
          BY <4>2 DEF BlkScanIssue, BlkScanReturn, BlkScanPop
        <5>. QED
          BY <5>1, <5>2
      <4>. QED
        BY <2>5, <4>1, <4>2
    <3>4. os'.step = "BlkScan" /\ os'.bo = INV_BN
      <4>1. \/ os' = os \/ os' = [os EXCEPT !.dn = @ + 1]
            \/ os' = [os EXCEPT !.iss = IssueUpto(os.dn, NUM_META_BLK)]
        BY <2>2, <2>5, <3>3 DEF BlkScanIssue, BlkScanPop, BlkScanReturn, FirstOpen, openVars
      <4>. QED
        BY <3>2, <4>1 DEF IsOs, OsFields
    <3>. QED
      BY <2>2, <3>1, <3>2, <3>3, <3>4 DEF FirstInv, FirstOpen, Phase
  <2>. QED
    BY <2>3, <2>4, <2>5
<1>. QED
  BY <1>1, <1>2

LEMMA FirstInductive ==
  ASSUME MapInv, RestInv, FirstInv, cycle = 0 => AllocInv, [Next]_vars
  PROVE  FirstInv'
<1>1. CASE PowerCycle
  BY <1>1 DEF PowerCycle, FirstInv
<1>2. CASE cycle # 0 /\ cycle' = cycle
  BY <1>2 DEF FirstInv
<1>3. CASE cycle = 0 /\ cycle' = cycle
  <2>0. AllocInv
    BY <1>3
  <2>1. CASE TaskReq \/ TaskResp
    BY <2>0, <2>1, <1>3, ReqLeaves, FirstFrame DEF TaskReq, TaskResp
  <2>2. CASE TaskGc
    BY <2>2, <1>3, GcLeaves, FirstFrame DEF TaskGc
  <2>3. CASE TaskMeta
    <3>1. CASE MetaOpen
      BY <3>1, <1>3, OpenFirst
    <3>2. CASE MetaSave
      BY <3>2, <1>3 DEF MetaSave, MetaIdle, MetaSaveStart, MetaSaveWait, MetaSaveErased,
           MetaSaveDone, FirstInv, Opening
    <3>. QED
      BY <2>3, <3>1, <3>2 DEF TaskMeta
  <2>4. CASE SchedRound \/ UNCHANGED vars
    BY <2>4, FirstFrame
       DEF SchedRound, RoundWith, otherThanSched, vars, ioVars, openVars
  <2>5. CASE Nand
    BY <2>0, <2>5, NandFirst
  <2>6. CASE Host
    <3>1. PICK r : Submit(r)
      BY <2>6 DEF Host, HostWrite, HostRead, HostShutdown
    <3>. QED
      BY <3>1, FirstFrame DEF Submit, ioVars, openVars
  <2>. QED
    BY <1>1, <1>3, <2>1, <2>2, <2>3, <2>4, <2>5, <2>6 DEF Next, Task, PowerCycle, FirstInv
<1>4. cycle' = cycle \/ PowerCycle
  BY DEF Next, Task, TaskReq, TaskResp, TaskGc, TaskMeta, SchedRound, RoundWith, otherThanSched,
       Nand, Host, HostWrite, HostRead, HostShutdown, Submit, vars
<1>. QED
  BY <1>1, <1>2, <1>3, <1>4

-----------------------------------------------------------------------------
(* Allocation: theorems.                                                   *)

LEMMA CountsNone ==
  ASSUME NEW m, NEW b, \A l \in LPN : m[l].blk # b
  PROVE  CountValid(m, b) = 0
<1>1. {l \in LPN : m[l].blk = b} = {}
  OBVIOUS
<1>. QED
  BY <1>1, FS_EmptySet DEF CountValid

LEMMA EraseIsFree ==
  ASSUME RestInv, AllocInv
  PROVE  NoEraseOfValid
<1> SUFFICES ASSUME NEW i \in DOMAIN nq, nq[i].op = "ERB", nq[i].blk \in UBlk
             PROVE  CountValid(map, nq[i].blk) = 0
  BY DEF NoEraseOfValid
<1> DEFINE c == nq[i]
<1>1. c \in Elems(nq) /\ IoTypes
  BY DEF Elems, RestInv
<1>2. c.cb \in CbKey /\ c \in Erbs(c.cb)
  BY <1>1, QueuedIsUnder DEF Erbs
<1>3. c.cb # "User" /\ c.cb # "Meta"
  <2>1. c.cb # "User"
    BY <1>2 DEF AllocInv, UserCmds
  <2>2. c.cb # "Meta"
    BY <1>2, BlksDiffer DEF AllocInv, RingAddr
  <2>. QED
    BY <2>1, <2>2
<1>4. PICK o \in OpenType : c.cb = ErbKey(o)
  BY <1>2, <1>3 DEF ErbKey, CbKey, OpenType
<1>5. erb[o].step # "Init" /\ c.blk = erb[o].blk
  BY <1>2, <1>4 DEF AllocInv, UserCmds
<1>6. \A l \in LPN : map[l].blk # c.blk
  BY <1>5 DEF AllocInv, PoolInv
<1>. QED
  BY <1>6, CountsNone

LEMMA PoolIsFree ==
  ASSUME MapInv, RestInv, AllocInv
  PROVE  PoolBlocks
<1>1. \A i \in DOMAIN pool : pool[i] \in UBlk /\ bst[pool[i]] = "InFree"
  BY DEF AllocInv, PoolInv, RestInv, AddrInv, Elems
<1>2. \A i \in DOMAIN pool : CountValid(map, pool[i]) = 0
  BY <1>1, CountsNone DEF AllocInv, PoolInv
<1>. QED
  BY <1>1, <1>2 DEF PoolBlocks, AllocInv, PoolInv, MapInv, Counted

LEMMA InitFirst == Init => FirstInv
<1>1. Init => FirstInv
  <2> SUFFICES ASSUME Init PROVE FirstInv
    OBVIOUS
  <2>1. \A b \in Blk, w \in WL : die[b][w] = Erased
    BY DEF Init, IoInit
  <2>2. done["Meta"] = <<>>
    BY KeysDiffer DEF Init, IoInit
  <2>3. Elems(done["Meta"]) = {}
    BY <2>2, NoneFacts
  <2>. QED
    BY <2>1, <2>3 DEF Init, FirstInv, FirstOpen, IsErased, Erased
<1>. QED
  BY <1>1

LEMMA AllocHolds == Spec /\ []ResumeSound => []AllocInv
<1>1. Init => AllocInv
  BY InitFresh, FreshAlloc
<1>2. IInv /\ AllocInv /\ [Next]_vars /\ ResumeSound' => AllocInv'
  BY AllocInductive DEF IInv
<1>. QED
  BY <1>1, <1>2, IInvHolds, PTL DEF Spec

FirstAlloc == FirstInv /\ (cycle = 0 => AllocInv)

LEMMA FirstHolds == Spec => []FirstAlloc
<1>1. Init => FirstAlloc
  BY InitFresh, FreshAlloc, InitFirst DEF FirstAlloc
<1>2. IInv /\ FirstAlloc /\ [Next]_vars => FirstAlloc'
  <2> SUFFICES ASSUME IInv, FirstAlloc, [Next]_vars PROVE FirstAlloc'
    OBVIOUS
  <2>1. FirstInv'
    BY FirstInductive DEF IInv, FirstAlloc
  <2>2. ASSUME cycle' = 0
        PROVE  AllocInv'
    <3>1. cycle = 0
      BY <2>2 DEF Next, Task, TaskReq, TaskResp, TaskGc, TaskMeta, SchedRound, RoundWith,
           otherThanSched, Nand, Host, HostWrite, HostRead, HostShutdown, Submit, vars,
           PowerCycle, FirstAlloc, FirstInv
    <3>2. ResumeSound'
      BY <2>1, <2>2 DEF FirstInv, FirstOpen, ResumeSound, Phase, Opening
    <3>. QED
      BY <3>1, <3>2, AllocInductive DEF IInv, FirstAlloc
  <2>. QED
    BY <2>1, <2>2 DEF FirstAlloc
<1>. QED
  BY <1>1, <1>2, IInvHolds, PTL DEF Spec

(* No erase reaches a block with a mapped page, however erases, moves,     *)
(* writes and saves interleave (page_gc.cpp:225, 323-333), if the streams  *)
(* that the start after a power off resumes fill up and are two blocks:    *)
(* what has to be true of the open blocks meta_Open_SM loads.              *)
THEOREM NoEraseHolds == Spec /\ []ResumeSound => []NoEraseOfValid
<1>1. IInv /\ AllocInv => NoEraseOfValid
  BY EraseIsFree DEF IInv
<1>. QED
  BY <1>1, IInvHolds, AllocHolds, PTL

(* Up to the first power off no erase reaches a block with a mapped page,  *)
(* without any hypothesis: the first start formats and resumes nothing.    *)
THEOREM NoEraseFirst == Spec => [](cycle = 0 => NoEraseOfValid)
<1>1. IInv /\ FirstAlloc => (cycle = 0 => NoEraseOfValid)
  BY EraseIsFree DEF IInv, FirstAlloc
<1>. QED
  BY <1>1, IInvHolds, FirstHolds, PTL

(* The free pool never holds a block twice, nor, once the map is loaded, a *)
(* block that is in use or has valid pages (gc_ScanFree, page_gc.cpp:225,  *)
(* and META_SetBlkState), under the same hypothesis on what a start        *)
(* resumes.                                                                *)
THEOREM PoolBlocksHolds == Spec /\ []ResumeSound => []PoolBlocks
<1>1. IInv /\ AllocInv => PoolBlocks
  BY PoolIsFree DEF IInv
<1>. QED
  BY <1>1, IInvHolds, AllocHolds, PTL

-----------------------------------------------------------------------------
(* The journal and the request for a save.                                 *)

Saving == mt \in {"SaveErase", "SaveProgram"}

\* What the host asks for is a page of the device or one of its shutdowns,
\* and a move reads a block that is one.
AskedInv ==
  /\ IsSeq(reqQ) /\ (\A r \in Elems(reqQ) : WellAsked(r)) /\ WellAsked(req)
  /\ mv.src \in UBlk \cup {NoBlk}

\* What a turn of REQ, REQ_RESP or GC does to the journal: nothing; one entry
\* more, and a request for a save if that fills it; or the request for the save
\* of a shutdown, once no command is under way.
JnlKept == jnl' = jnl /\ (gbRequest' <=> gbRequest)
JnlFills ==
  /\ JnlAccepts /\ ~Opening /\ ~Downing
  /\ jnl'.busy => gbRequest'
  /\ gbRequest' => gbRequest \/ jnl'.busy
ShutdownAsks == jnl' = jnl /\ gbRequest' /\ Downing' /\ ~Opening /\ Outstanding = 0
JnlStep == JnlKept \/ JnlFills \/ ShutdownAsks

LEMMA UpdateFills ==
  ASSUME NEW l \in LPN, NEW a, NEW o, MetaUpdate(l, a, o), META_ReqSave(jnl'.busy),
         ~Opening, ~Downing
  PROVE  JnlFills
<1>1. JnlAccepts
  BY DEF MetaUpdate, UpdateBusy
<1>. QED
  BY <1>1, Zenon DEF META_ReqSave, JnlFills

LEMMA ErbJnl ==
  ASSUME NEW o, NEW trig, ErbJournal(o, trig), ~Opening, ~Downing
  PROVE  JnlStep
<1>1. CASE JnlAccepts
  <2>1. jnl' = JnlPlusErase(erb[o].blk, o)
    BY <1>1 DEF ErbJournal
  <2>2. jnl'.busy = TRUE
    BY <2>1 DEF JnlPlusErase
  <2>3. gbRequest'
    BY <1>1, Zenon DEF ErbJournal, META_ReqSave
  <2>. QED
    BY <1>1, <2>2, <2>3 DEF JnlStep, JnlFills
<1>2. CASE ~JnlAccepts
  <2>1. jnl' = jnl
    BY <1>2 DEF ErbJournal
  <2>2. gbRequest' <=> gbRequest
    BY <1>2, Zenon DEF ErbJournal, META_ReqSave
  <2>. QED
    BY <2>1, <2>2 DEF JnlStep, JnlKept
<1>. QED
  BY <1>1, <1>2

LEMMA ErbGoesOnJnl ==
  ASSUME NEW o, ErbGoesOn(o), ~Opening, ~Downing
  PROVE  JnlStep
<1>1. CASE ErbErased(o) \/ ErbRetry(o)
  BY <1>1, ErbJnl DEF ErbErased, ErbRetry
<1>2. CASE ErbWait(o)
  BY <1>2 DEF ErbWait, jnlVars, JnlStep, JnlKept
<1>. QED
  BY <1>1, <1>2 DEF ErbGoesOn

LEMMA HandledAsked ==
  ASSUME AskedInv, NEW r, NEW at, Handling(r, at)
  PROVE  WellAsked(r) /\ IsSeq(reqQ') /\ \A q \in Elems(reqQ') : WellAsked(q)
<1>1. CASE reqSt = "Run" /\ r = req /\ UNCHANGED reqQ
  BY <1>1 DEF AskedInv
<1>2. CASE reqQ # <<>> /\ r = Head(reqQ) /\ reqQ' = Tail(reqQ)
  <2>1. IsSeq(reqQ') /\ Elems(reqQ) = {r} \cup Elems(reqQ')
    BY <1>2, TailFacts DEF AskedInv
  <2>. QED
    BY <2>1 DEF AskedInv
<1>. QED
  BY <1>1, <1>2 DEF Handling

\* A turn of REQ: as far as the shutdown goes, a save under way or asked for
\* keeps REQ waiting, and the power goes off with none asked for.
TurnOf ==
  /\ JnlStep /\ mt' = mt
  /\ Downing /\ (gbRequest \/ Saving) => Downing'
  /\ ~pwr' => ~gbRequest' \/ "SD_Sudden" \in Shutdowns

LEMMA HandledIsDown ==
  ASSUME RestInv, NEW r, NEW at, Handling(r, at)
  PROVE  Downing => r = req /\ at = "WaitMtSave" /\ r.cmd = "shutdown"
  BY DEF Handling, Downing, RestInv, DownInv

LEMMA ReqStepJnl ==
  ASSUME MapInv, RestInv, AskedInv, pwr, NEW r, NEW at, Handling(r, at), ReqStep(r, at)
  PROVE  TurnOf
<1>1. ~Opening
  BY DEF Handling, MapInv
<1>2. WellAsked(r)
  BY HandledAsked
<1>3. Downing => r = req /\ at = "WaitMtSave" /\ r.cmd = "shutdown"
  BY HandledIsDown
<1>4. CASE ReqReadMapped(r, at) \/ ReqReadUnmapped(r, at) \/ ReqNeedsBlk(r, at)
             \/ ReqNewBlk(r, at) \/ ReqJnlBusy(r, at)
  <2>1. ~Downing /\ UNCHANGED <<jnl, gbRequest, mt>>
    BY <1>3, <1>4 DEF ReqReadMapped, ReqReadUnmapped, ReqNeedsBlk, ReqNewBlk, ReqJnlBusy,
                      otherThanReq, jnlVars
  <2>2. pwr'
    <3>1. CASE ReqReadUnmapped(r, at)
      BY <3>1 DEF ReqReadUnmapped, Respond
    <3>2. CASE ~ReqReadUnmapped(r, at)
      BY <1>4, <3>2 DEF ReqReadMapped, ReqNeedsBlk, ReqNewBlk, ReqJnlBusy, hostVars
    <3>. QED
      BY <3>1, <3>2
  <2>. QED
    BY <2>1, <2>2 DEF TurnOf, JnlStep, JnlKept
<1>5. CASE ReqErasing(r, at)
  <2>1. ~Downing /\ ErbGoesOn("USER") /\ pwr' /\ mt' = mt
    BY <1>3, <1>5 DEF ReqErasing, hostVars
  <2>. QED
    BY <1>1, <2>1, ErbGoesOnJnl DEF TurnOf
<1>6. CASE ReqProgram(r, at)
  <2>1. ~Downing /\ pwr' /\ mt' = mt
    BY <1>3, <1>6 DEF ReqProgram, hostVars
  <2>2. MetaUpdate(r.lpn, opn["USER"], "USER") /\ META_ReqSave(jnl'.busy) /\ r.lpn \in LPN
    BY <1>2, <1>6 DEF ReqProgram, WellAsked
  <2>. QED
    BY <1>1, <2>1, <2>2, UpdateFills DEF TurnOf, JnlStep
<1>7. CASE ShutdownWaitIo(r, at)
  <2>1. ~Downing /\ UNCHANGED <<jnl, gbRequest, mt>> /\ pwr'
    BY <1>3, <1>7 DEF ShutdownWaitIo, hostVars, jnlVars
  <2>. QED
    BY <2>1 DEF TurnOf, JnlStep, JnlKept
<1>8. CASE ShutdownSudden(r, at)
  <2>1. ~Downing /\ UNCHANGED <<jnl, gbRequest, mt>>
    BY <1>3, <1>8 DEF ShutdownSudden, jnlVars
  <2>2. "SD_Sudden" \in Shutdowns
    BY <1>2, <1>8 DEF ShutdownSudden, WellAsked
  <2>. QED
    BY <2>1, <2>2 DEF TurnOf, JnlStep, JnlKept
<1>9. CASE ShutdownSave(r, at)
  <2>1. jnl' = jnl /\ mt' = mt /\ pwr' /\ Downing' /\ AllIoDone
    BY <1>9 DEF ShutdownSave, Remains, Downing, hostVars
  <2>2. gbRequest'
    BY <1>9, Zenon DEF ShutdownSave, META_ReqSave
  <2>3. Outstanding = 0
    BY <2>1, IoDoneMeansNone DEF RestInv
  <2>. QED
    BY <1>1, <2>1, <2>2, <2>3 DEF TurnOf, JnlStep, ShutdownAsks
<1>10. CASE ShutdownSaving(r, at)
  <2>1. UNCHANGED <<jnl, gbRequest, mt>> /\ pwr' /\ Downing'
    BY <1>10 DEF ShutdownSaving, Remains, Downing, hostVars, jnlVars, otherThanReq
  <2>. QED
    BY <2>1 DEF TurnOf, JnlStep, JnlKept
<1>11. CASE ShutdownSaved(r, at)
  <2>1. UNCHANGED <<jnl, gbRequest, mt>> /\ mctx.age > waitAge /\ Downing
    BY <1>11 DEF ShutdownSaved, Handling, Downing, jnlVars, otherThanReq
  <2>2. mctx.age \in Nat /\ waitAge \in Nat
    BY DEF RestInv, AddrInv, IsCtx
  <2>3. ~gbRequest /\ mt = "Ready"
    BY <2>1, <2>2 DEF RestInv, DownInv
  <2>. QED
    BY <2>1, <2>3 DEF TurnOf, JnlStep, JnlKept, Saving
<1>. QED
  BY <1>4, <1>5, <1>6, <1>7, <1>8, <1>9, <1>10, <1>11 DEF ReqStep

LEMMA ReqTurnJnl ==
  ASSUME MapInv, RestInv, AskedInv, pwr, Req_Run
  PROVE  TurnOf
<1>1. CASE ReqWaitOpen \/ ReqOpened \/ ReqIdle
  <2>1. ~Downing /\ UNCHANGED <<jnl, gbRequest, mt>> /\ pwr'
    BY <1>1 DEF ReqWaitOpen, ReqOpened, ReqIdle, Downing, hostVars, otherThanReq, jnlVars
  <2>. QED
    BY <2>1 DEF TurnOf, JnlStep, JnlKept
<1>2. ASSUME NEW r, NEW at, Handling(r, at), ReqStep(r, at)
      PROVE  TurnOf
  BY <1>2, ReqStepJnl
<1>. QED
  BY <1>1, <1>2 DEF Req_Run

LEMMA RespTurnJnl ==
  ASSUME RestInv, pwr, ReqResp_Run
  PROVE  TurnOf
<1>1. UNCHANGED <<jnl, gbRequest, mt, reqSt, step>>
  BY DEF ReqResp_Run, RespWait, RespDone, otherThanReq, jnlVars, reqVars
<1>2. pwr'
  <2>1. CASE RespWait
    BY <2>1 DEF RespWait, hostVars
  <2>2. CASE RespDone
    <3>1. HasDone("User") /\ pwr' = (DoneHead("User").req.cmd # "shutdown")
      BY <2>2 DEF RespDone, Respond
    <3>2. GoodCmd(DoneHead("User"))
      BY <3>1, HeadUnder, KeysDiffer DEF RestInv
    <3>. QED
      BY <3>1, <3>2 DEF GoodCmd
  <2>. QED
    BY <2>1, <2>2 DEF ReqResp_Run
<1>. QED
  BY <1>1, <1>2 DEF TurnOf, JnlStep, JnlKept, Downing

LEMMA GcTurnJnl ==
  ASSUME MapInv, RestInv, AskedInv, pwr, GC_Run, UNCHANGED <<reqVars, hostVars>>
  PROVE  TurnOf
<1>1. pwr' /\ (Downing <=> Downing')
  BY DEF reqVars, hostVars, Downing
<1>2. gcSt \in {"ErsDst", "Move"} => ~Opening /\ ~Downing
  BY DEF MapInv, RestInv, DownInv
<1>3. CASE GcErsDst
  <2>1. mt' = mt /\ ErbGoesOn("GC") /\ gcSt = "ErsDst"
    BY <1>3 DEF GcErsDst
  <2>. QED
    BY <1>1, <1>2, <2>1, ErbGoesOnJnl DEF TurnOf
<1>4. CASE GcReadMoved
  <2>1. mt' = mt /\ gcSt = "Move"
    BY <1>4 DEF GcReadMoved, Moving
  <2> DEFINE c == DoneHead("Mig")
  <2>2. /\ StillValid(c) /\ MetaUpdate(c.pg.lpn, VAddr(mv.dst, mv.dwl), "GC")
        /\ META_ReqSave(jnl'.busy)
    BY <1>4 DEF GcReadMoved
  <2>3. c.pg.lpn \in LPN
    <3>1. META_GetMap(c.pg.lpn) = VAddr(mv.src, c.wl)
      BY <2>2 DEF StillValid
    <3>2. mv.src # 1023
      BY SizeAssumption DEF AskedInv, UBlk, NoBlk
    <3>. QED
      BY <3>1, <3>2 DEF META_GetMap, FF32, VAddr
  <2> HIDE DEF c
  <2>. QED
    BY <1>1, <1>2, <2>1, <2>2, <2>3, UpdateFills DEF TurnOf, JnlStep
<1>5. CASE ~GcErsDst /\ ~GcReadMoved
  <2>1. UNCHANGED <<jnl, gbRequest, mt>>
    BY <1>5 DEF GC_Run, GcMove, otherThanGc, jnlVars, GcWaitOpen, GcResume, GcOpened, GcWaitReq,
       GcGetDst, GcErsDstDone, GcPgmDone, GcReadDropped, GcDstFull, GcNewSrc, GcReadNext,
       GcSrcDone, GcMoveWait, GcStop
  <2>. QED
    BY <1>1, <2>1 DEF TurnOf, JnlStep, JnlKept
<1>. QED
  BY <1>3, <1>4, <1>5

\* The steps of the others that are not tasks.
LEMMA QuietJnl ==
  ASSUME SchedRound \/ Nand \/ Host \/ UNCHANGED vars
  PROVE  /\ UNCHANGED <<jnl, gbRequest, mt, reqSt, step, req, mv, cycle>>
         /\ pwr' = pwr
         /\ reqQ' = reqQ \/ \E r : WellAsked(r) /\ reqQ' = Append(reqQ, r)
<1>1. CASE SchedRound
  BY <1>1 DEF SchedRound, RoundWith, otherThanSched, jnlVars, gcVars, reqVars, hostVars
<1>2. CASE Nand
  BY <1>2 DEF Nand, jnlVars, gcVars, reqVars, hostVars
<1>3. CASE Host
  <2>1. PICK r : Submit(r) /\ WellAsked(r)
    <3>1. ASSUME NEW l \in LPN, HostWrite(l)
          PROVE  \E r : Submit(r) /\ WellAsked(r)
      BY <3>1 DEF HostWrite, WellAsked, WriteReq
    <3>2. ASSUME NEW l \in ReadLPNs, HostRead(l)
          PROVE  \E r : Submit(r) /\ WellAsked(r)
      BY <3>2 DEF HostRead, WellAsked, ReadReq
    <3>3. ASSUME NEW opt \in Shutdowns, HostShutdown(opt)
          PROVE  \E r : Submit(r) /\ WellAsked(r)
      BY <3>3 DEF HostShutdown, WellAsked, ShutdownReq
    <3>. QED
      BY <1>3, <3>1, <3>2, <3>3 DEF Host
  <2>. QED
    BY <2>1 DEF Submit, jnlVars, gcVars
<1>4. CASE UNCHANGED vars
  BY <1>4 DEF vars, jnlVars, gcVars, reqVars, hostVars
<1>. QED
  BY <1>1, <1>2, <1>3, <1>4

LEMMA VictimsAre == \A b \in Victims : b \in UBlk \cup {NoBlk}
  BY DEF Victims

LEMMA AskedInductive ==
  ASSUME RestInv, AskedInv, [Next]_vars
  PROVE  AskedInv'
<1>1. CASE TaskReq
  <2>1. mv' = mv
    <3>1. ASSUME NEW r, NEW at, ReqStep(r, at) PROVE mv' = mv
      <4>1. CASE ReqReadMapped(r, at) \/ ReqReadUnmapped(r, at) \/ ReqNeedsBlk(r, at)
                   \/ ReqErasing(r, at) \/ ReqNewBlk(r, at) \/ ReqProgram(r, at)
        BY <4>1 DEF ReqReadMapped, ReqReadUnmapped, ReqNeedsBlk, ReqErasing, ReqNewBlk,
                    ReqProgram, otherThanReq, gcVars
      <4>2. CASE ReqJnlBusy(r, at) \/ ShutdownWaitIo(r, at) \/ ShutdownSudden(r, at)
                   \/ ShutdownSave(r, at) \/ ShutdownSaving(r, at) \/ ShutdownSaved(r, at)
        BY <4>2 DEF ReqJnlBusy, ShutdownWaitIo, ShutdownSudden, ShutdownSave, ShutdownSaving,
                    ShutdownSaved, otherThanReq, gcVars
      <4>. QED
        BY <3>1, <4>1, <4>2 DEF ReqStep
    <3>. QED
      BY <1>1, <3>1 DEF TaskReq, Req_Run, ReqWaitOpen, ReqOpened, ReqIdle, otherThanReq, gcVars
  <2>2. CASE ReqWaitOpen \/ ReqOpened \/ ReqIdle
    BY <2>1, <2>2 DEF ReqWaitOpen, ReqOpened, ReqIdle, reqVars, AskedInv
  <2>3. ASSUME NEW r, NEW at, Handling(r, at), ReqStep(r, at)
        PROVE  AskedInv'
    <3>1. req' = r \/ req' = NoReq
      <4>1. CASE ReqReadMapped(r, at) \/ ReqReadUnmapped(r, at) \/ ReqNeedsBlk(r, at)
                   \/ ReqErasing(r, at) \/ ReqNewBlk(r, at) \/ ReqProgram(r, at)
        BY <4>1 DEF ReqReadMapped, ReqReadUnmapped, ReqNeedsBlk, ReqErasing, ReqNewBlk,
                    ReqProgram, Fetched, Remains
      <4>2. CASE ReqJnlBusy(r, at) \/ ShutdownWaitIo(r, at) \/ ShutdownSudden(r, at)
                   \/ ShutdownSave(r, at) \/ ShutdownSaving(r, at) \/ ShutdownSaved(r, at)
        BY <4>2 DEF ReqJnlBusy, ShutdownWaitIo, ShutdownSudden, ShutdownSave, ShutdownSaving,
                    ShutdownSaved, Fetched, Remains
      <4>. QED
        BY <2>3, <4>1, <4>2 DEF ReqStep
    <3>2. WellAsked(r) /\ IsSeq(reqQ') /\ \A q \in Elems(reqQ') : WellAsked(q)
      BY <2>3, HandledAsked
    <3>3. WellAsked(NoReq)
      BY DEF WellAsked, NoReq
    <3>. QED
      BY <2>1, <3>1, <3>2, <3>3 DEF AskedInv
  <2>. QED
    BY <1>1, <2>2, <2>3 DEF TaskReq, Req_Run
<1>2. CASE TaskResp
  BY <1>2 DEF TaskResp, ReqResp_Run, RespWait, RespDone, otherThanReq, gcVars, reqVars, AskedInv
<1>3. CASE TaskGc
  <2>1. UNCHANGED <<reqQ, req>>
    BY <1>3 DEF TaskGc, reqVars
  <2>2. IsMv(mv) /\ mv.src \in UBlk \cup {NoBlk}
    BY DEF RestInv, MigInv, AskedInv
  <2>3. mv'.src \in UBlk \cup {NoBlk}
    <3>1. CASE mv' = mv
      BY <2>2, <3>1
    <3>2. CASE GcResume \/ GcErsDstDone \/ GcDstFull
      <4>1. \A b, w : MoveInto(b, w).src = NoBlk /\ MvIdle.src = NoBlk
        BY DEF MoveInto, MvIdle
      <4>. QED
        BY <3>2, <4>1 DEF GcResume, GcErsDstDone, GcDstFull
    <3>3. CASE GcPgmDone \/ GcReadMoved \/ GcReadDropped \/ GcReadNext
      <4>1. mv'.src = mv.src
        BY <2>2, <3>3 DEF GcPgmDone, GcReadMoved, GcReadDropped, GcReadNext, IsMv, MvFields
      <4>. QED
        BY <2>2, <4>1
    <3>4. CASE GcNewSrc
      <4>1. PICK b \in Victims : mv' = [mv EXCEPT !.src = b, !.swl = 0]
        BY <3>4 DEF GcNewSrc
      <4>2. mv'.src = b
        BY <2>2, <4>1 DEF IsMv, MvFields
      <4>. QED
        BY <4>2, VictimsAre
    <3>5. CASE GcSrcDone
      <4>1. mv'.src = NoBlk
        BY <2>2, <3>5 DEF GcSrcDone, IsMv, MvFields
      <4>. QED
        BY <4>1
    <3>6. CASE GcWaitOpen \/ GcOpened \/ GcWaitReq \/ GcGetDst \/ GcErsDst \/ GcMoveWait \/ GcStop
      BY <3>1, <3>6 DEF GcWaitOpen, GcOpened, GcWaitReq, GcGetDst, GcErsDst, GcMoveWait, GcStop, gcVars
    <3>. QED
      BY <1>3, <3>2, <3>3, <3>4, <3>5, <3>6 DEF TaskGc, GC_Run, GcMove
  <2>. QED
    BY <2>1, <2>3 DEF AskedInv
<1>4. CASE TaskMeta
  BY <1>4 DEF TaskMeta, gcVars, reqVars, AskedInv
<1>5. CASE SchedRound \/ Nand \/ Host \/ UNCHANGED vars
  <2>1. UNCHANGED <<req, mv>>
    BY <1>5, QuietJnl
  <2>2. CASE reqQ' = reqQ
    BY <2>1, <2>2 DEF AskedInv
  <2>3. CASE \E r : WellAsked(r) /\ reqQ' = Append(reqQ, r)
    BY <2>1, <2>3, AppendFacts DEF AskedInv
  <2>. QED
    BY <1>5, <2>2, <2>3, QuietJnl
<1>6. CASE PowerCycle
  <2>1. req' = NoReq /\ reqQ' = <<>> /\ mv'.src = NoBlk
    BY <1>6 DEF PowerCycle, MvIdle
  <2>2. WellAsked(NoReq)
    BY DEF WellAsked, NoReq
  <2>. QED
    BY <2>1, <2>2, NoneFacts DEF AskedInv
<1>. QED
  BY <1>1, <1>2, <1>3, <1>4, <1>5, <1>6 DEF Next, Task

LEMMA AskedHolds == Spec => []AskedInv
<1>1. Init => AskedInv
  <2>1. Init => req = NoReq /\ reqQ = <<>> /\ mv.src = NoBlk
    BY DEF Init, ReqInit, GcInit, MvIdle
  <2>2. WellAsked(NoReq)
    BY DEF WellAsked, NoReq
  <2>. QED
    BY <2>1, <2>2, NoneFacts DEF AskedInv
<1>2. IInv /\ AskedInv /\ [Next]_vars => AskedInv'
  BY AskedInductive DEF IInv
<1>. QED
  BY <1>1, <1>2, IInvHolds, PTL DEF Spec

LEMMA TaskJnl ==
  ASSUME MapInv, RestInv, AskedInv, TaskReq \/ TaskResp \/ TaskGc
  PROVE  TurnOf /\ cycle' = cycle
  BY ReqTurnJnl, RespTurnJnl, GcTurnJnl DEF TaskReq, TaskResp, TaskGc

-----------------------------------------------------------------------------
(* A busy journal is about to be saved.                                    *)

BusyInv == jnl.busy => gbRequest \/ Saving

LEMMA NoSaveWhenQuiet ==
  ASSUME RestInv, Outstanding = 0
  PROVE  ~Saving
<1>1. NoneOf("Meta")
  BY NoneUnder, KeysDiffer DEF RestInv
<1>2. Cnt["Meta"]["PGM"] = 0 /\ Cnt["Meta"]["ERB"] = 0
  BY <1>1 DEF NoneOf, Ops
<1> HIDE DEF Cnt
<1>. QED
  BY <1>2 DEF RestInv, MetaInv, SaveInv, Cnts, Saving

\* What META does to the journal.
MetaStarts ==
  /\ mt = "Ready" /\ gbRequest /\ ~gbRequest' /\ Saving' /\ jnl' = jnl
MetaGoesOn == mt # "Ready" /\ JnlKept /\ Saving /\ Saving'
MetaFinishes ==
  mt = "SaveProgram" /\ mt' = "Ready" /\ jnl' = EmptyJnl /\ (gbRequest' <=> gbRequest)
MetaOpens ==
  /\ Opening /\ ~Saving' /\ (gbRequest' <=> gbRequest)
  /\ \/ jnl' = jnl \/ jnl' = EmptyJnl
     \/ Scanning'

LEMMA MetaJnl ==
  ASSUME TaskMeta
  PROVE  /\ pwr /\ pwr' /\ cycle' = cycle /\ (Downing' <=> Downing)
         /\ MetaStarts \/ MetaGoesOn \/ MetaFinishes \/ MetaOpens \/ (JnlKept /\ mt' = mt)
<1>1. pwr /\ pwr' /\ cycle' = cycle /\ (Downing' <=> Downing)
  BY DEF TaskMeta, hostVars, reqVars, Downing
<1>2. CASE MetaIdle \/ MetaSaveWait
  BY <1>1, <1>2 DEF MetaIdle, MetaSaveWait, jnlVars, JnlKept
<1>3. CASE MetaSaveStart
  BY <1>1, <1>3 DEF MetaSaveStart, MetaStarts, Saving
<1>4. CASE MetaSaveErased
  BY <1>1, <1>4 DEF MetaSaveErased, MetaGoesOn, JnlKept, Saving, jnlVars
<1>5. CASE MetaSaveDone
  BY <1>1, <1>5 DEF MetaSaveDone, MetaFinishes
<1>6. CASE MetaOpen
  <2>1. Opening /\ ~Saving'
    BY <1>6 DEF Opening, Saving, MetaOpen, MetaInit, BlkScanIssue, BlkScanPop, BlkScanReturn,
       MetaFormat, BlkScanDone, PageScanPop, PageScanReturn, PageScanDone, MtLoadPop,
       MtLoadReturn, MtLoadDone, ScanPop, ScanReturn, GcScanDone, ScanOver, UserScanDone,
       Phase, ScanPhase
  <2>2. gbRequest' <=> gbRequest
    BY <1>6 DEF MetaOpen, MetaInit, BlkScanIssue, BlkScanPop, BlkScanReturn,
       MetaFormat, BlkScanDone, PageScanPop, PageScanReturn, PageScanDone, MtLoadPop,
       MtLoadReturn, MtLoadDone, ScanPop, ScanReturn, GcScanDone, ScanOver, UserScanDone,
       jnlVars
  <2>3. CASE \E o \in OpenType : ScanPop(o)
    <3>1. Scanning'
      BY <2>3 DEF ScanPop, ScanPhase, Scanning, Phase
    <3>. QED
      BY <1>1, <2>1, <2>2, <3>1 DEF MetaOpens
  <2>4. CASE ~\E o \in OpenType : ScanPop(o)
    <3>1. jnl' = jnl \/ jnl' = EmptyJnl
      BY <1>6, <2>4 DEF MetaOpen, MetaInit, BlkScanIssue, BlkScanPop, BlkScanReturn,
         MetaFormat, BlkScanDone, PageScanPop, PageScanReturn, PageScanDone, MtLoadPop,
         MtLoadReturn, MtLoadDone, ScanReturn, GcScanDone, UserScanDone, JnlAfterLoad,
         jnlVars
    <3>. QED
      BY <1>1, <2>1, <2>2, <3>1 DEF MetaOpens
  <2>. QED
    BY <2>3, <2>4
<1>. QED
  BY <1>1, <1>2, <1>3, <1>4, <1>5, <1>6 DEF TaskMeta, MetaSave

ScanFitsNext == ScanFitsJournal'

LEMMA BusyInductive ==
  ASSUME MapInv, RestInv, AskedInv, BusyInv, ScanFitsNext, [Next]_vars
  PROVE  BusyInv'
<1>1. CASE TaskReq \/ TaskResp \/ TaskGc
  <2>1. JnlStep /\ mt' = mt
    BY <1>1, TaskJnl DEF TurnOf
  <2>2. CASE JnlKept
    BY <2>1, <2>2 DEF BusyInv, JnlKept, Saving
  <2>3. CASE JnlFills
    BY <2>3 DEF BusyInv, JnlFills
  <2>4. CASE ShutdownAsks
    BY <2>4 DEF BusyInv, ShutdownAsks
  <2>. QED
    BY <2>1, <2>2, <2>3, <2>4 DEF JnlStep
<1>2. CASE TaskMeta
  <2>1. CASE MetaStarts
    BY <2>1 DEF MetaStarts, BusyInv
  <2>2. CASE MetaGoesOn
    BY <2>2 DEF MetaGoesOn, BusyInv
  <2>3. CASE MetaFinishes
    BY <2>3 DEF MetaFinishes, BusyInv, EmptyJnl
  <2>4. CASE MetaOpens
    <3>1. CASE jnl' = jnl
      BY <2>4, <3>1 DEF MetaOpens, BusyInv, Opening, Saving
    <3>2. CASE jnl' = EmptyJnl
      BY <3>2 DEF BusyInv, EmptyJnl
    <3>3. CASE Scanning'
      BY <3>3 DEF ScanFitsNext, ScanFitsJournal, JnlAccepts, BusyInv
    <3>. QED
      BY <2>4, <3>1, <3>2, <3>3 DEF MetaOpens
  <2>5. CASE JnlKept /\ mt' = mt
    BY <2>5 DEF JnlKept, BusyInv, Saving
  <2>. QED
    BY <1>2, <2>1, <2>2, <2>3, <2>4, <2>5, MetaJnl
<1>3. CASE SchedRound \/ Nand \/ Host \/ UNCHANGED vars
  BY <1>3, QuietJnl DEF BusyInv, Saving
<1>4. CASE PowerCycle
  <2>1. ~Saving
    BY <1>4, NoSaveWhenQuiet DEF PowerCycle, RestInv, DownInv
  <2>. QED
    BY <1>4, <2>1 DEF PowerCycle, BusyInv
<1>. QED
  BY <1>1, <1>2, <1>3, <1>4 DEF Next, Task

(* A journal that takes no more entries is about to be saved, in every     *)
(* execution in which the scans after power on fit the journal: without    *)
(* one more request by REQ or GC the save they wait for comes.             *)
THEOREM BusyIsRequestedHolds == Spec /\ []ScanFitsJournal => []BusyIsRequested
<1>1. Init => BusyInv
  BY DEF Init, EmptyJnl, BusyInv
<1>2. IInv /\ AskedInv /\ BusyInv /\ ScanFitsNext /\ [Next]_vars => BusyInv'
  BY BusyInductive DEF IInv
<1>3. BusyInv => BusyIsRequested
  BY DEF BusyInv, BusyIsRequested, Saving
<1>4. ScanFitsNext <=> ScanFitsJournal'
  BY DEF ScanFitsNext
<1>. QED
  BY <1>1, <1>2, <1>3, <1>4, IInvHolds, AskedHolds, PTL DEF Spec

LEMMA FirstCycle ==
  ASSUME [Next]_vars, FirstInv, cycle' = 0
  PROVE  cycle = 0
  BY DEF Next, Task, TaskReq, TaskResp, TaskGc, TaskMeta, SchedRound, RoundWith,
         otherThanSched, Nand, Host, HostWrite, HostRead, HostShutdown, Submit, vars,
         PowerCycle, FirstInv

(* Up to the first power off nothing is assumed: the first start formats   *)
(* and scans no block.                                                     *)
THEOREM BusyIsRequestedFirst == Spec => [](cycle = 0 => BusyIsRequested)
<1> DEFINE First == cycle = 0 => BusyInv
<1>1. Init => First
  BY DEF Init, EmptyJnl, BusyInv
<1>2. IInv /\ AskedInv /\ FirstAlloc /\ FirstAlloc' /\ First /\ [Next]_vars => First'
  <2> SUFFICES ASSUME IInv, AskedInv, FirstAlloc, FirstAlloc', First, [Next]_vars, cycle' = 0
               PROVE  BusyInv'
    OBVIOUS
  <2>1. cycle = 0
    BY FirstCycle DEF FirstAlloc
  <2>2. ScanFitsNext
    BY DEF FirstAlloc, FirstInv, FirstOpen, ScanFitsNext, ScanFitsJournal, Scanning, Phase, Opening
  <2>. QED
    BY <2>1, <2>2, BusyInductive DEF IInv
<1>3. First => (cycle = 0 => BusyIsRequested)
  BY DEF BusyInv, BusyIsRequested, Saving
<1> HIDE DEF First
<1>. QED
  BY <1>1, <1>2, <1>3, IInvHolds, AskedHolds, FirstHolds, PTL DEF Spec

-----------------------------------------------------------------------------
(* What a save writes is the journal it empties.                           *)

NoSudden == "SD_Sudden" \notin Shutdowns

\* A save is asked for once, for a busy journal or for a shutdown, and the one
\* that is asked for is not the one under way.  A request that outlives the
\* power comes of a sudden shutdown, if of any.
SaveRules ==
  /\ Opening => ~gbRequest
  /\ gbRequest => jnl.busy \/ Downing
  /\ Saving => ~gbRequest /\ (jnl.busy \/ Downing)
AskInv ==
  /\ cycle = 0 \/ NoSudden => SaveRules
  /\ NoSudden /\ ~pwr => ~gbRequest

LEMMA TurnKeepsRules ==
  ASSUME RestInv, SaveRules, TurnOf
  PROVE  SaveRules'
<1>1. /\ JnlStep /\ (Opening <=> Opening') /\ (Saving <=> Saving')
      /\ Downing /\ (gbRequest \/ Saving) => Downing'
  BY DEF TurnOf, Opening, Saving
<1> HIDE DEF Downing, Opening, Saving
<1>2. CASE JnlKept
  BY <1>1, <1>2 DEF SaveRules, JnlKept
<1>3. CASE JnlFills
  BY <1>1, <1>3 DEF SaveRules, JnlFills, JnlAccepts
<1>4. CASE ShutdownAsks
  BY <1>1, <1>4, NoSaveWhenQuiet DEF SaveRules, ShutdownAsks
<1>. QED
  BY <1>1, <1>2, <1>3, <1>4 DEF JnlStep

LEMMA MetaKeepsRules ==
  ASSUME SaveRules, TaskMeta
  PROVE  SaveRules'
<1>1. Downing' <=> Downing
  BY MetaJnl
<1> HIDE DEF Downing
<1>2. CASE MetaStarts
  <2>1. ~Opening'
    BY <1>2 DEF MetaStarts, Opening, Saving
  <2>. QED
    BY <1>1, <1>2, <2>1 DEF MetaStarts, SaveRules
<1>3. CASE MetaGoesOn
  <2>1. ~Opening'
    BY <1>3 DEF MetaGoesOn, Opening, Saving
  <2>. QED
    BY <1>1, <1>3, <2>1 DEF MetaGoesOn, SaveRules, JnlKept
<1>4. CASE MetaFinishes
  <2>1. Saving /\ ~Saving' /\ ~Opening'
    BY <1>4 DEF MetaFinishes, Opening, Saving
  <2>. QED
    BY <1>1, <1>4, <2>1 DEF MetaFinishes, SaveRules
<1>5. CASE MetaOpens
  BY <1>1, <1>5 DEF MetaOpens, SaveRules
<1>6. CASE JnlKept /\ mt' = mt
  BY <1>1, <1>6 DEF JnlKept, SaveRules, Opening, Saving
<1>. QED
  BY <1>2, <1>3, <1>4, <1>5, <1>6, MetaJnl

LEMMA AskInductive ==
  ASSUME MapInv, RestInv, AskedInv, cycle \in Nat, AskInv, [Next]_vars
  PROVE  AskInv'
<1>1. CASE TaskReq \/ TaskResp \/ TaskGc
  <2>1. TurnOf /\ cycle' = cycle
    BY <1>1, TaskJnl
  <2>2. (cycle = 0 \/ NoSudden => SaveRules)'
    BY <2>1, TurnKeepsRules DEF AskInv, NoSudden
  <2>3. (NoSudden /\ ~pwr => ~gbRequest)'
    BY <2>1 DEF TurnOf, NoSudden
  <2>. QED
    BY <2>2, <2>3 DEF AskInv
<1>2. CASE TaskMeta
  BY <1>2, MetaJnl, MetaKeepsRules DEF AskInv, NoSudden
<1>3. CASE SchedRound \/ Nand \/ Host \/ UNCHANGED vars
  <2>1. UNCHANGED <<jnl, gbRequest, mt, reqSt, step, cycle>> /\ pwr' = pwr
    BY <1>3, QuietJnl
  <2>. QED
    BY <2>1 DEF AskInv, SaveRules, Opening, Saving, Downing, NoSudden
<1>4. CASE PowerCycle
  <2>1. cycle' # 0 /\ pwr' /\ ~pwr /\ gbRequest' = gbRequest /\ mt' = "Init"
    BY <1>4 DEF PowerCycle
  <2>2. NoSudden => ~gbRequest
    BY <2>1 DEF AskInv
  <2>. QED
    BY <2>1, <2>2 DEF AskInv, SaveRules, Saving, NoSudden
<1>. QED
  BY <1>1, <1>2, <1>3, <1>4 DEF Next, Task

LEMMA AskHolds == Spec => []AskInv
<1>1. Init => AskInv
  BY DEF Init, AskInv, SaveRules, Saving
<1>2. IInv /\ AskedInv /\ FirstAlloc /\ AskInv /\ [Next]_vars => AskInv'
  BY AskInductive DEF IInv, FirstAlloc, FirstInv
<1>. QED
  BY <1>1, <1>2, IInvHolds, AskedHolds, FirstHolds, PTL DEF Spec

\* REQ, REQ_RESP and GC neither issue nor collect a command of META.
Others ==
  /\ nq' = nq \/ \E c : c.cb # "Meta" /\ nq' = nq \o <<c>>
  /\ done'["Meta"] = done["Meta"]

LEMMA OthersKeepMeta ==
  ASSUME IoTypes, Others
  PROVE  Keeps("Meta")
<1>1. ASSUME NEW c \in Elems(nq'), c.cb = "Meta"
      PROVE  c \in Elems(nq)
  <2>1. CASE nq' = nq
    BY <1>1, <2>1
  <2>2. ASSUME NEW d, d.cb # "Meta", nq' = nq \o <<d>>
        PROVE  c \in Elems(nq)
    <3>1. IsSeq(<<d>>) /\ Elems(<<d>>) = {d} /\ IsSeq(nq)
      BY OneFacts DEF IoTypes, GoodCmds
    <3>2. Elems(nq') = Elems(nq) \cup Elems(<<d>>)
      BY <2>2, <3>1, ConcatFacts
    <3>. QED
      BY <1>1, <2>2, <3>1, <3>2
  <2>. QED
    BY <2>1, <2>2 DEF Others
<1>2. Under'["Meta"] \subseteq Under["Meta"]
  BY <1>1, KeysDiffer DEF Under, Others, Elems
<1>. QED
  BY <1>2, SubsetKeeps, KeysDiffer

LEMMA PlainKeys ==
  /\ \A b, w : ReadCmd("Mig", b, w).cb # "Meta"
  /\ \A b, w, p : PgmCmd("Mig", b, w, p).cb # "Meta"
  /\ \A b, w, r : UserCmd(ReadCmd("User", b, w), r).cb # "Meta"
  /\ \A b, w, p, r : UserCmd(PgmCmd("User", b, w, p), r).cb # "Meta"
  /\ \A o, b : EraseCmd(ErbKey(o), b).cb # "Meta"
  BY DEF ReadCmd, PgmCmd, EraseCmd, Cmd, UserCmd, ErbKey

LEMMA ErbOthers ==
  ASSUME IoTypes, NEW o, ErbGoesOn(o)
  PROVE  Others
<1>1. ErbKey(o) # "Meta"
  BY DEF ErbKey
<1>2. CASE ErbErased(o)
  BY <1>1, <1>2, KeysDiffer DEF ErbErased, PopDone, Others, IoTypes
<1>3. CASE ErbRetry(o) \/ ErbWait(o)
  BY <1>3 DEF ErbRetry, ErbWait, ioVars, Others
<1>. QED
  BY <1>2, <1>3 DEF ErbGoesOn

LEMMA ErbStartOthers ==
  ASSUME NEW o, NEW b, NEW trig, ErbStart(o, b, trig), done' = done
  PROVE  Others
  BY PlainKeys DEF ErbStart, Issue, Others

LEMMA ReqStepOthers ==
  ASSUME IoTypes, NEW r, NEW at, ReqStep(r, at)
  PROVE  Others
<1>1. CASE ReqReadMapped(r, at)
  BY <1>1, PlainKeys DEF ReqReadMapped, Issue, Others
<1>2. CASE ReqNeedsBlk(r, at)
  <2>1. done' = done
    BY <1>2 DEF ReqNeedsBlk
  <2>2. CASE ReqMayTake
    BY <1>2, <2>1, <2>2, ErbStartOthers DEF ReqNeedsBlk
  <2>3. CASE ~ReqMayTake
    BY <1>2, <2>1, <2>3 DEF ReqNeedsBlk, Others
  <2>. QED
    BY <2>2, <2>3
<1>3. CASE ReqErasing(r, at)
  BY <1>3, ErbOthers DEF ReqErasing
<1>4. CASE ReqProgram(r, at)
  BY <1>4, PlainKeys DEF ReqProgram, Issue, Others
<1>5. CASE ReqReadUnmapped(r, at) \/ ReqNewBlk(r, at) \/ ReqJnlBusy(r, at)
  BY <1>5 DEF ReqReadUnmapped, ReqNewBlk, ReqJnlBusy, ioVars, Others
<1>6. CASE ShutdownWaitIo(r, at) \/ ShutdownSudden(r, at) \/ ShutdownSave(r, at)
             \/ ShutdownSaving(r, at) \/ ShutdownSaved(r, at)
  BY <1>6 DEF ShutdownWaitIo, ShutdownSudden, ShutdownSave, ShutdownSaving, ShutdownSaved,
              ioVars, Others
<1>. QED
  BY <1>1, <1>2, <1>3, <1>4, <1>5, <1>6 DEF ReqStep

LEMMA TaskOthers ==
  ASSUME IoTypes, TaskReq \/ TaskResp \/ TaskGc
  PROVE  Others
<1>1. CASE TaskReq
  <2>1. CASE ReqWaitOpen \/ ReqOpened \/ ReqIdle
    BY <2>1 DEF ReqWaitOpen, ReqOpened, ReqIdle, ioVars, Others
  <2>. QED
    BY <1>1, <2>1, ReqStepOthers DEF TaskReq, Req_Run
<1>2. CASE TaskResp
  BY <1>2, KeysDiffer DEF TaskResp, ReqResp_Run, RespWait, RespDone, PopDone, ioVars, Others, IoTypes
<1>3. CASE TaskGc
  <2>1. CASE GcGetDst
    BY <2>1, ErbStartOthers DEF GcGetDst
  <2>2. CASE GcErsDst
    BY <2>2, ErbOthers DEF GcErsDst
  <2>3. CASE GcReadMoved
    <3>1. done'["Meta"] = done["Meta"]
      BY <2>3, KeysDiffer DEF GcReadMoved, PopDone, IoTypes
    <3>. QED
      BY <2>3, <3>1, PlainKeys DEF GcReadMoved, Issue, Others
  <2>4. CASE GcReadNext
    BY <2>4, PlainKeys DEF GcReadNext, Issue, Others
  <2>5. CASE GcPgmDone \/ GcReadDropped \/ GcStop
    BY <2>5, KeysDiffer DEF GcPgmDone, GcReadDropped, GcStop, PopDone, Others, IoTypes
  <2>6. CASE GcWaitOpen \/ GcResume \/ GcOpened \/ GcWaitReq \/ GcErsDstDone \/ GcDstFull
               \/ GcNewSrc \/ GcSrcDone \/ GcMoveWait
    BY <2>6 DEF GcWaitOpen, GcResume, GcOpened, GcWaitReq, GcErsDstDone, GcDstFull, GcNewSrc,
                GcSrcDone, GcMoveWait, ioVars, Others
  <2>. QED
    BY <1>3, <2>1, <2>2, <2>3, <2>4, <2>5, <2>6 DEF TaskGc, GC_Run, GcMove
<1>. QED
  BY <1>1, <1>2, <1>3

SavedInv == mt = "SaveProgram" => \A c \in Pgms("Meta") : c.pg.ent = jnl.ent

LEMMA SavedFrame ==
  ASSUME SavedInv, Keeps("Meta"), mt' = mt, mt = "SaveProgram" => jnl' = jnl
  PROVE  SavedInv'
  BY DEF SavedInv, Keeps

LEMMA PgmSaved == MetaPgm.pg.ent = jnl.ent
  BY DEF MetaPgm, PgmCmd, Cmd, SavedPage

\* The page META issues is the only one under way.
LEMMA SaveIssues ==
  ASSUME RestInv, Pgms("Meta") = {}, jnl' = jnl, NEW P, Turns(<<MetaPgm>>, P)
  PROVE  SavedInv'
<1>1. IoTypes /\ "Meta" \in CbKey
  BY KeysDiffer DEF RestInv
<1>2. Elems(<<MetaPgm>>) = {MetaPgm}
  BY OneFacts
<1>3. Pgms("Meta")' \subseteq Pgms("Meta")
                        \cup {c \in Elems(<<MetaPgm>>) : c.cb = "Meta" /\ c.op = "PGM"}
  BY <1>1, TurnWrites
<1>4. Pgms("Meta")' \subseteq {MetaPgm}
  BY <1>2, <1>3
<1> HIDE DEF MetaPgm
<1>. QED
  BY <1>4, PgmSaved DEF SavedInv

LEMMA SavedInductive ==
  ASSUME MapInv, RestInv, AskedInv, AskInv, SavedInv, cycle = 0 \/ NoSudden, [Next]_vars
  PROVE  SavedInv'
<1>0. IoTypes /\ "Meta" \in CbKey /\ SaveRules
  BY KeysDiffer DEF RestInv, AskInv
<1>1. CASE TaskReq \/ TaskResp \/ TaskGc
  <2>1. JnlStep /\ mt' = mt
    BY <1>1, TaskJnl DEF TurnOf
  <2>2. Keeps("Meta")
    BY <1>0, <1>1, TaskOthers, OthersKeepMeta
  <2>3. ASSUME mt = "SaveProgram"
        PROVE  jnl' = jnl
    <3>1. jnl.busy \/ Downing
      BY <1>0, <2>3 DEF SaveRules, Saving
    <3>2. ~JnlFills
      BY <3>1 DEF JnlFills, JnlAccepts
    <3>. QED
      BY <2>1, <3>2 DEF JnlStep, JnlKept, ShutdownAsks
  <2>. QED
    BY <2>1, <2>2, <2>3, SavedFrame
<1>2. CASE TaskMeta
  <2>1. CASE MetaIdle \/ MetaSaveWait
    <3>1. UNCHANGED <<ioVars, jnl, mt>>
      BY <2>1 DEF MetaIdle, MetaSaveWait, jnlVars
    <3>2. Keeps("Meta")
      BY <1>0, <3>1, QuietKeeps
    <3>. QED
      BY <3>1, <3>2, SavedFrame
  <2>2. CASE MetaSaveStart
    <3>1. CASE MetaNeedsErase
      BY <2>2, <3>1 DEF MetaSaveStart, SavedInv
    <3>2. CASE ~MetaNeedsErase
      <4>1. mt = "Ready" /\ Issue(<<MetaPgm>>) /\ UNCHANGED <<die, done, jnl>>
        BY <2>2, <3>2 DEF MetaSaveStart
      <4>2. Cnt["Meta"]["PGM"] = 0
        BY <4>1 DEF RestInv, MetaInv, SaveInv, Cnts
      <4>3. Pgms("Meta") = {}
        BY <1>0, <4>2, NoPgms
      <4>4. Turns(<<MetaPgm>>, {})
        BY <1>0, <4>1, SavedPageGood, IssueTurn DEF RestInv
      <4>. QED
        BY <4>1, <4>3, <4>4, SaveIssues
    <3>. QED
      BY <3>1, <3>2
  <2>3. CASE MetaSaveErased
    <3>1. mt = "SaveErase" /\ Issue(<<MetaPgm>>) /\ HasDone("Meta") /\ PopDone("Meta")
          /\ die' = die /\ jnl' = jnl
      BY <2>3 DEF MetaSaveErased, jnlVars
    <3>2. Cnt["Meta"]["PGM"] = 0
      BY <3>1 DEF RestInv, MetaInv, SaveInv, Cnts
    <3>3. Pgms("Meta") = {}
      BY <1>0, <3>2, NoPgms
    <3>4. Turns(<<MetaPgm>>, {"Meta"})
      BY <1>0, <3>1, SavedPageGood, PopIssueTurn DEF RestInv
    <3>. QED
      BY <3>1, <3>3, <3>4, SaveIssues
  <2>4. CASE MetaSaveDone
    BY <2>4 DEF MetaSaveDone, SavedInv
  <2>5. CASE MetaOpen
    <3>1. ~Saving'
      BY <2>5 DEF Saving, MetaOpen, MetaInit, BlkScanIssue, BlkScanPop, BlkScanReturn,
         MetaFormat, BlkScanDone, PageScanPop, PageScanReturn, PageScanDone, MtLoadPop,
         MtLoadReturn, MtLoadDone, ScanPop, ScanReturn, GcScanDone, ScanOver, UserScanDone,
         Phase, ScanPhase
    <3>. QED
      BY <3>1 DEF SavedInv, Saving
  <2>. QED
    BY <1>2, <2>1, <2>2, <2>3, <2>4, <2>5 DEF TaskMeta, MetaSave
<1>3. CASE Nand
  <2>1. Keeps("Meta")
    BY <1>0, <1>3, NandKeepsCmds DEF Nand
  <2>. QED
    BY <1>3, <2>1, QuietJnl, SavedFrame
<1>4. CASE SchedRound \/ Host \/ UNCHANGED vars
  <2>1. UNCHANGED ioVars
    BY <1>4 DEF SchedRound, RoundWith, otherThanSched, Host, HostWrite, HostRead, HostShutdown,
                Submit, vars
  <2>2. Keeps("Meta")
    BY <1>0, <2>1, QuietKeeps
  <2>. QED
    BY <1>4, <2>2, QuietJnl, SavedFrame
<1>5. CASE PowerCycle
  BY <1>5 DEF PowerCycle, SavedInv
<1>. QED
  BY <1>1, <1>2, <1>3, <1>4, <1>5 DEF Next, Task

LEMMA SavedKept ==
  ASSUME RestInv, SavedInv
  PROVE  SavedIsJournal
<1> SUFFICES ASSUME mt = "SaveProgram"
             PROVE  /\ \A i \in DOMAIN nq : nq[i].cb = "Meta" => nq[i].pg.ent = jnl.ent
                    /\ \A i \in DOMAIN done["Meta"] : done["Meta"][i].pg.ent = jnl.ent
  BY DEF SavedIsJournal
<1>1. IoTypes /\ "Meta" \in CbKey
  BY KeysDiffer DEF RestInv
<1>2. Cnt["Meta"]["READ"] = 0 /\ Cnt["Meta"]["ERB"] = 0
  BY DEF RestInv, MetaInv, SaveInv, Cnts
<1>3. ASSUME NEW c \in Under["Meta"]
      PROVE  c.pg.ent = jnl.ent
  <2>1. c.op # "READ" /\ c.op # "ERB"
    BY <1>1, <1>2, CntZero DEF Ops
  <2>2. c.op \in Ops
    BY <1>1 DEF Under, IoTypes, GoodCmds, GoodCmd
  <2>3. c \in Pgms("Meta")
    BY <2>1, <2>2 DEF Pgms, Ops
  <2>. QED
    BY <2>3 DEF SavedInv
<1>4. /\ \A i \in DOMAIN nq : nq[i].cb = "Meta" => nq[i] \in Under["Meta"]
      /\ \A i \in DOMAIN done["Meta"] : done["Meta"][i] \in Under["Meta"]
  BY <1>1 DEF Under, Elems
<1> HIDE DEF Under
<1>. QED
  BY <1>3, <1>4

LEMMA SavedHolds == Spec => [](cycle = 0 \/ NoSudden => SavedInv)
<1> DEFINE Guarded == cycle = 0 \/ NoSudden => SavedInv
<1>1. Init => Guarded
  BY DEF Init, SavedInv
<1>2. IInv /\ AskedInv /\ FirstAlloc /\ AskInv /\ Guarded /\ [Next]_vars => Guarded'
  <2> SUFFICES ASSUME IInv, AskedInv, FirstAlloc, AskInv, Guarded, [Next]_vars,
                      cycle' = 0 \/ NoSudden
               PROVE  SavedInv'
    BY DEF NoSudden
  <2>1. cycle = 0 \/ NoSudden
    BY FirstCycle DEF FirstAlloc
  <2>. QED
    BY <2>1, SavedInductive DEF IInv
<1> HIDE DEF Guarded
<1>3. Spec => []Guarded
  BY <1>1, <1>2, IInvHolds, AskedHolds, AskHolds, FirstHolds, PTL DEF Spec
<1>. QED
  BY <1>3 DEF Guarded

(* What a save writes is all of the journal it empties when it is done, if *)
(* the host never shuts down suddenly, and up to the first power off in    *)
(* any case: nobody adds an entry while the page is under way              *)
(* (page_meta.cpp:341, 940).                                               *)
THEOREM SavedIsJournalHolds == Spec => [](cycle = 0 \/ NoSudden => SavedIsJournal)
<1>1. IInv /\ (cycle = 0 \/ NoSudden => SavedInv) => (cycle = 0 \/ NoSudden => SavedIsJournal)
  BY SavedKept DEF IInv
<1>. QED
  BY <1>1, IInvHolds, SavedHolds, PTL

-----------------------------------------------------------------------------
(* The commands of a move, in the order in which GC will collect them.     *)

\* Up to i the reads, from there on the programs and erases.
Cut(s, i) == {j \in DOMAIN s : s[j].cb = "Mig" /\ (j <= i <=> s[j].op = "READ")}
CutNum(s, i) == Cardinality(Cut(s, i))

LEMMA CutType ==
  ASSUME NEW s, IsSeq(s), NEW i \in Int
  PROVE  /\ IsFiniteSet(Cut(s, i)) /\ CutNum(s, i) \in Nat
         /\ (\A c \in Elems(s) : c.cb # "Mig") => CutNum(s, i) = 0
<1>1. Len(s) \in Nat /\ DOMAIN s = 1 .. Len(s)
  BY SeqFacts
<1>2. IsFiniteSet(1 .. Len(s)) /\ Cut(s, i) \subseteq 1 .. Len(s)
  BY <1>1, FS_Interval DEF Cut
<1>3. IsFiniteSet(Cut(s, i))
  BY <1>2, FS_Subset
<1>4. (\A c \in Elems(s) : c.cb # "Mig") => Cut(s, i) = {}
  BY DEF Cut, Elems
<1>. QED
  BY <1>3, <1>4, FS_CardinalityType, FS_EmptySet DEF CutNum

LEMMA CutOne ==
  ASSUME NEW c, NEW i \in Int
  PROVE  CutNum(<<c>>, i) = IF c.cb = "Mig" /\ (1 <= i <=> c.op = "READ") THEN 1 ELSE 0
<1>1. <<c>>[1] = c /\ DOMAIN <<c>> = {1}
  OBVIOUS
<1>2. Cut(<<c>>, i) = IF c.cb = "Mig" /\ (1 <= i <=> c.op = "READ") THEN {1} ELSE {}
  BY <1>1 DEF Cut
<1>. QED
  BY <1>2, FS_Singleton, FS_EmptySet DEF CutNum

\* Before the first and behind the last command the cut is at the end.
LEMMA CutEnds ==
  ASSUME NEW s, IsSeq(s), NEW i \in Int
  PROVE  /\ i <= 0 => CutNum(s, i) = CutNum(s, 0)
         /\ i >= Len(s) => CutNum(s, i) = CutNum(s, Len(s))
<1>1. Len(s) \in Nat /\ DOMAIN s = 1 .. Len(s)
  BY SeqFacts
<1>2. i <= 0 => Cut(s, i) = Cut(s, 0)
  <2>1. i <= 0 => \A j \in DOMAIN s : (j <= i <=> j <= 0)
    BY <1>1
  <2>. QED
    BY <2>1 DEF Cut
<1>3. i >= Len(s) => Cut(s, i) = Cut(s, Len(s))
  <2>1. i >= Len(s) => \A j \in DOMAIN s : (j <= i <=> j <= Len(s))
    BY <1>1
  <2>. QED
    BY <2>1 DEF Cut
<1>. QED
  BY <1>2, <1>3 DEF CutNum

\* At the two ends it counts the reads, or all but the reads.
LEMMA CutCounts ==
  ASSUME NEW s, IsSeq(s), \A c \in Elems(s) : c.op \in Ops
  PROVE  /\ CutNum(s, Len(s)) = Num(s, {"Mig"}, "READ")
         /\ CutNum(s, 0) = Num(s, {"Mig"}, "PGM") + Num(s, {"Mig"}, "ERB")
<1>1. Len(s) \in Nat /\ DOMAIN s = 1 .. Len(s)
  BY SeqFacts
<1>2. \A j \in DOMAIN s : j <= Len(s) /\ ~(j <= 0) /\ s[j].op \in {"READ", "PGM", "ERB"}
  BY <1>1 DEF Elems, Ops
<1>3. Cut(s, Len(s)) = Hits(s, {"Mig"}, "READ")
  BY <1>2 DEF Cut, Hits
<1> DEFINE P == Hits(s, {"Mig"}, "PGM")
           E == Hits(s, {"Mig"}, "ERB")
<1>4. Cut(s, 0) = P \cup E /\ P \cap E = {}
  BY <1>2 DEF Cut, Hits
<1>5. IsFiniteSet(P) /\ IsFiniteSet(E)
  BY NumType
<1> HIDE DEF P, E
<1>6. Cardinality(P \cup E) = Cardinality(P) + Cardinality(E)
  <2>1. /\ Cardinality(P \cup E) = Cardinality(P) + Cardinality(E) - Cardinality(P \cap E)
        /\ Cardinality(P) \in Nat /\ Cardinality(E) \in Nat
    BY <1>5, FS_Union, FS_CardinalityType
  <2>2. Cardinality(P \cap E) = 0
    BY <1>4, FS_EmptySet
  <2>. QED
    BY <2>1, <2>2
<1>7. CutNum(s, 0) = Cardinality(P) + Cardinality(E)
  <2>1. Cardinality(Cut(s, 0)) = Cardinality(P \cup E)
    BY <1>4
  <2>. QED
    BY <2>1, <1>6 DEF CutNum
<1>. QED
  BY <1>3, <1>7 DEF CutNum, Num, P, E

\* Two queues one after the other.
LEMMA CutConcat ==
  ASSUME NEW s, NEW t, IsSeq(s), IsSeq(t), NEW i \in Int
  PROVE  CutNum(s \o t, i) = CutNum(s, i) + CutNum(t, i - Len(s))
<1> DEFINE u == s \o t
           n == Len(s)
           m == Len(t)
           A == Cut(s, i)
           T == Cut(t, i - n)
           Good(c, j) == c.cb = "Mig" /\ (j <= i <=> c.op = "READ")
           B == {j \in n + 1 .. n + m : Good(t[j - n], j)}
           f == [j \in T |-> j + n]
<1>1. /\ n \in Nat /\ DOMAIN s = 1 .. n
      /\ m \in Nat /\ DOMAIN t = 1 .. m
  BY SeqFacts
<1>2. /\ DOMAIN u = 1 .. n + m
      /\ \A j \in 1 .. n + m : u[j] = IF j <= n THEN s[j] ELSE t[j - n]
  <2>1. s \in Seq(Elems(s) \cup Elems(t)) /\ t \in Seq(Elems(s) \cup Elems(t))
    BY SeqMonotonic DEF IsSeq
  <2>2. /\ u \in Seq(Elems(s) \cup Elems(t)) /\ Len(u) = n + m
        /\ \A j \in 1 .. n + m : u[j] = IF j <= n THEN s[j] ELSE t[j - n]
    BY <2>1, ConcatProperties
  <2>. QED
    BY <2>2, SeqOfAny, SeqFacts
<1>3. IsFiniteSet(A) /\ IsFiniteSet(T)
  <2>1. i - n \in Int
    BY <1>1
  <2>. QED
    BY <2>1, CutType
<1>4. A \subseteq 1 .. n /\ T \subseteq 1 .. m
  BY <1>1 DEF Cut
<1>5. \A j \in 1 .. m : j \in T <=> Good(t[j], j + n)
  <2>1. ASSUME NEW j \in 1 .. m
        PROVE  j <= i - n <=> j + n <= i
    BY <1>1
  <2>. QED
    BY <1>1, <2>1 DEF Cut
<1>6. f \in Bijection(T, B)
  <2>1. f \in [T -> B]
    <3>1. SUFFICES ASSUME NEW j \in T
                   PROVE  j + n \in B
      OBVIOUS
    <3>2. j \in 1 .. m /\ Good(t[j], j + n)
      BY <1>4, <1>5
    <3>3. j + n \in n + 1 .. n + m /\ (j + n) - n = j
      BY <1>1, <3>2
    <3>. QED
      BY <3>2, <3>3
  <2>2. \A j, k \in T : f[j] = f[k] => j = k
    <3>1. SUFFICES ASSUME NEW j \in T, NEW k \in T, j + n = k + n
                   PROVE  j = k
      OBVIOUS
    <3>2. j \in Int /\ k \in Int
      BY <1>4
    <3> HIDE DEF T, n
    <3>. QED
      BY <3>1, <3>2, <1>1
  <2>3. \A b \in B : \E j \in T : f[j] = b
    <3>1. SUFFICES ASSUME NEW b \in B
                   PROVE  \E j \in T : f[j] = b
      OBVIOUS
    <3>2. b \in n + 1 .. n + m /\ Good(t[b - n], b)
      OBVIOUS
    <3>3. b - n \in 1 .. m /\ (b - n) + n = b
      BY <1>1, <3>2
    <3>4. b - n \in T
      BY <1>5, <3>2, <3>3
    <3>. QED
      BY <3>3, <3>4
  <2>. QED
    BY <2>1, <2>2, <2>3 DEF Bijection, Injection, Surjection, IsInjective
<1>7. Cut(u, i) = A \cup B
  <2>1. \A j : j \in DOMAIN u <=> j \in 1 .. n \/ j \in n + 1 .. n + m
    BY <1>1, <1>2
  <2>2. \A j \in 1 .. n : u[j] = s[j]
    BY <1>1, <1>2
  <2>3. \A j \in n + 1 .. n + m : u[j] = t[j - n]
    BY <1>1, <1>2
  <2> HIDE DEF u
  <2>. QED
    BY <2>1, <2>2, <2>3, <1>1 DEF Cut
<1>8. A \cap B = {}
  BY <1>1, <1>4
<1> HIDE DEF u, n, m, A, T, B, f
<1>9. IsFiniteSet(B) /\ Cardinality(B) = Cardinality(T)
  BY <1>3, <1>6, FS_Bijection DEF ExistsBijection
<1>10. /\ Cardinality(A \cup B) = Cardinality(A) + Cardinality(B) - Cardinality({})
       /\ Cardinality({}) = 0 /\ Cardinality(A) \in Nat /\ Cardinality(B) \in Nat
  BY <1>3, <1>8, <1>9, FS_Union, FS_EmptySet, FS_CardinalityType
<1>11. Cardinality(Cut(u, i)) = Cardinality(A) + Cardinality(T)
  BY <1>7, <1>9, <1>10
<1>. QED
  BY <1>11 DEF CutNum, u, A, T, n

\* Both queues, the completed commands first.
Joint(d, q, i) == CutNum(d, i) + CutNum(q, i - Len(d))

LEMMA JointType ==
  ASSUME NEW d, IsSeq(d), NEW q, IsSeq(q), NEW i \in Int
  PROVE  /\ i - Len(d) \in Int /\ CutNum(d, i) \in Nat /\ CutNum(q, i - Len(d)) \in Nat
         /\ Joint(d, q, i) \in Nat
<1>1. i - Len(d) \in Int
  BY SeqFacts
<1>2. CutNum(d, i) \in Nat /\ CutNum(q, i - Len(d)) \in Nat
  BY <1>1, CutType
<1>. QED
  BY <1>1, <1>2 DEF Joint

LEMMA JointLow ==
  ASSUME NEW d, IsSeq(d), NEW q, IsSeq(q), NEW i \in Int, i <= 0
  PROVE  Joint(d, q, i) = Joint(d, q, 0)
<1>1. Len(d) \in Nat
  BY SeqFacts
<1>2. CutNum(d, i) = CutNum(d, 0)
  BY CutEnds
<1>3. i - Len(d) \in Int /\ i - Len(d) <= 0 /\ 0 - Len(d) \in Int /\ 0 - Len(d) <= 0
  BY <1>1
<1>4. CutNum(q, i - Len(d)) = CutNum(q, 0) /\ CutNum(q, 0 - Len(d)) = CutNum(q, 0)
  BY <1>3, CutEnds
<1>. QED
  BY <1>2, <1>4 DEF Joint

\* A command more, at the end.
LEMMA JointPlus ==
  ASSUME NEW d, IsSeq(d), NEW q, IsSeq(q), NEW t, IsSeq(t), NEW i \in Int
  PROVE  /\ i - Len(d) - Len(q) \in Int /\ CutNum(t, i - Len(d) - Len(q)) \in Nat
         /\ Joint(d, q \o t, i) = Joint(d, q, i) + CutNum(t, i - Len(d) - Len(q))
<1>1. Len(d) \in Nat /\ Len(q) \in Nat
  BY SeqFacts
<1>2. i - Len(d) \in Int /\ i - Len(d) - Len(q) \in Int
  BY <1>1
<1>3. CutNum(q \o t, i - Len(d)) = CutNum(q, i - Len(d)) + CutNum(t, i - Len(d) - Len(q))
  BY <1>2, CutConcat
<1>4. CutNum(d, i) \in Nat /\ CutNum(q, i - Len(d)) \in Nat
      /\ CutNum(t, i - Len(d) - Len(q)) \in Nat
  BY <1>2, CutType
<1>. QED
  BY <1>2, <1>3, <1>4 DEF Joint

\* A command less, at the head.
LEMMA JointTail ==
  ASSUME NEW d, IsSeq(d), d # <<>>, NEW q, IsSeq(q), NEW i \in Int
  PROVE  /\ CutNum(<<Head(d)>>, i + 1) \in Nat
         /\ Joint(d, q, i + 1) = CutNum(<<Head(d)>>, i + 1) + Joint(Tail(d), q, i)
<1> DEFINE h == <<Head(d)>>
           r == Tail(d)
<1>1. IsSeq(r) /\ Len(r) = Len(d) - 1 /\ Len(d) \in Nat
  BY TailFacts, SeqFacts
<1>2. IsSeq(h) /\ Len(h) = 1
  BY OneFacts
<1>3. d = h \o r
  BY DEF IsSeq
<1> HIDE DEF h, r
<1>4. i + 1 \in Int /\ (i + 1) - Len(h) = i /\ (i + 1) - Len(d) = i - Len(r)
      /\ i - Len(r) \in Int
  BY <1>1, <1>2
<1>5. CutNum(d, i + 1) = CutNum(h, i + 1) + CutNum(r, i)
  BY <1>1, <1>2, <1>3, <1>4, CutConcat
<1>6. CutNum(h, i + 1) \in Nat /\ CutNum(r, i) \in Nat /\ CutNum(q, i - Len(r)) \in Nat
  BY <1>1, <1>2, <1>4, CutType
<1>7. Joint(d, q, i + 1) = CutNum(h, i + 1) + Joint(r, q, i)
  BY <1>4, <1>5, <1>6 DEF Joint
<1>. QED
  BY <1>6, <1>7 DEF h, r

\* The head of the second queue goes to the end of the first.
LEMMA JointMoves ==
  ASSUME NEW d, IsSeq(d), NEW q, IsSeq(q), q # <<>>, NEW i \in Int,
         NEW a, a.cb = Head(q).cb, a.op = Head(q).op
  PROVE  Joint(Append(d, a), Tail(q), i) = Joint(d, q, i)
<1> DEFINE h == <<Head(q)>>
           r == Tail(q)
           b == <<a>>
<1>1. IsSeq(r) /\ IsSeq(h) /\ Len(h) = 1 /\ IsSeq(b)
  BY TailFacts, OneFacts
<1>2. q = h \o r
  BY DEF IsSeq
<1>3. Append(d, a) = d \o b /\ Len(Append(d, a)) = Len(d) + 1
  <2>1. d \in Seq(Elems(d) \cup {a})
    BY SeqMonotonic DEF IsSeq
  <2>2. Append(d, a) = d \o b
    BY <2>1
  <2>. QED
    BY <2>2, AppendFacts
<1>4. Len(d) \in Nat
  BY SeqFacts
<1>5. i - Len(d) \in Int /\ i - (Len(d) + 1) \in Int /\ i - (Len(d) + 1) = (i - Len(d)) - 1
  BY <1>4
<1>6. CutNum(b, i - Len(d)) = CutNum(h, i - Len(d))
  BY <1>5, CutOne
<1> HIDE DEF h, r, b
<1>7. CutNum(Append(d, a), i) = CutNum(d, i) + CutNum(b, i - Len(d))
  BY <1>1, <1>3, CutConcat
<1>8. CutNum(q, i - Len(d)) = CutNum(h, i - Len(d)) + CutNum(r, i - (Len(d) + 1))
  BY <1>1, <1>2, <1>5, CutConcat
<1>9. CutNum(d, i) \in Nat /\ CutNum(h, i - Len(d)) \in Nat /\ CutNum(r, i - (Len(d) + 1)) \in Nat
  BY <1>1, <1>5, CutType
<1>10. Joint(Append(d, a), r, i) = Joint(d, q, i)
  BY <1>3, <1>6, <1>7, <1>8, <1>9 DEF Joint
<1>. QED
  BY <1>10 DEF r

\* Behind both queues it counts the reads.
LEMMA JointReads ==
  ASSUME NEW d, GoodCmds(d), NEW q, GoodCmds(q), NEW i \in Int, i >= Len(d) + Len(q)
  PROVE  Joint(d, q, i) = Num(d, {"Mig"}, "READ") + Num(q, {"Mig"}, "READ")
<1>1. IsSeq(d) /\ IsSeq(q) /\ Len(d) \in Nat /\ Len(q) \in Nat
  BY SeqFacts DEF GoodCmds
<1>2. i >= Len(d) /\ i - Len(d) \in Int /\ i - Len(d) >= Len(q)
  BY <1>1
<1>3. CutNum(d, i) = CutNum(d, Len(d)) /\ CutNum(q, i - Len(d)) = CutNum(q, Len(q))
  BY <1>1, <1>2, CutEnds
<1>4. (\A c \in Elems(d) : c.op \in Ops) /\ (\A c \in Elems(q) : c.op \in Ops)
  BY DEF GoodCmds, GoodCmd
<1>5. CutNum(d, Len(d)) = Num(d, {"Mig"}, "READ") /\ CutNum(q, Len(q)) = Num(q, {"Mig"}, "READ")
  BY <1>1, <1>4, CutCounts
<1>. QED
  BY <1>3, <1>5 DEF Joint

\* Before both queues it counts the programs and erases.
LEMMA JointWrites ==
  ASSUME NEW d, GoodCmds(d), NEW q, GoodCmds(q)
  PROVE  Joint(d, q, 0) = Num(d, {"Mig"}, "PGM") + Num(d, {"Mig"}, "ERB")
                            + Num(q, {"Mig"}, "PGM") + Num(q, {"Mig"}, "ERB")
<1>1. IsSeq(d) /\ IsSeq(q) /\ Len(d) \in Nat
  BY SeqFacts DEF GoodCmds
<1>2. 0 - Len(d) \in Int /\ 0 - Len(d) <= 0
  BY <1>1
<1>3. CutNum(q, 0 - Len(d)) = CutNum(q, 0)
  BY <1>1, <1>2, CutEnds
<1>4. (\A c \in Elems(d) : c.op \in Ops) /\ (\A c \in Elems(q) : c.op \in Ops)
  BY DEF GoodCmds, GoodCmd
<1>5. /\ CutNum(d, 0) = Num(d, {"Mig"}, "PGM") + Num(d, {"Mig"}, "ERB")
      /\ CutNum(q, 0) = Num(q, {"Mig"}, "PGM") + Num(q, {"Mig"}, "ERB")
  BY <1>1, <1>4, CutCounts
<1>6. /\ Num(d, {"Mig"}, "PGM") \in Nat /\ Num(d, {"Mig"}, "ERB") \in Nat
      /\ Num(q, {"Mig"}, "PGM") \in Nat /\ Num(q, {"Mig"}, "ERB") \in Nat
  BY <1>1, NumType
<1>. QED
  BY <1>3, <1>5, <1>6 DEF Joint

-----------------------------------------------------------------------------
(* Wherever the commands of GC are cut, the reads before the cut and the   *)
(* programs and erases behind it are no more than the reads of a move: each *)
(* of those programs is of a page that was read under the same limit.      *)

MoveOrder == \A i \in Int : Joint(done["Mig"], nq, i) <= MAX_GC_READ

LEMMA BothQueues ==
  ASSUME IoTypes
  PROVE  /\ "Mig" \in CbKey /\ GoodCmds(done["Mig"]) /\ GoodCmds(nq)
         /\ IsSeq(done["Mig"]) /\ IsSeq(nq)
         /\ \A i \in Int : Joint(done["Mig"], nq, i) \in Nat
<1>1. "Mig" \in CbKey
  BY KeysDiffer
<1>2. GoodCmds(done["Mig"]) /\ GoodCmds(nq)
  BY <1>1 DEF IoTypes
<1>3. IsSeq(done["Mig"]) /\ IsSeq(nq)
  BY <1>2 DEF GoodCmds
<1>. QED
  BY <1>1, <1>2, <1>3, JointType

\* Nothing of k is issued or collected.
KeyRests(k) ==
  /\ done'[k] = done[k]
  /\ \E t : IsSeq(t) /\ (\A c \in Elems(t) : c.cb # k) /\ nq' = nq \o t

MigRests == KeyRests("Mig")

LEMMA OrderRests ==
  ASSUME IoTypes, MoveOrder, MigRests
  PROVE  MoveOrder'
<1>1. PICK t : IsSeq(t) /\ (\A c \in Elems(t) : c.cb # "Mig") /\ nq' = nq \o t
  BY DEF MigRests, KeyRests
<1>2. IsSeq(done["Mig"]) /\ IsSeq(nq) /\ \A i \in Int : Joint(done["Mig"], nq, i) \in Nat
  BY BothQueues
<1>3. ASSUME NEW i \in Int
      PROVE  Joint(done'["Mig"], nq', i) = Joint(done["Mig"], nq, i)
  <2>1. /\ i - Len(done["Mig"]) - Len(nq) \in Int
        /\ Joint(done["Mig"], nq \o t, i)
             = Joint(done["Mig"], nq, i) + CutNum(t, i - Len(done["Mig"]) - Len(nq))
    BY <1>1, <1>2, JointPlus
  <2>2. CutNum(t, i - Len(done["Mig"]) - Len(nq)) = 0
    BY <1>1, <2>1, CutType
  <2>3. Joint(done["Mig"], nq \o t, i) = Joint(done["Mig"], nq, i)
    BY <1>2, <2>1, <2>2
  <2>. QED
    BY <1>1, <2>3 DEF MigRests, KeyRests
<1>. QED
  BY <1>3 DEF MoveOrder

LEMMA QuietKey ==
  ASSUME IoTypes, UNCHANGED <<nq, done>>, NEW k
  PROVE  KeyRests(k)
<1>1. IsSeq(<<>>) /\ Elems(<<>>) = {}
  BY NoneFacts
<1>2. nq \o <<>> = nq
  BY SeqPlusNone, BothQueues
<1>. QED
  BY <1>1, <1>2 DEF KeyRests

LEMMA QuietMig ==
  ASSUME IoTypes, UNCHANGED <<nq, done>>
  PROVE  MigRests
  BY QuietKey DEF MigRests

LEMMA OneKey ==
  ASSUME NEW k, NEW c, c.cb # k, Issue(<<c>>), done'[k] = done[k]
  PROVE  KeyRests(k)
<1>1. IsSeq(<<c>>) /\ Elems(<<c>>) = {c}
  BY OneFacts
<1>. QED
  BY <1>1 DEF KeyRests, Issue

LEMMA OneMig ==
  ASSUME NEW c, c.cb # "Mig", Issue(<<c>>), done'["Mig"] = done["Mig"]
  PROVE  MigRests
  BY OneKey DEF MigRests

\* The head of GC's queue is collected.
LEMMA OrderPops ==
  ASSUME IoTypes, MoveOrder, HasDone("Mig"), PopDone("Mig"), nq' = nq
  PROVE  MoveOrder'
<1>1. /\ "Mig" \in CbKey /\ IsSeq(done["Mig"]) /\ IsSeq(nq)
  BY BothQueues
<1>2. done["Mig"] # <<>> /\ done'["Mig"] = Tail(done["Mig"])
  BY <1>1 DEF HasDone, PopDone, IoTypes
<1>3. ASSUME NEW i \in Int
      PROVE  Joint(done'["Mig"], nq', i) <= MAX_GC_READ
  <2>1. /\ CutNum(<<Head(done["Mig"])>>, i + 1) \in Nat
        /\ Joint(done["Mig"], nq, i + 1)
             = CutNum(<<Head(done["Mig"])>>, i + 1) + Joint(Tail(done["Mig"]), nq, i)
    BY <1>1, <1>2, JointTail
  <2>2. IsSeq(Tail(done["Mig"]))
    BY <1>1, <1>2, TailFacts
  <2>3. Joint(Tail(done["Mig"]), nq, i) \in Nat
    BY <1>1, <2>2, JointType
  <2>4. Joint(done["Mig"], nq, i + 1) <= MAX_GC_READ
    BY DEF MoveOrder
  <2>5. Joint(Tail(done["Mig"]), nq, i) <= MAX_GC_READ
    BY <2>1, <2>3, <2>4, GcAssumption
  <2>. QED
    BY <1>2, <2>5
<1>. QED
  BY <1>3 DEF MoveOrder

\* A page read is programmed.
LEMMA OrderMoved ==
  ASSUME IoTypes, MoveOrder, HasDone("Mig"), PopDone("Mig"), DoneHead("Mig").op = "READ",
         NEW c, c.cb = "Mig", c.op = "PGM", Issue(<<c>>)
  PROVE  MoveOrder'
<1> DEFINE d == done["Mig"]
           h == Head(d)
           r == Tail(d)
           p == <<c>>
<1>1. "Mig" \in CbKey /\ IsSeq(d) /\ IsSeq(nq) /\ \A e \in Elems(d) : e.cb = "Mig"
  BY BothQueues DEF IoTypes
<1>2. d # <<>> /\ done'["Mig"] = r /\ nq' = nq \o p
  BY <1>1 DEF HasDone, PopDone, IoTypes, Issue
<1>3. IsSeq(r) /\ Elems(d) = {h} \cup Elems(r) /\ Len(r) \in Nat /\ Len(nq) \in Nat
  BY <1>1, <1>2, TailFacts, SeqFacts
<1>4. h.cb = "Mig" /\ h.op = "READ"
  BY <1>1, <1>3 DEF DoneHead
<1>5. IsSeq(p) /\ IsSeq(nq \o p)
  BY <1>1, OneFacts, ConcatFacts
<1>6. \A j \in Int : CutNum(<<h>>, j) = IF 1 <= j THEN 1 ELSE 0
  BY <1>4, CutOne
<1>7. \A j \in Int : CutNum(p, j) = IF 1 <= j THEN 0 ELSE 1
  BY CutOne
<1> HIDE DEF h, r, p, d
<1>8. ASSUME NEW i \in Int, i >= 0
      PROVE  Joint(r, nq \o p, i) <= MAX_GC_READ
  <2>1. Joint(d, nq, i + 1) = CutNum(<<h>>, i + 1) + Joint(r, nq, i)
    BY <1>1, <1>2, JointTail DEF h, r
  <2>2. /\ i - Len(r) - Len(nq) \in Int
        /\ Joint(r, nq \o p, i) = Joint(r, nq, i) + CutNum(p, i - Len(r) - Len(nq))
    BY <1>1, <1>3, <1>5, JointPlus
  <2>3. Joint(d, nq, i + 1) <= MAX_GC_READ
    BY DEF MoveOrder, d
  <2>4. Joint(r, nq, i) \in Nat
    BY <1>1, <1>3, JointType
  <2>5. CutNum(<<h>>, i + 1) = 1 /\ CutNum(p, i - Len(r) - Len(nq)) <= 1
        /\ CutNum(p, i - Len(r) - Len(nq)) \in Nat
    BY <1>6, <1>7, <1>8, <2>2
  <2>. QED
    BY <2>1, <2>2, <2>3, <2>4, <2>5, GcAssumption
<1>9. ASSUME NEW i \in Int
      PROVE  Joint(r, nq \o p, i) <= MAX_GC_READ
  <2>1. CASE i >= 0
    BY <1>8, <2>1
  <2>2. CASE i <= 0
    <3>1. Joint(r, nq \o p, i) = Joint(r, nq \o p, 0)
      BY <1>3, <1>5, <2>2, JointLow
    <3>. QED
      BY <3>1, <1>8
  <2>. QED
    BY <2>1, <2>2
<1>. QED
  BY <1>2, <1>9 DEF MoveOrder

\* A page is read, if fewer reads than allowed are under way.
LEMMA OrderReads ==
  ASSUME IoTypes, MoveOrder, Cnt["Mig"]["READ"] < MAX_GC_READ, done' = done,
         NEW c, c.cb = "Mig", c.op = "READ", Issue(<<c>>)
  PROVE  MoveOrder'
<1> DEFINE d == done["Mig"]
           p == <<c>>
<1>1. /\ "Mig" \in CbKey /\ GoodCmds(d) /\ GoodCmds(nq) /\ IsSeq(d) /\ IsSeq(nq)
      /\ \A e \in Elems(d) : e.cb = "Mig"
  BY BothQueues DEF IoTypes
<1>2. Len(d) \in Nat /\ Len(nq) \in Nat /\ nq' = nq \o p /\ IsSeq(p)
  BY <1>1, SeqFacts, OneFacts DEF Issue
<1>3. \A j \in Int : CutNum(p, j) = IF 1 <= j THEN 1 ELSE 0
  BY CutOne
<1>4. Num(d, {"Mig"}, "READ") + Num(nq, {"Mig"}, "READ") = Cnt["Mig"]["READ"]
      /\ Cnt["Mig"]["READ"] \in Nat
  <2>1. /\ Cnt["Mig"]["READ"] = Num(nq, {"Mig"}, "READ") + Num(d, CbKey, "READ")
        /\ Num(nq, {"Mig"}, "READ") \in Nat /\ Num(d, CbKey, "READ") \in Nat
    BY <1>1, CntIs, KeysDiffer
  <2>2. Hits(d, {"Mig"}, "READ") = Hits(d, CbKey, "READ")
    BY <1>1 DEF Hits, Elems
  <2>3. Num(d, {"Mig"}, "READ") = Num(d, CbKey, "READ")
    BY <2>2 DEF Num
  <2> HIDE DEF Cnt
  <2>. QED
    BY <2>1, <2>3
<1> HIDE DEF d, p
<1>5. ASSUME NEW i \in Int
      PROVE  Joint(d, nq \o p, i) <= MAX_GC_READ
  <2>1. /\ i - Len(d) - Len(nq) \in Int
        /\ Joint(d, nq \o p, i) = Joint(d, nq, i) + CutNum(p, i - Len(d) - Len(nq))
    BY <1>1, <1>2, JointPlus
  <2>2. Joint(d, nq, i) \in Nat /\ Joint(d, nq, i) <= MAX_GC_READ
    BY <1>1, JointType DEF MoveOrder, d
  <2>3. CASE i >= Len(d) + Len(nq)
    <3>1. Joint(d, nq, i) < MAX_GC_READ
      BY <1>1, <1>2, <1>4, <2>3, JointReads
    <3>2. CutNum(p, i - Len(d) - Len(nq)) \in {0, 1}
      BY <1>3, <2>1
    <3>. QED
      BY <2>1, <2>2, <3>1, <3>2, GcAssumption
  <2>4. CASE ~(i >= Len(d) + Len(nq))
    <3>1. CutNum(p, i - Len(d) - Len(nq)) = 0
      BY <1>2, <1>3, <2>1, <2>4
    <3>. QED
      BY <2>1, <2>2, <3>1
  <2>. QED
    BY <2>3, <2>4
<1>. QED
  BY <1>2, <1>5 DEF MoveOrder, d

\* Nothing of GC is under way.
LEMMA OrderNone ==
  ASSUME IoTypes, NoneOf("Mig")
  PROVE  MoveOrder /\ \A i \in Int : Joint(done["Mig"], nq, i) = 0
<1>1. "Mig" \in CbKey /\ IsSeq(done["Mig"]) /\ IsSeq(nq)
  BY BothQueues
<1>2. Under["Mig"] = {}
  BY <1>1, NoUnder, KeysDiffer DEF NoneOf, Cnts
<1>3. (\A c \in Elems(nq) : c.cb # "Mig") /\ (\A c \in Elems(done["Mig"]) : c.cb # "Mig")
  BY <1>1, <1>2 DEF Under
<1>4. \A i \in Int : Joint(done["Mig"], nq, i) = 0
  <2> TAKE i \in Int
  <2>1. i - Len(done["Mig"]) \in Int
    BY <1>1, JointType
  <2>2. CutNum(done["Mig"], i) = 0 /\ CutNum(nq, i - Len(done["Mig"])) = 0
    BY <1>1, <1>3, <2>1, CutType
  <2>. QED
    BY <2>2 DEF Joint
<1>. QED
  BY <1>4, GcAssumption DEF MoveOrder

LEMMA NoneIsOrder == IoTypes /\ NoneOf("Mig") => MoveOrder
  BY OrderNone

\* A block is erased.
LEMMA OrderErases ==
  ASSUME IoTypes, NoneOf("Mig"), done' = done, NEW c, Issue(<<c>>)
  PROVE  MoveOrder'
<1>1. IsSeq(done["Mig"]) /\ IsSeq(nq) /\ IsSeq(<<c>>)
  BY BothQueues, OneFacts
<1>2. ASSUME NEW i \in Int
      PROVE  Joint(done["Mig"], nq \o <<c>>, i) <= MAX_GC_READ
  <2>1. /\ i - Len(done["Mig"]) - Len(nq) \in Int
        /\ Joint(done["Mig"], nq \o <<c>>, i)
             = Joint(done["Mig"], nq, i) + CutNum(<<c>>, i - Len(done["Mig"]) - Len(nq))
    BY <1>1, JointPlus
  <2>2. Joint(done["Mig"], nq, i) = 0
    BY OrderNone
  <2>3. CutNum(<<c>>, i - Len(done["Mig"]) - Len(nq)) \in {0, 1}
    BY <2>1, CutOne
  <2>. QED
    BY <2>1, <2>2, <2>3, GcAssumption
<1>. QED
  BY <1>2 DEF MoveOrder, Issue

\* GC is stopped and returns what has completed.
LEMMA OrderStops ==
  ASSUME IoTypes, MoveOrder, done' = [done EXCEPT !["Mig"] = <<>>], nq' = nq
  PROVE  MoveOrder'
<1>1. "Mig" \in CbKey /\ IsSeq(done["Mig"]) /\ IsSeq(nq) /\ Len(done["Mig"]) \in Nat
  BY BothQueues, SeqFacts
<1>2. done'["Mig"] = <<>> /\ IsSeq(<<>>) /\ Elems(<<>>) = {} /\ Len(<<>>) = 0
  BY <1>1, NoneFacts DEF IoTypes
<1>3. ASSUME NEW i \in Int
      PROVE  Joint(<<>>, nq, i) <= MAX_GC_READ
  <2> DEFINE k == i + Len(done["Mig"])
  <2>1. k \in Int /\ k - Len(done["Mig"]) = i /\ i - 0 = i
    BY <1>1
  <2> HIDE DEF k
  <2>2. CutNum(<<>>, i) = 0
    BY <1>2, CutType
  <2>3. CutNum(done["Mig"], k) \in Nat /\ CutNum(nq, i) \in Nat
    BY <1>1, <2>1, CutType
  <2>4. CutNum(done["Mig"], k) + CutNum(nq, i) <= MAX_GC_READ
    BY <2>1 DEF MoveOrder, Joint
  <2>. QED
    BY <1>2, <2>1, <2>2, <2>3, <2>4, GcAssumption DEF Joint
<1>. QED
  BY <1>2, <1>3 DEF MoveOrder

\* The device executes a command of another issuer.
LEMMA JointDrops ==
  ASSUME NEW d, IsSeq(d), NEW q, IsSeq(q), q # <<>>, Head(q).cb # "Mig", NEW i \in Int
  PROVE  \E j \in Int : Joint(d, Tail(q), i) = Joint(d, q, j)
<1> DEFINE h == <<Head(q)>>
           r == Tail(q)
           n == Len(d)
<1>1. IsSeq(h) /\ IsSeq(r) /\ Len(h) = 1 /\ n \in Nat /\ q = h \o r
  <2>1. q = h \o r
    BY DEF IsSeq
  <2>. QED
    BY <2>1, OneFacts, TailFacts, SeqFacts
<1>2. \A k \in Int : CutNum(h, k) = 0
  BY CutOne
<1> HIDE DEF h, r
<1>3. ASSUME NEW k \in Int
      PROVE  CutNum(q, k) = CutNum(r, k - 1)
  <2>1. CutNum(q, k) = CutNum(h, k) + CutNum(r, k - 1)
    BY <1>1, CutConcat
  <2>2. CutNum(r, k - 1) \in Nat
    <3>1. k - 1 \in Int
      OBVIOUS
    <3>. QED
      BY <1>1, <3>1, CutType
  <2>. QED
    BY <1>2, <2>1, <2>2
<1>4. CASE i >= n
  <2>1. i + 1 \in Int /\ i + 1 >= n /\ (i + 1) - n \in Int /\ ((i + 1) - n) - 1 = i - n
    BY <1>1, <1>4
  <2>2. CutNum(d, i) = CutNum(d, i + 1)
    BY <1>4, <2>1, CutEnds
  <2>3. CutNum(q, (i + 1) - n) = CutNum(r, i - n)
    BY <1>3, <2>1
  <2>4. Joint(d, r, i) = Joint(d, q, i + 1)
    BY <2>2, <2>3 DEF Joint
  <2>. QED
    BY <2>1, <2>4 DEF r
<1>5. CASE i < n
  <2>1. i - n \in Int /\ i - n <= 0 /\ (i - n) - 1 \in Int /\ (i - n) - 1 <= 0
    BY <1>1, <1>5
  <2>2. CutNum(r, (i - n) - 1) = CutNum(r, 0) /\ CutNum(r, i - n) = CutNum(r, 0)
    BY <1>1, <2>1, CutEnds
  <2>3. CutNum(q, i - n) = CutNum(r, i - n)
    BY <1>3, <2>1, <2>2
  <2>4. Joint(d, r, i) = Joint(d, q, i)
    BY <2>3 DEF Joint
  <2>. QED
    BY <2>4 DEF r
<1>. QED
  BY <1>1, <1>4, <1>5

LEMMA OrderNand ==
  ASSUME IoTypes, MoveOrder, NandDone
  PROVE  MoveOrder'
<1> DEFINE c == Head(nq)
           a == Answered(c)
<1>1. IsSeq(nq) /\ nq # <<>> /\ nq' = Tail(nq) /\ IsSeq(done["Mig"])
  BY BothQueues DEF NandDone
<1>2. GoodCmd(c)
  <2>1. c \in Elems(nq)
    BY <1>1, TailFacts
  <2>. QED
    BY <2>1 DEF IoTypes, GoodCmds
<1>3. /\ c.cb \in CbKey /\ done' = [done EXCEPT ![c.cb] = Append(@, a)]
      /\ a.cb = c.cb /\ a.op = c.op
  BY <1>2, AnsweredIsGood DEF NandDone, Answered, GoodCmd
<1> HIDE DEF a, c
<1>4. CASE c.cb = "Mig"
  <2>1. done'["Mig"] = Append(done["Mig"], a)
    BY <1>3, <1>4 DEF IoTypes
  <2>2. \A i \in Int : Joint(done'["Mig"], nq', i) = Joint(done["Mig"], nq, i)
    <3> TAKE i \in Int
    <3>1. a.cb = Head(nq).cb /\ a.op = Head(nq).op
      BY <1>3 DEF c
    <3>2. Joint(Append(done["Mig"], a), Tail(nq), i) = Joint(done["Mig"], nq, i)
      BY <1>1, <3>1, JointMoves
    <3>. QED
      BY <1>1, <2>1, <3>2
  <2>. QED
    BY <2>2 DEF MoveOrder
<1>5. CASE c.cb # "Mig"
  <2>1. done'["Mig"] = done["Mig"]
    BY <1>3, <1>5, KeysDiffer DEF IoTypes
  <2>2. \A i \in Int : \E j \in Int : Joint(done'["Mig"], nq', i) = Joint(done["Mig"], nq, j)
    BY <1>1, <1>5, <2>1, JointDrops DEF c
  <2>. QED
    BY <2>2 DEF MoveOrder
<1>. QED
  BY <1>4, <1>5

\* Which steps issue and collect nothing of GC.
LEMMA ReqMig ==
  ASSUME IoTypes, TaskReq
  PROVE  MigRests
<1>1. CASE UNCHANGED <<nq, done>>
  BY <1>1, QuietMig
<1>2. ASSUME NEW r, NEW at, ReqStep(r, at), ~UNCHANGED <<nq, done>>
      PROVE  MigRests
  <2>1. /\ \A b, w : UserCmd(ReadCmd("User", b, w), r).cb # "Mig"
        /\ \A b, w, pg : UserCmd(PgmCmd("User", b, w, pg), r).cb # "Mig"
        /\ \A b : EraseCmd(ErbKey("USER"), b).cb # "Mig"
    BY DEF ReadCmd, PgmCmd, EraseCmd, Cmd, UserCmd, ErbKey
  <2>2. CASE ReqReadMapped(r, at)
    BY <2>1, <2>2, OneMig DEF ReqReadMapped
  <2>3. CASE ReqNeedsBlk(r, at)
    <3>1. done' = done
      BY <2>3 DEF ReqNeedsBlk
    <3>2. ReqMayTake
      BY <1>2, <2>3, <3>1 DEF ReqNeedsBlk
    <3>3. Issue(<<EraseCmd(ErbKey("USER"), Head(pool))>>)
      BY <2>3, <3>2 DEF ReqNeedsBlk, ErbStart
    <3>. QED
      BY <2>1, <3>1, <3>3, OneMig
  <2>4. CASE ReqErasing(r, at)
    <3>1. CASE ErbErased("USER")
      <4>1. done' = [done EXCEPT !["UErs"] = Tail(@)] /\ nq' = nq
        BY <3>1 DEF ErbErased, PopDone, ErbKey
      <4>2. done'["Mig"] = done["Mig"]
        BY <4>1, KeysDiffer DEF IoTypes
      <4>3. IsSeq(<<>>) /\ Elems(<<>>) = {} /\ nq \o <<>> = nq
        BY NoneFacts, SeqPlusNone, BothQueues
      <4>. QED
        BY <4>1, <4>2, <4>3 DEF MigRests, KeyRests
    <3>2. CASE ErbRetry("USER") \/ ErbWait("USER")
      BY <1>2, <3>2 DEF ErbRetry, ErbWait, ioVars
    <3>. QED
      BY <2>4, <3>1, <3>2 DEF ReqErasing, ErbGoesOn
  <2>5. CASE ReqProgram(r, at)
    BY <2>1, <2>5, OneMig DEF ReqProgram
  <2>6. CASE ReqReadUnmapped(r, at) \/ ReqNewBlk(r, at) \/ ReqJnlBusy(r, at)
    BY <1>2, <2>6 DEF ReqReadUnmapped, ReqNewBlk, ReqJnlBusy, ioVars
  <2>7. CASE ShutdownWaitIo(r, at) \/ ShutdownSudden(r, at) \/ ShutdownSave(r, at)
               \/ ShutdownSaving(r, at) \/ ShutdownSaved(r, at)
    BY <1>2, <2>7 DEF ShutdownWaitIo, ShutdownSudden, ShutdownSave, ShutdownSaving, ShutdownSaved,
                ioVars
  <2>. QED
    BY <1>2, <2>2, <2>3, <2>4, <2>5, <2>6, <2>7 DEF ReqStep
<1>3. CASE ReqWaitOpen \/ ReqOpened \/ ReqIdle
  BY <1>3, QuietMig DEF ReqWaitOpen, ReqOpened, ReqIdle, ioVars
<1>. QED
  BY <1>1, <1>2, <1>3 DEF TaskReq, Req_Run

LEMMA PopKey ==
  ASSUME IoTypes, NEW j \in CbKey, NEW k \in CbKey \ {j}, PopDone(j), nq' = nq
  PROVE  KeyRests(k)
<1>1. done'[k] = done[k]
  BY DEF IoTypes, PopDone
<1>2. IsSeq(<<>>) /\ Elems(<<>>) = {} /\ nq \o <<>> = nq
  BY NoneFacts, SeqPlusNone, BothQueues
<1>. QED
  BY <1>1, <1>2 DEF KeyRests

LEMMA RespMig ==
  ASSUME IoTypes, TaskResp
  PROVE  MigRests
<1>1. CASE RespWait
  BY <1>1, QuietMig DEF RespWait, ioVars
<1>2. CASE RespDone
  BY <1>2, PopKey, KeysDiffer DEF RespDone, MigRests
<1>. QED
  BY <1>1, <1>2 DEF TaskResp, ReqResp_Run

\* What META issues.
LEMMA MetaReads ==
  ASSUME NEW k \in CbKey \ {"Meta"}, NEW n \in Int, NEW t, t = [i \in 1 .. n |-> t[i]], \A i \in 1 .. n : t[i].cb = "Meta",
         Issue(t), done' = done
  PROVE  KeyRests(k)
<1>1. PICK m \in Nat : 1 .. n = 1 .. m
  <2>1. CASE n \in Nat
    BY <2>1
  <2>2. CASE n \notin Nat
    <3>1. 1 .. n = 1 .. 0
      BY <2>2
    <3>. QED
      BY <3>1
  <2>. QED
    BY <2>1, <2>2
<1>2. DOMAIN t = 1 .. m /\ t \in [1 .. m -> Elems(t)]
  BY <1>1 DEF Elems
<1>3. IsSeq(t)
  <2>1. t \in Seq(Elems(t))
    BY <1>2
  <2>. QED
    BY <2>1 DEF IsSeq
<1>4. \A c \in Elems(t) : c.cb # k
  BY <1>1, <1>2 DEF Elems
<1>. QED
  BY <1>3, <1>4 DEF KeyRests, Issue

LEMMA ReadKey == \A b, w : ReadCmd("Meta", b, w).cb = "Meta"
  BY DEF ReadCmd, Cmd

\* The reads of the scan of u.
LEMMA ScanRests ==
  ASSUME NEW k \in CbKey \ {"Meta"}, NEW u, ScanIssues(u) \in Int, Issue(ScanReads(u)), done' = done
  PROVE  KeyRests(k)
<1> DEFINE n == ScanIssues(u)
           t == ScanReads(u)
<1>1. t = [i \in 1 .. n |-> ReadCmd("Meta", u.blk, u.wl + i - 1)]
  BY DEF ScanReads
<1>2. n \in Int /\ Issue(t)
  OBVIOUS
<1> HIDE DEF n, t
<1>3. t = [i \in 1 .. n |-> t[i]] /\ \A i \in 1 .. n : t[i].cb = "Meta"
  BY <1>1, ReadKey
<1>. QED
  BY <1>2, <1>3, MetaReads

LEMMA SaveRests ==
  ASSUME NEW k \in CbKey \ {"Meta"}, IoTypes, MetaSave
  PROVE  KeyRests(k)
<1>1. MetaPgm.cb # k /\ MetaErase.cb # k
  BY DEF MetaPgm, MetaErase, PgmCmd, EraseCmd, Cmd
<1>2. CASE MetaIdle \/ MetaSaveWait
  BY <1>2, QuietKey DEF MetaIdle, MetaSaveWait, ioVars
<1>3. CASE MetaSaveStart
  <2>1. done' = done /\ (Issue(<<MetaPgm>>) \/ Issue(<<MetaErase>>))
    BY <1>3 DEF MetaSaveStart
  <2>. QED
    BY <1>1, <2>1, OneKey
<1>4. CASE MetaSaveErased
  <2>1. Issue(<<MetaPgm>>) /\ PopDone("Meta")
    BY <1>4 DEF MetaSaveErased
  <2>2. done'[k] = done[k]
    BY <2>1, KeysDiffer DEF PopDone, IoTypes
  <2>. QED
    BY <1>1, <2>1, <2>2, OneKey
<1>5. CASE MetaSaveDone
  BY <1>5, PopKey, KeysDiffer DEF MetaSaveDone
<1>. QED
  BY <1>2, <1>3, <1>4, <1>5 DEF MetaSave

LEMMA UptoType ==
  ASSUME NEW a \in Nat, NEW b \in Nat
  PROVE  IssueUpto(a, b) \in Int
  BY DEF IssueUpto, Lesser

LEMMA ReadsRest ==
  ASSUME NEW k \in CbKey \ {"Meta"}, MapInv, RestInv,
         \/ MetaInit \/ BlkScanIssue \/ BlkScanDone \/ PageScanReturn \/ PageScanDone
         \/ MtLoadReturn
  PROVE  KeyRests(k)
<1>1. done' = done
  BY DEF MetaInit, BlkScanIssue, BlkScanDone, PageScanReturn, PageScanDone, MtLoadReturn
<1>2. /\ IssueUpto(0, NUM_META_BLK) \in Int /\ IssueUpto(0, NUM_WL) \in Int
      /\ IssueUpto(0, NUM_MAP_SLICE) \in Int
  BY UptoType, SizeAssumption, MetaAssumption
<1>3. ASSUME NEW s \in ReadSteps, Phase(s)
      PROVE  /\ IsOs(os) /\ os.iss \in Int
             /\ IssueUpto(os.dn, NUM_META_BLK) \in Int /\ PageScanIssued \in Int
             /\ IssueUpto(os.dn, NUM_MAP_SLICE) \in Int
  <2>1. IsOs(os) /\ os.iss \in Int /\ os.dn \in Nat
    BY <1>3, InPhase DEF ReadState
  <2>. QED
    BY <2>1, UptoType, SizeAssumption, MetaAssumption DEF PageScanIssued
<1>4. CASE MetaInit
  <2> DEFINE n == IssueUpto(0, NUM_META_BLK)
             t == Reads(0, n, FirstPageOf)
  <2>1. os'.iss = n
    BY <1>4 DEF MetaInit, OsIdle
  <2>2. Issue(t)
    BY <1>4, <2>1 DEF MetaInit
  <2>3. n \in Int
    BY <1>2
  <2> HIDE DEF n
  <2>4. t = [i \in 1 .. n |-> t[i]] /\ \A i \in 1 .. n : t[i].cb = "Meta"
    BY <2>3, ReadKey DEF Reads
  <2> HIDE DEF t
  <2>. QED
    BY <1>1, <2>2, <2>3, <2>4, MetaReads
<1>5. CASE BlkScanIssue
  <2> DEFINE n == IssueUpto(os.dn, NUM_META_BLK)
             t == Reads(os.iss, n, FirstPageOf)
  <2>1. IsOs(os) /\ os.iss \in Int /\ n \in Int
    BY <1>3, <1>5 DEF BlkScanIssue, ReadSteps
  <2>2. os'.iss = n
    BY <1>5, <2>1 DEF BlkScanIssue, IsOs, OsFields
  <2>3. Issue(t)
    BY <1>5, <2>2 DEF BlkScanIssue
  <2> HIDE DEF n
  <2>4. n - os.iss \in Int
    BY <2>1
  <2>5. t = [i \in 1 .. n - os.iss |-> t[i]] /\ \A i \in 1 .. n - os.iss : t[i].cb = "Meta"
    BY <2>4, ReadKey DEF Reads
  <2> HIDE DEF t
  <2>. QED
    BY <1>1, <2>3, <2>4, <2>5, MetaReads
<1>6. CASE BlkScanDone
  <2> DEFINE n == IssueUpto(0, NUM_WL)
             t == Reads(0, n, LAMBDA i : PageOf(os.bo, i))
  <2>1. os'.iss = n
    BY <1>6 DEF BlkScanDone, OsIdle
  <2>2. Issue(t)
    BY <1>6, <2>1 DEF BlkScanDone
  <2>3. n \in Int
    BY <1>2
  <2> HIDE DEF n
  <2>4. t = [i \in 1 .. n |-> t[i]] /\ \A i \in 1 .. n : t[i].cb = "Meta"
    BY <2>3, ReadKey DEF Reads
  <2> HIDE DEF t
  <2>. QED
    BY <1>1, <2>2, <2>3, <2>4, MetaReads
<1>7. CASE PageScanReturn
  <2> DEFINE n == PageScanIssued
             t == Reads(os.iss, n, LAMBDA i : PageOf(os.bo, i))
  <2>1. os.iss \in Int /\ n \in Int
    BY <1>3, <1>7 DEF PageScanReturn, ReadSteps
  <2>2. Issue(t)
    BY <1>7 DEF PageScanReturn
  <2> HIDE DEF n
  <2>3. n - os.iss \in Int
    BY <2>1
  <2>4. t = [i \in 1 .. n - os.iss |-> t[i]] /\ \A i \in 1 .. n - os.iss : t[i].cb = "Meta"
    BY <2>3, ReadKey DEF Reads
  <2> HIDE DEF t
  <2>. QED
    BY <1>1, <2>2, <2>3, <2>4, MetaReads
<1>8. CASE PageScanDone
  <2> DEFINE n == IssueUpto(0, NUM_MAP_SLICE)
             bo == os'.bo
             cpo == os'.cpo
             t == Reads(0, n, LAMBDA i : LoadPage(bo, cpo, i))
  <2>1. os'.iss = n
    BY <1>8 DEF PageScanDone, OsIdle
  <2>2. Issue(t)
    BY <1>8, <2>1 DEF PageScanDone
  <2>3. n \in Int
    BY <1>2
  <2> HIDE DEF n, bo, cpo
  <2>4. t = [i \in 1 .. n |-> t[i]] /\ \A i \in 1 .. n : t[i].cb = "Meta"
    BY <2>3, ReadKey DEF Reads
  <2> HIDE DEF t
  <2>. QED
    BY <1>1, <2>2, <2>3, <2>4, MetaReads
<1>9. CASE MtLoadReturn
  <2> DEFINE n == IssueUpto(os.dn, NUM_MAP_SLICE)
             t == Reads(os.iss, n, LAMBDA i : LoadPage(os.bo, os.cpo, i))
  <2>1. IsOs(os) /\ os.iss \in Int /\ n \in Int
    BY <1>3, <1>9 DEF MtLoadReturn, ReadSteps
  <2>2. os'.iss = n
    BY <1>9, <2>1 DEF MtLoadReturn, IsOs, OsFields
  <2>3. Issue(t)
    BY <1>9, <2>2 DEF MtLoadReturn
  <2> HIDE DEF n
  <2>4. n - os.iss \in Int
    BY <2>1
  <2>5. t = [i \in 1 .. n - os.iss |-> t[i]] /\ \A i \in 1 .. n - os.iss : t[i].cb = "Meta"
    BY <2>4, ReadKey DEF Reads
  <2> HIDE DEF t
  <2>. QED
    BY <1>1, <2>3, <2>4, <2>5, MetaReads
<1>. QED
  BY <1>4, <1>5, <1>6, <1>7, <1>8, <1>9

LEMMA ScansRest ==
  ASSUME NEW k \in CbKey \ {"Meta"}, RestInv, NEW o \in OpenType,
         ScanReturn(o) \/ GcScanDone \/ (MtLoadDone /\ o = "GC")
  PROVE  KeyRests(k)
<1>1. CASE ScanReturn(o)
  <2>1. ScanOf(us) /\ Issue(ScanReads(us)) /\ done' = done
    BY <1>1, InScan DEF ScanReturn
  <2>2. ScanIssues(us) \in Int
    BY <2>1, ScanIssuesIs DEF ScanOf
  <2>. QED
    BY <2>1, <2>2, ScanRests
<1>2. ASSUME NEW u \in OpenType, ScanStart(u), opn'[u] = opn[u], done' = done
      PROVE  KeyRests(k)
  <2> DEFINE s == [blk |-> opn[u].blk, wl |-> opn[u].wl, ers |-> FF16, nRun |-> 0]
  <2>1. Issue(ScanReads(s))
    BY <1>2 DEF ScanStart
  <2>2. s.nRun \in 0 .. 2 /\ s.wl \in Nat
    BY DEF RestInv, AddrInv, IsNext
  <2> HIDE DEF s
  <2>3. ScanIssues(s) \in Int
    BY <2>2, ScanIssuesIs
  <2>. QED
    BY <1>2, <2>1, <2>3, ScanRests
<1>3. CASE GcScanDone
  <2>1. ScanStart("USER") /\ done' = done /\ ScanOver("GC")
    BY <1>3 DEF GcScanDone
  <2>2. opn'["USER"] = opn["USER"]
    BY <2>1, ScanOverKeeps, StreamsDiffer
  <2>. QED
    BY <1>2, <2>1, <2>2, StreamsDiffer
<1>4. CASE MtLoadDone
  BY <1>2, <1>4, StreamsDiffer DEF MtLoadDone
<1>. QED
  BY <1>1, <1>3, <1>4

LEMMA MetaKeyRests ==
  ASSUME NEW k \in CbKey \ {"Meta"}, MapInv, RestInv, TaskMeta
  PROVE  KeyRests(k)
<1>1. IoTypes
  BY DEF RestInv
<1>2. CASE MetaSave
  BY <1>1, <1>2, SaveRests
<1>3. CASE BlkScanPop \/ PageScanPop \/ MtLoadPop \/ \E o \in OpenType : ScanPop(o)
  BY <1>1, <1>3, PopKey, KeysDiffer DEF BlkScanPop, PageScanPop, MtLoadPop, ScanPop
<1>4. CASE BlkScanReturn \/ MetaFormat \/ UserScanDone
  BY <1>1, <1>4, QuietKey DEF BlkScanReturn, MetaFormat, UserScanDone, ioVars
<1>5. CASE \/ MetaInit \/ BlkScanIssue \/ BlkScanDone \/ PageScanReturn \/ PageScanDone
           \/ MtLoadReturn
  BY <1>5, ReadsRest
<1>6. CASE GcScanDone \/ MtLoadDone \/ \E o \in OpenType : ScanReturn(o)
  BY <1>6, ScansRest, StreamsDiffer
<1>. QED
  BY <1>2, <1>3, <1>4, <1>5, <1>6 DEF TaskMeta, MetaOpen

\* GC itself.
LEMMA GcOrder ==
  ASSUME RestInv, MoveOrder, TaskGc
  PROVE  MoveOrder'
<1>1. IoTypes
  BY DEF RestInv
<1>2. CASE GcPgmDone \/ GcReadDropped
  BY <1>1, <1>2, OrderPops DEF GcPgmDone, GcReadDropped, Moving
<1>3. CASE GcReadMoved
  <2> DEFINE c == PgmCmd("Mig", mv.dst, mv.dwl, DoneHead("Mig").pg)
  <2>1. /\ HasDone("Mig") /\ PopDone("Mig") /\ DoneHead("Mig").op = "READ" /\ Issue(<<c>>)
    BY <1>3 DEF GcReadMoved, Moving
  <2>2. c.cb = "Mig" /\ c.op = "PGM"
    BY DEF PgmCmd, Cmd
  <2> HIDE DEF c
  <2>. QED
    BY <1>1, <2>1, <2>2, OrderMoved
<1>4. CASE GcReadNext
  <2> DEFINE c == ReadCmd("Mig", mv.src, mv.swl)
  <2>1. gcSt = "Move" /\ mv.rd < MAX_GC_READ /\ done' = done /\ Issue(<<c>>)
    BY <1>4 DEF GcReadNext, Collected, WantsRead
  <2>2. c.cb = "Mig" /\ c.op = "READ"
    BY DEF ReadCmd, Cmd
  <2>3. Cnt["Mig"]["READ"] < MAX_GC_READ
    BY <2>1, MoveFacts DEF MoveAcc, Cnts
  <2> HIDE DEF c, Cnt
  <2>. QED
    BY <1>1, <2>1, <2>2, <2>3, OrderReads
<1>5. CASE GcGetDst
  <2>1. gcSt = "GetDst" /\ done' = done /\ Issue(<<EraseCmd(ErbKey("GC"), Head(pool))>>)
    BY <1>5 DEF GcGetDst, ErbStart
  <2>2. NoneOf("Mig")
    BY <2>1, KeysDiffer DEF RestInv, MigInv, Cnts, NoneOf
  <2>. QED
    BY <1>1, <2>1, <2>2, OrderErases
<1>6. CASE GcErsDst
  <2>1. CASE ErbErased("GC")
    BY <1>1, <2>1, OrderPops DEF ErbErased, ErbKey
  <2>2. CASE ErbRetry("GC") \/ ErbWait("GC")
    BY <1>1, <2>2, QuietMig, OrderRests DEF ErbRetry, ErbWait, ioVars
  <2>. QED
    BY <1>6, <2>1, <2>2 DEF GcErsDst, ErbGoesOn
<1>7. CASE GcStop
  BY <1>1, <1>7, OrderStops DEF GcStop
<1>8. CASE GcWaitOpen \/ GcResume \/ GcOpened \/ GcWaitReq \/ GcErsDstDone \/ GcDstFull
             \/ GcNewSrc \/ GcSrcDone \/ GcMoveWait
  <2>1. UNCHANGED <<nq, done>>
    BY <1>8 DEF GcWaitOpen, GcResume, GcOpened, GcWaitReq, GcErsDstDone, GcDstFull, GcNewSrc,
                GcSrcDone, GcMoveWait, ioVars
  <2>. QED
    BY <1>1, <2>1, QuietMig, OrderRests
<1>. QED
  BY <1>2, <1>3, <1>4, <1>5, <1>6, <1>7, <1>8 DEF TaskGc, GC_Run, GcMove

LEMMA OrderInductive ==
  ASSUME MapInv, RestInv, MoveOrder, [Next]_vars
  PROVE  MoveOrder'
<1>1. IoTypes
  BY DEF RestInv
<1>2. CASE TaskReq \/ TaskResp \/ TaskMeta
  BY <1>1, <1>2, ReqMig, RespMig, MetaKeyRests, OrderRests, KeysDiffer DEF MigRests
<1>3. CASE TaskGc
  BY <1>3, GcOrder
<1>4. CASE Nand
  BY <1>1, <1>4, OrderNand DEF Nand
<1>5. CASE SchedRound \/ Host \/ UNCHANGED vars
  <2>1. UNCHANGED <<nq, done>>
    BY <1>5 DEF SchedRound, RoundWith, otherThanSched, Host, HostWrite, HostRead, HostShutdown,
                Submit, vars, ioVars
  <2>. QED
    BY <1>1, <2>1, QuietMig, OrderRests
<1>6. CASE PowerCycle
  <2>1. (IoTypes /\ NoneOf("Mig"))'
    BY <1>6, PowerCycleFresh, KeysDiffer DEF Fresh, Rested
  <2>. QED
    BY <2>1, NoneIsOrder, PTL
<1>. QED
  BY <1>2, <1>3, <1>4, <1>5, <1>6 DEF Next, Task

LEMMA OrderHolds == Spec => []MoveOrder
<1>1. Init => MoveOrder
  <2> SUFFICES ASSUME Init PROVE MoveOrder
    OBVIOUS
  <2>1. IoTypes /\ NoneOf("Mig")
    BY InitFresh, KeysDiffer DEF Fresh, Rested
  <2>. QED
    BY <2>1, NoneIsOrder
<1>2. IInv /\ MoveOrder /\ [Next]_vars => MoveOrder'
  BY OrderInductive DEF IInv
<1>. QED
  BY <1>1, <1>2, IInvHolds, PTL DEF Spec

-----------------------------------------------------------------------------
(* The host and REQ, whatever META finds when it opens: the part HostInv   *)
(* of AllocInv holds by itself.                                            *)

\* A step that neither issues nor collects a command of k.
LEMMA RestsSame ==
  ASSUME IoTypes, IoTypes', NEW k \in CbKey, KeyRests(k)
  PROVE  SameFor(k) /\ Under'[k] \subseteq Under[k]
<1>1. PICK t : IsSeq(t) /\ (\A c \in Elems(t) : c.cb # k) /\ nq' = nq \o t
  BY DEF KeyRests
<1>2. IsSeq(nq) /\ done'[k] = done[k]
  BY DEF KeyRests, IoTypes, GoodCmds
<1>3. Elems(nq') = Elems(nq) \cup Elems(t)
  BY <1>1, <1>2, ConcatFacts
<1>4. Under'[k] \subseteq Under[k]
  BY <1>1, <1>2, <1>3 DEF Under
<1>5. ASSUME NEW o \in Ops
      PROVE  Cnt'[k][o] = Cnt[k][o]
  <2>1. Num(t, {k}, o) = 0
    BY <1>1, NumType DEF Match
  <2>2. Num(nq', {k}, o) = Num(nq, {k}, o) + Num(t, {k}, o) /\ Num(nq, {k}, o) \in Nat
    BY <1>1, <1>2, ConcatFacts, NumType
  <2>3. Num(nq', {k}, o) = Num(nq, {k}, o)
    BY <2>1, <2>2
  <2>4. done'[k] = done[k]
    BY <1>2
  <2>. QED
    BY <2>3, <2>4, CntIs, CntIsPrimed
<1>. QED
  BY <1>4, <1>5 DEF SameFor

LEMMA GcUser ==
  ASSUME IoTypes, TaskGc
  PROVE  KeyRests("User")
<1>0. "User" \in CbKey /\ ErbKey("GC") = "Mig" /\ "Mig" \in CbKey
  BY KeysDiffer DEF ErbKey
<1>1. CASE GcGetDst
  <2>1. Issue(<<EraseCmd("Mig", Head(pool))>>) /\ done' = done
    BY <1>0, <1>1 DEF GcGetDst, ErbStart
  <2>2. EraseCmd("Mig", Head(pool)).cb # "User"
    BY DEF EraseCmd, Cmd
  <2>. QED
    BY <2>1, <2>2, OneKey
<1>2. CASE GcErsDst
  <2>1. CASE ErbErased("GC")
    BY <1>0, <2>1, PopKey DEF ErbErased
  <2>2. CASE ErbRetry("GC") \/ ErbWait("GC")
    BY <2>2, QuietKey DEF ErbRetry, ErbWait, ioVars
  <2>. QED
    BY <1>2, <2>1, <2>2 DEF GcErsDst, ErbGoesOn
<1>3. CASE GcReadMoved
  <2>1. PopDone("Mig") /\ Issue(<<PgmCmd("Mig", mv.dst, mv.dwl, DoneHead("Mig").pg)>>)
    BY <1>3 DEF GcReadMoved
  <2>2. \A b, w, p : PgmCmd("Mig", b, w, p).cb # "User"
    BY DEF PgmCmd, Cmd
  <2>3. done'["User"] = done["User"]
    BY <1>0, <2>1 DEF PopDone, IoTypes
  <2>. QED
    BY <2>1, <2>2, <2>3, OneKey
<1>4. CASE GcReadNext
  <2>1. Issue(<<ReadCmd("Mig", mv.src, mv.swl)>>) /\ done' = done
    BY <1>4 DEF GcReadNext
  <2>2. \A b, w : ReadCmd("Mig", b, w).cb # "User"
    BY DEF ReadCmd, Cmd
  <2>. QED
    BY <2>1, <2>2, OneKey
<1>5. CASE GcPgmDone \/ GcReadDropped
  BY <1>0, <1>5, PopKey DEF GcPgmDone, GcReadDropped
<1>6. CASE GcStop
  <2>1. done'["User"] = done["User"] /\ nq' = nq
    BY <1>0, <1>6 DEF GcStop, IoTypes
  <2>2. IsSeq(<<>>) /\ Elems(<<>>) = {} /\ nq \o <<>> = nq
    BY NoneFacts, SeqPlusNone, BothQueues
  <2>. QED
    BY <2>1, <2>2 DEF KeyRests
<1>7. CASE GcWaitOpen \/ GcResume \/ GcOpened \/ GcWaitReq \/ GcErsDstDone \/ GcDstFull
             \/ GcNewSrc \/ GcSrcDone \/ GcMoveWait
  <2>1. UNCHANGED <<nq, done>>
    BY <1>7 DEF GcWaitOpen, GcResume, GcOpened, GcWaitReq, GcErsDstDone, GcDstFull, GcNewSrc,
                GcSrcDone, GcMoveWait, ioVars
  <2>. QED
    BY <2>1, QuietKey
<1>. QED
  BY <1>1, <1>2, <1>3, <1>4, <1>5, <1>6, <1>7 DEF TaskGc, GC_Run, GcMove

LEMMA HostRests ==
  ASSUME IoTypes, IoTypes', HostInv, KeyRests("User"), UNCHANGED <<reqVars, hostVars>>, Opening' => Opening
  PROVE  HostInv'
<1>1. "User" \in CbKey
  BY KeysDiffer
<1>2. SameFor("User") /\ Under'["User"] \subseteq Under["User"]
  BY <1>1, RestsSame
<1>. QED
  BY <1>2, HostFrame DEF reqVars, hostVars

\* REQ issues the command of the request it works on.
LEMMA ReqIssuesHost ==
  ASSUME MapInv, RestInv, HostInv, pwr, NEW r, NEW at, Handling(r, at),
         ReqReadMapped(r, at) \/ ReqProgram(r, at)
  PROVE  HostInv'
<1>0. ~Opening /\ ~Opening' /\ IoTypes
  BY ReqWorks DEF Opening, ReqReadMapped, ReqProgram, otherThanReq
<1>1. Fetched /\ UNCHANGED <<die, done>> /\ UNCHANGED <<rsp, pwr, pend>>
  BY DEF ReqReadMapped, ReqProgram, hostVars
<1>2. ASSUME NEW c, GoodCmd(c), c.cb = "User", c.op \in Ops, Issue(<<c>>)
      PROVE  HostInv'
  <2>1. Turns(<<c>>, {})
    BY <1>0, <1>1, <1>2, IssueTurn
  <2>. QED
    BY <1>0, <1>1, <1>2, <2>1, HostIssues
<1>3. CASE ReqReadMapped(r, at)
  <2> DEFINE d == ReadCmd("User", META_GetMap(r.lpn).blk, META_GetMap(r.lpn).wl)
             c == UserCmd(d, r)
  <2>1. GoodCmd(d) /\ d.cb = "User" /\ d.op = "READ"
    BY PlainCmds, KeysDiffer
  <2>2. Issue(<<c>>) /\ r.cmd = "read"
    BY <1>3 DEF ReqReadMapped
  <2> HIDE DEF d
  <2>3. GoodCmd(c) /\ c.cb = "User" /\ c.op = "READ"
    BY <2>1, <2>2, WithReq
  <2> HIDE DEF c
  <2>. QED
    BY <1>2, <2>2, <2>3, KeysDiffer
<1>4. CASE ReqProgram(r, at)
  <2> DEFINE d == PgmCmd("User", opn["USER"].blk, opn["USER"].wl, DataPage(r.lpn, r.ver))
             c == UserCmd(d, r)
  <2>1. opn["USER"].blk \in UBlk
    <3>1. IsNext(opn["USER"]) /\ ~(opn["USER"].wl >= NUM_WL)
      BY <1>4, StreamsDiffer DEF ReqProgram, UserBlkFull, RestInv, AddrInv
    <3>. QED
      BY <3>1, SizeAssumption DEF IsNext
  <2>2. GoodCmd(d) /\ d.cb = "User" /\ d.op = "PGM"
    BY <2>1, UserPgm, KeysDiffer
  <2>3. Issue(<<c>>) /\ r.cmd = "write"
    BY <1>4 DEF ReqProgram
  <2> HIDE DEF d
  <2>4. GoodCmd(c) /\ c.cb = "User" /\ c.op = "PGM"
    BY <2>2, <2>3, WithReq
  <2> HIDE DEF c
  <2>. QED
    BY <1>2, <2>3, <2>4, KeysDiffer
<1>. QED
  BY <1>3, <1>4

\* The other steps of REQ on a request.
LEMMA ReqStaysHost ==
  ASSUME MapInv, RestInv, HostInv, pwr, NEW r, NEW at, Handling(r, at), r.cmd # "none", mt' = mt,
         NEW s, Remains(r, s), UNCHANGED hostVars, SameFor("User")
  PROVE  HostInv'
<1>0. ~Opening' /\ IoTypes
  BY ReqWorks DEF Opening
<1>. QED
  BY <1>0, HostRemains DEF hostVars

LEMMA ReqAnswersHost ==
  ASSUME MapInv, RestInv, HostInv, pwr, NEW r, NEW at, Handling(r, at), mt' = mt,
         Respond(r, Erased), Fetched, UNCHANGED ioVars
  PROVE  HostInv'
<1>0. ~Opening' /\ IoTypes
  BY ReqWorks DEF Opening
<1>1. SameFor("User")
  BY <1>0, QuietFor, KeysDiffer
<1>. QED
  BY <1>0, <1>1, HostAnswered

LEMMA ReqHost ==
  ASSUME MapInv, RestInv, HostInv, pwr, Req_Run
  PROVE  HostInv'
<1>0. IoTypes /\ AddrInv /\ "User" \in CbKey /\ "USER" \in OpenType
  BY KeysDiffer, StreamsDiffer DEF RestInv
<1>1. CASE ReqWaitOpen \/ ReqOpened \/ ReqIdle
  <2>1. UNCHANGED ioVars /\ UNCHANGED <<mt, hostVars, req, reqQ>>
        /\ (reqSt' = "Run" <=> reqSt = "Run")
    BY <1>1 DEF ReqWaitOpen, ReqOpened, ReqIdle, otherThanReq, reqVars
  <2>2. SameFor("User") /\ Under'["User"] \subseteq Under["User"]
    BY <1>0, <2>1, NoIo
  <2>3. UserCnt' = UserCnt
    BY <2>2, UserCntSame
  <2>4. OneRequest'
    BY <2>1, <2>3 DEF HostInv, OneRequest, hostVars
  <2>. QED
    BY <2>1, <2>2, <2>4 DEF HostInv, WellAsked, hostVars, Opening
<1>2. ASSUME NEW r, NEW at, Handling(r, at), ReqStep(r, at)
      PROVE  HostInv'
  <2>q. UNCHANGED ioVars => SameFor("User")
    BY <1>0, QuietFor
  <2>1. CASE ReqReadMapped(r, at) \/ ReqProgram(r, at)
    BY <1>2, <2>1, ReqIssuesHost
  <2>2. CASE ReqReadUnmapped(r, at) \/ ShutdownSudden(r, at) \/ ShutdownSaved(r, at)
    <3>1. mt' = mt /\ Respond(r, Erased) /\ Fetched /\ UNCHANGED ioVars
      BY <2>2 DEF ReqReadUnmapped, ShutdownSudden, ShutdownSaved, otherThanReq
    <3>. QED
      BY <1>2, <3>1, ReqAnswersHost
  <2>3. CASE ReqNeedsBlk(r, at)
    <3>1. SameFor("User")
      <4>1. CASE ReqMayTake
        <5> DEFINE c == EraseCmd("UErs", Head(pool))
        <5>1. GoodCmd(c) /\ c.cb = "UErs"
          BY PlainCmds, KeysDiffer
        <5>2. Issue(<<c>>) /\ UNCHANGED <<die, done>>
          BY <2>3, <4>1 DEF ErbStart, ErbKey, ReqNeedsBlk
        <5> HIDE DEF c
        <5>. QED
          BY <1>0, <5>1, <5>2, IssueFor
      <4>2. CASE ~ReqMayTake
        BY <2>3, <2>q, <4>2 DEF ReqNeedsBlk, ioVars
      <4>. QED
        BY <4>1, <4>2
    <3>2. r.cmd # "none" /\ mt' = mt /\ UNCHANGED hostVars
          /\ (Remains(r, "BlkErsWait") \/ Remains(r, "Run"))
      BY <2>3 DEF ReqNeedsBlk
    <3>. QED
      BY <1>2, <3>1, <3>2, ReqStaysHost
  <2>4. CASE ReqErasing(r, at)
    <3>1. Erasing("USER")
      BY DEF RestInv, ErbInv, Erasing, ErbKey
    <3>2. SameFor("User")
      <4>1. ErbKey("USER") # "User"
        BY DEF ErbKey
      <4>. QED
        BY <1>0, <2>4, <3>1, <4>1, ErbKeeps DEF ReqErasing, mapVars
    <3>. QED
      BY <1>2, <2>4, <3>2, ReqStaysHost DEF ReqErasing
  <2>5. CASE ReqNewBlk(r, at) \/ ReqJnlBusy(r, at) \/ ShutdownWaitIo(r, at)
               \/ ShutdownSave(r, at) \/ ShutdownSaving(r, at)
    <3>1. UNCHANGED ioVars /\ mt' = mt /\ r.cmd # "none" /\ UNCHANGED hostVars
          /\ \E s : Remains(r, s)
      BY <2>5 DEF ReqNewBlk, ReqJnlBusy, ShutdownWaitIo, ShutdownSave, ShutdownSaving, otherThanReq
    <3>. QED
      BY <1>2, <2>q, <3>1, ReqStaysHost
  <2>. QED
    BY <1>2, <2>1, <2>2, <2>3, <2>4, <2>5 DEF ReqStep
<1>. QED
  BY <1>1, <1>2 DEF Req_Run

LEMMA RespHost ==
  ASSUME MapInv, RestInv, HostInv, pwr, ReqResp_Run
  PROVE  HostInv'
<1>0. IoTypes /\ "User" \in CbKey
  BY KeysDiffer DEF RestInv
<1>1. CASE RespWait
  <2>1. UNCHANGED ioVars /\ UNCHANGED <<mt, reqVars, hostVars>>
    BY <1>1 DEF RespWait, otherThanReq
  <2>2. SameFor("User") /\ Under'["User"] \subseteq Under["User"]
    BY <1>0, <2>1, NoIo
  <2>. QED
    BY <2>1, <2>2, HostFrame DEF reqVars, hostVars, Opening
<1>2. CASE RespDone
  <2>1. HasDone("User") /\ PopDone("User") /\ UNCHANGED <<die, nq>>
        /\ UNCHANGED <<mt, reqQ, reqSt, req>>
    BY <1>2 DEF RespDone, reqVars
  <2>2. \E pg : Respond(DoneHead("User").req, pg)
    BY <1>2 DEF RespDone
  <2>3. Turns(<<>>, {"User"})
    BY <1>0, <2>1, PopTurn
  <2>4. Under["User"] # {}
    BY <1>0, <2>1, HeadUnder
  <2>5. ~Opening
    BY <2>4 DEF HostInv
  <2>6. ~Opening'
    BY <2>1, <2>5 DEF Opening
  <2>. QED
    BY <1>0, <2>1, <2>2, <2>3, <2>5, <2>6, HostCollects
<1>. QED
  BY <1>1, <1>2 DEF ReqResp_Run

LEMMA FreshHost == Fresh => HostInv
  BY FreshAlloc DEF AllocInv

LEMMA HostInductive ==
  ASSUME MapInv, RestInv, HostInv, [Next]_vars
  PROVE  HostInv'
<1>0. IoTypes /\ IoTypes' /\ "User" \in CbKey /\ "Meta" \in CbKey
  BY RestInductive, KeysDiffer DEF RestInv
<1>1. CASE TaskReq
  BY <1>1, ReqHost DEF TaskReq
<1>2. CASE TaskResp
  BY <1>2, RespHost DEF TaskResp
<1>3. CASE TaskGc
  <2>1. UNCHANGED <<reqVars, hostVars, mt>>
    BY <1>3, GcLeaves DEF TaskGc
  <2>. QED
    BY <1>0, <1>3, <2>1, GcUser, HostRests DEF Opening
<1>4. CASE TaskMeta
  <2>1. KeyRests("User")
    BY <1>0, <1>4, MetaKeyRests, KeysDiffer
  <2>2. UNCHANGED <<reqVars, hostVars>>
    BY <1>4 DEF TaskMeta
  <2>3. Opening' => Opening
    BY <1>4, MetaJnl DEF MetaStarts, MetaGoesOn, MetaFinishes, MetaOpens, Saving, Opening
  <2>. QED
    BY <1>0, <2>1, <2>2, <2>3, HostRests
<1>5. CASE Nand
  <2>1. SameFor("User")
    BY <1>0, <1>5, NandKeepsIo DEF Nand
  <2>2. UNCHANGED <<reqQ, reqSt, req, rsp, pwr, pend, mt>>
    BY <1>5 DEF Nand, reqVars, hostVars
  <2>3. Opening' => Opening /\ Under'["User"] \subseteq Under["User"]
    BY <2>1, <2>2 DEF Opening, HostInv, SameFor
  <2>. QED
    BY <2>1, <2>2, <2>3, HostFrame
<1>6. CASE SchedRound \/ UNCHANGED vars
  <2>1. UNCHANGED <<nq, done, reqVars, hostVars, mt>>
    BY <1>6 DEF SchedRound, RoundWith, otherThanSched, vars, ioVars, reqVars, hostVars
  <2>. QED
    BY <1>0, <2>1, QuietKey, HostRests DEF Opening
<1>7. CASE Host
  <2>1. PICK r : Submit(r) /\ WellAsked(r) /\ r.cmd # "none"
    <3>1. CASE \E l \in LPN : HostWrite(l)
      BY <3>1 DEF HostWrite, WriteReq, WellAsked
    <3>2. CASE \E l \in ReadLPNs : HostRead(l)
      BY <3>2 DEF HostRead, ReadReq, WellAsked
    <3>3. CASE \E opt \in Shutdowns : HostShutdown(opt)
      BY <3>3 DEF HostShutdown, ShutdownReq, WellAsked
    <3>. QED
      BY <1>7, <3>1, <3>2, <3>3 DEF Host
  <2>. QED
    BY <1>0, <2>1, HostSubmits
<1>8. CASE PowerCycle
  <2>1. Fresh'
    BY <1>8, PowerCycleFresh
  <2>. QED
    BY <2>1, FreshHost, PTL
<1>. QED
  BY <1>1, <1>2, <1>3, <1>4, <1>5, <1>6, <1>7, <1>8 DEF Next, Task

LEMMA HostHolds == Spec => []HostInv
<1>1. Init => HostInv
  BY InitFresh, FreshHost
<1>2. IInv /\ HostInv /\ [Next]_vars => HostInv'
  BY HostInductive DEF IInv
<1>. QED
  BY <1>1, <1>2, IInvHolds, PTL DEF Spec

-----------------------------------------------------------------------------
(* META while it opens: two reads at most, also where it stops.            *)

NoWrites(k) == Cnt[k]["PGM"] = 0 /\ Cnt[k]["ERB"] = 0

MetaFew ==
  /\ mt = "Open" => Reading \/ Scanning
  /\ mt = "Assert" => Cnt["Meta"]["READ"] <= 2 /\ NoWrites("Meta")

LEMMA OthersRest ==
  ASSUME IoTypes, Others
  PROVE  KeyRests("Meta")
<1>1. CASE nq' = nq
  <2>1. IsSeq(<<>>) /\ Elems(<<>>) = {} /\ nq \o <<>> = nq
    BY NoneFacts, SeqPlusNone, BothQueues
  <2>. QED
    BY <1>1, <2>1 DEF Others, KeyRests
<1>2. ASSUME NEW c, c.cb # "Meta", nq' = nq \o <<c>>
      PROVE  KeyRests("Meta")
  BY <1>2, OneKey DEF Others, Issue
<1>. QED
  BY <1>1, <1>2 DEF Others

LEMMA FewFrame ==
  ASSUME MetaFew, UNCHANGED <<mt, os>>, SameFor("Meta")
  PROVE  MetaFew'
<1>1. \A o \in Ops : Cnt'["Meta"][o] = Cnt["Meta"][o]
  BY DEF SameFor
<1>2. Cnt'["Meta"]["READ"] = Cnt["Meta"]["READ"] /\ Cnt'["Meta"]["PGM"] = Cnt["Meta"]["PGM"]
      /\ Cnt'["Meta"]["ERB"] = Cnt["Meta"]["ERB"]
  BY <1>1, KeysDiffer
<1> HIDE DEF Cnt
<1>. QED
  BY <1>2 DEF MetaFew, NoWrites, Reading, Scanning, Phase

LEMMA LoadFew ==
  ASSUME MapInv, RestInv, MtLoadPop
  PROVE  MetaFew'
<1>1. Phase("MtLoad") /\ "MtLoad" \in ReadSteps
  BY DEF MtLoadPop, ReadSteps
<1>2. ReadState /\ IoTypes
  BY <1>1, InPhase
<1>3. os.iss - os.dn \in 0 .. 2 /\ Cnts("Meta", os.iss - os.dn, 0, 0)
  BY <1>2 DEF ReadState
<1>4. CntsNext("Meta", os.iss - os.dn - 1, 0, 0)
  BY <1>2, <1>3, ReadPopped DEF MtLoadPop
<1>5. Cnt'["Meta"]["READ"] <= 2 /\ NoWrites("Meta")'
  <2> HIDE DEF Cnt
  <2>. QED
    BY <1>3, <1>4 DEF CntsNext, NoWrites
<1>6. mt' = "Open" => Reading'
  <2>1. os' = [os EXCEPT !.dn = @ + 1] /\ os.step = "MtLoad" /\ "step" \in DOMAIN os
    BY <1>1 DEF MtLoadPop, Phase, MapInv
  <2>2. os'.step = "MtLoad"
    BY <2>1
  <2>. QED
    BY <2>2 DEF Reading, Phase
<1>. QED
  BY <1>5, <1>6 DEF MetaFew

LEMMA MetaFewKept ==
  ASSUME MapInv, RestInv, TaskMeta
  PROVE  MetaFew'
<1>1. CASE MetaSave
  <2>1. mt' \in {"Ready", "SaveErase", "SaveProgram"}
    BY <1>1 DEF MetaSave, MetaIdle, MetaSaveStart, MetaSaveErased, MetaSaveDone, MetaSaveWait
  <2>. QED
    BY <2>1 DEF MetaFew
<1>2. CASE MtLoadPop
  BY <1>2, LoadFew
<1>3. CASE MetaFormat \/ UserScanDone
  <2>1. mt' = "Ready"
    BY <1>3 DEF MetaFormat, UserScanDone
  <2>. QED
    BY <2>1 DEF MetaFew
<1>4. CASE \/ MetaInit \/ BlkScanIssue \/ BlkScanPop \/ BlkScanReturn \/ BlkScanDone
           \/ PageScanPop \/ PageScanReturn \/ PageScanDone \/ MtLoadReturn \/ MtLoadDone
           \/ GcScanDone
  <2>1. os'.step \in {"BlkScan", "PageScan", "MtLoad", "GcScan", "UserScan"}
    <3>0. "step" \in DOMAIN os
      BY DEF MapInv
    <3>1. CASE MetaInit \/ BlkScanDone \/ PageScanDone \/ MtLoadDone \/ GcScanDone
      BY <3>1 DEF MetaInit, BlkScanDone, PageScanDone, MtLoadDone, GcScanDone, OsIdle
    <3>2. CASE BlkScanIssue \/ BlkScanPop \/ BlkScanReturn \/ PageScanPop \/ PageScanReturn
                 \/ MtLoadReturn
      <4>1. os.step \in {"BlkScan", "PageScan", "MtLoad"} /\ os'.step = os.step
        BY <3>0, <3>2 DEF BlkScanIssue, BlkScanPop, BlkScanReturn, PageScanPop, PageScanReturn,
                          MtLoadReturn, Phase, openVars
      <4>. QED
        BY <4>1
    <3>. QED
      BY <1>4, <3>1, <3>2
  <2>2. mt' # "Assert"
    BY <1>4 DEF MetaInit, BlkScanIssue, BlkScanPop, BlkScanReturn, BlkScanDone, PageScanPop,
                PageScanReturn, PageScanDone, MtLoadReturn, MtLoadDone, GcScanDone, ScanOver,
                ScanPhase, Phase
  <2>. QED
    BY <2>1, <2>2 DEF MetaFew, Reading, Scanning, Phase
<1>5. ASSUME NEW o \in OpenType, ScanPop(o) \/ ScanReturn(o)
      PROVE  MetaFew'
  <2>1. mt' = "Open" /\ os'.step \in {"GcScan", "UserScan"}
    BY <1>5 DEF ScanPop, ScanReturn, ScanPhase, Phase
  <2>. QED
    BY <2>1 DEF MetaFew, Scanning, Phase
<1>. QED
  BY <1>1, <1>2, <1>3, <1>4, <1>5 DEF TaskMeta, MetaOpen

LEMMA ReqLeavesOpen ==
  ASSUME Req_Run \/ ReqResp_Run
  PROVE  UNCHANGED <<mt, os>>
<1> USE DEF otherThanReq, openVars
<1>1. CASE ReqWaitOpen \/ ReqOpened \/ ReqIdle
  BY <1>1 DEF ReqWaitOpen, ReqOpened, ReqIdle
<1>2. ASSUME NEW r, NEW at, ReqStep(r, at)
      PROVE  UNCHANGED <<mt, os>>
  BY <1>2 DEF ReqStep, ReqReadMapped, ReqReadUnmapped, ReqNeedsBlk, ReqErasing, ReqNewBlk,
       ReqProgram, ReqJnlBusy, ShutdownWaitIo, ShutdownSudden, ShutdownSave, ShutdownSaving,
       ShutdownSaved
<1>3. CASE ReqResp_Run
  BY <1>3 DEF ReqResp_Run, RespWait, RespDone
<1>. QED
  BY <1>1, <1>2, <1>3 DEF Req_Run

LEMMA NoneIsFew == mt = "Init" => MetaFew
  BY DEF MetaFew

LEMMA FewInductive ==
  ASSUME MapInv, RestInv, MetaFew, [Next]_vars
  PROVE  MetaFew'
<1>0. IoTypes /\ IoTypes' /\ "Meta" \in CbKey
  BY RestInductive, KeysDiffer DEF RestInv
<1>1. CASE TaskMeta
  BY <1>1, MetaFewKept
<1>2. CASE TaskReq \/ TaskResp \/ TaskGc
  <2>1. UNCHANGED <<mt, os>>
    BY <1>2, ReqLeavesOpen, GcLeaves DEF TaskReq, TaskResp, TaskGc
  <2>2. SameFor("Meta")
    BY <1>0, <1>2, TaskOthers, OthersRest, RestsSame
  <2>. QED
    BY <2>1, <2>2, FewFrame
<1>3. CASE Nand
  <2>1. UNCHANGED <<mt, os>>
    BY <1>3 DEF Nand, openVars
  <2>. QED
    BY <1>0, <1>3, <2>1, NandKeepsIo, FewFrame DEF Nand
<1>4. CASE SchedRound \/ Host \/ UNCHANGED vars
  <2>1. UNCHANGED <<mt, os, nq, done>>
    BY <1>4 DEF SchedRound, RoundWith, otherThanSched, Host, HostWrite, HostRead, HostShutdown,
                Submit, vars, ioVars, openVars
  <2>. QED
    BY <1>0, <2>1, QuietKey, RestsSame, FewFrame
<1>5. CASE PowerCycle
  <2>1. mt' = "Init"
    BY <1>5, PowerCycleFresh DEF Fresh, Rested
  <2>. QED
    BY <2>1 DEF MetaFew
<1>. QED
  BY <1>1, <1>2, <1>3, <1>4, <1>5 DEF Next, Task

LEMMA FewHolds == Spec => []MetaFew
<1>1. Init => MetaFew
  BY InitFresh, NoneIsFew DEF Fresh, Rested
<1>2. IInv /\ MetaFew /\ [Next]_vars => MetaFew'
  BY FewInductive DEF IInv
<1>. QED
  BY <1>1, <1>2, IInvHolds, PTL DEF Spec

-----------------------------------------------------------------------------
(* The pool: the commands of every issuer, added up.                       *)

LEMMA UnionCount ==
  ASSUME NEW S, IsFiniteSet(S), NEW T, IsFiniteSet(T)
  PROVE  /\ IsFiniteSet(S \cup T)
         /\ Cardinality(S) \in Nat /\ Cardinality(T) \in Nat /\ Cardinality(S \cup T) \in Nat
         /\ Cardinality(S \cup T) <= Cardinality(S) + Cardinality(T)
<1> DEFINE U == S \cup T
           I == S \cap T
<1>1. IsFiniteSet(I)
  BY FS_Subset
<1>2. IsFiniteSet(U) /\ Cardinality(U) = Cardinality(S) + Cardinality(T) - Cardinality(I)
  BY FS_Union
<1> HIDE DEF U, I
<1>3. /\ Cardinality(S) \in Nat /\ Cardinality(T) \in Nat /\ Cardinality(I) \in Nat
      /\ Cardinality(U) \in Nat
  BY <1>1, <1>2, FS_CardinalityType
<1>4. Cardinality(U) <= Cardinality(S) + Cardinality(T)
  BY <1>2, <1>3
<1>. QED
  BY <1>2, <1>3, <1>4 DEF U

LEMMA NumJoined ==
  ASSUME NEW s, IsSeq(s), NEW J, NEW K, NEW o
  PROVE  Num(s, J \cup K, o) <= Num(s, J, o) + Num(s, K, o)
<1>1. Hits(s, J \cup K, o) = Hits(s, J, o) \cup Hits(s, K, o)
  BY DEF Hits
<1>2. IsFiniteSet(Hits(s, J, o)) /\ IsFiniteSet(Hits(s, K, o))
  BY NumType
<1>. QED
  BY <1>1, <1>2, UnionCount DEF Num

LEMMA LenCounts ==
  ASSUME NEW s, GoodCmds(s)
  PROVE  Len(s) <= Num(s, CbKey, "READ") + Num(s, CbKey, "PGM") + Num(s, CbKey, "ERB")
<1> DEFINE R == Hits(s, CbKey, "READ")
           P == Hits(s, CbKey, "PGM")
           E == Hits(s, CbKey, "ERB")
<1>1. IsSeq(s) /\ Len(s) \in Nat /\ DOMAIN s = 1 .. Len(s)
  BY SeqFacts DEF GoodCmds
<1>2. \A i \in DOMAIN s : s[i].cb \in CbKey /\ s[i].op \in {"READ", "PGM", "ERB"}
  BY DEF GoodCmds, GoodCmd, Elems, Ops
<1>3. DOMAIN s = (R \cup P) \cup E
  BY <1>2 DEF Hits
<1>4. IsFiniteSet(R) /\ IsFiniteSet(P) /\ IsFiniteSet(E)
  BY <1>1, NumType
<1> HIDE DEF R, P, E
<1>5. /\ IsFiniteSet(R \cup P) /\ Cardinality(R \cup P) \in Nat
      /\ Cardinality(R) \in Nat /\ Cardinality(P) \in Nat
      /\ Cardinality(R \cup P) <= Cardinality(R) + Cardinality(P)
  BY <1>4, UnionCount
<1>6. /\ Cardinality(E) \in Nat /\ Cardinality((R \cup P) \cup E) \in Nat
      /\ Cardinality((R \cup P) \cup E) <= Cardinality(R \cup P) + Cardinality(E)
  BY <1>4, <1>5, UnionCount
<1>7. Cardinality(DOMAIN s) = Len(s)
  <2>1. Cardinality(1 .. Len(s)) = IF 1 > Len(s) THEN 0 ELSE Len(s) - 1 + 1
    BY <1>1, FS_Interval
  <2>. QED
    BY <1>1, <2>1
<1>8. Len(s) <= Cardinality(R) + Cardinality(P) + Cardinality(E)
  <2>1. Cardinality((R \cup P) \cup E) = Len(s)
    BY <1>3, <1>7
  <2>. QED
    BY <1>5, <1>6, <2>1
<1>. QED
  BY <1>8 DEF R, P, E, Num

CntAll(k) == Cnt[k]["READ"] + Cnt[k]["PGM"] + Cnt[k]["ERB"]

\* The commands queued, by their issuers.
LEMMA QueueCounts ==
  ASSUME IoTypes, NEW o
  PROVE  Num(nq, CbKey, o) <= Num(nq, {"User"}, o) + Num(nq, {"Meta"}, o)
                              + Num(nq, {"Mig"}, o) + Num(nq, {"UErs"}, o)
<1>1. IsSeq(nq)
  BY BothQueues
<1>2. CbKey = ({"User"} \cup {"Meta"}) \cup ({"Mig"} \cup {"UErs"})
  BY KeysDiffer
<1>3. /\ Num(nq, {"User"} \cup {"Meta"}, o) <= Num(nq, {"User"}, o) + Num(nq, {"Meta"}, o)
      /\ Num(nq, {"Mig"} \cup {"UErs"}, o) <= Num(nq, {"Mig"}, o) + Num(nq, {"UErs"}, o)
      /\ Num(nq, CbKey, o)
           <= Num(nq, {"User"} \cup {"Meta"}, o) + Num(nq, {"Mig"} \cup {"UErs"}, o)
  BY <1>1, <1>2, NumJoined
<1>4. /\ Num(nq, {"User"}, o) \in Nat /\ Num(nq, {"Meta"}, o) \in Nat
      /\ Num(nq, {"Mig"}, o) \in Nat /\ Num(nq, {"UErs"}, o) \in Nat
      /\ Num(nq, {"User"} \cup {"Meta"}, o) \in Nat
      /\ Num(nq, {"Mig"} \cup {"UErs"}, o) \in Nat /\ Num(nq, CbKey, o) \in Nat
  BY <1>1, NumType
<1> DEFINE n == Num(nq, CbKey, o)
           u == Num(nq, {"User"}, o)
           m == Num(nq, {"Meta"}, o)
           g == Num(nq, {"Mig"}, o)
           e == Num(nq, {"UErs"}, o)
           x == Num(nq, {"User"} \cup {"Meta"}, o)
           y == Num(nq, {"Mig"} \cup {"UErs"}, o)
<1> HIDE DEF n, u, m, g, e, x, y
<1>5. /\ u \in Nat /\ m \in Nat /\ g \in Nat /\ e \in Nat /\ x \in Nat /\ y \in Nat /\ n \in Nat
      /\ x <= u + m /\ y <= g + e /\ n <= x + y
  BY <1>3, <1>4 DEF n, u, m, g, e, x, y
<1>6. n <= u + m + g + e
  BY <1>5
<1>. QED
  BY <1>6 DEF n, u, m, g, e

LEMMA KeyCounts ==
  ASSUME IoTypes, NEW k \in CbKey
  PROVE  /\ CntAll(k) \in Nat
         /\ Len(done[k]) \in Nat
         /\ Num(nq, {k}, "READ") \in Nat /\ Num(nq, {k}, "PGM") \in Nat
         /\ Num(nq, {k}, "ERB") \in Nat
         /\ Num(nq, {k}, "READ") + Num(nq, {k}, "PGM") + Num(nq, {k}, "ERB") + Len(done[k])
              <= CntAll(k)
<1> DEFINE D(o) == Num(done[k], CbKey, o)
           Q(o) == Num(nq, {k}, o)
<1>1. \A o \in Ops : Cnt[k][o] = Q(o) + D(o) /\ Q(o) \in Nat /\ D(o) \in Nat
  BY CntIs
<1>2. /\ Cnt[k]["READ"] = Q("READ") + D("READ") /\ Q("READ") \in Nat /\ D("READ") \in Nat
      /\ Cnt[k]["PGM"] = Q("PGM") + D("PGM") /\ Q("PGM") \in Nat /\ D("PGM") \in Nat
      /\ Cnt[k]["ERB"] = Q("ERB") + D("ERB") /\ Q("ERB") \in Nat /\ D("ERB") \in Nat
  BY <1>1, KeysDiffer
<1>3. GoodCmds(done[k]) /\ IsSeq(done[k])
  BY DEF IoTypes, GoodCmds
<1>4. Len(done[k]) \in Nat /\ Len(done[k]) <= D("READ") + D("PGM") + D("ERB")
  BY <1>3, SeqFacts, LenCounts
<1> DEFINE q1 == Q("READ")
           q2 == Q("PGM")
           q3 == Q("ERB")
           d1 == D("READ")
           d2 == D("PGM")
           d3 == D("ERB")
           l  == Len(done[k])
<1>5. CntAll(k) = (q1 + d1) + (q2 + d2) + (q3 + d3)
  <2> HIDE DEF D, Q, Cnt
  <2>. QED
    BY <1>2 DEF CntAll
<1>6. /\ q1 \in Nat /\ q2 \in Nat /\ q3 \in Nat /\ d1 \in Nat /\ d2 \in Nat /\ d3 \in Nat
      /\ l \in Nat /\ l <= d1 + d2 + d3
  BY <1>2, <1>4
<1> HIDE DEF q1, q2, q3, d1, d2, d3, l
<1>7. /\ (q1 + d1) + (q2 + d2) + (q3 + d3) \in Nat
      /\ q1 + q2 + q3 + l <= (q1 + d1) + (q2 + d2) + (q3 + d3)
  BY <1>6
<1>8. CntAll(k) \in Nat /\ q1 + q2 + q3 + l <= CntAll(k)
  BY <1>5, <1>7
<1> HIDE DEF CntAll
<1>. QED
  BY <1>6, <1>8 DEF q1, q2, q3, l

LEMMA OutstandingCounts ==
  ASSUME IoTypes
  PROVE  /\ Outstanding \in Nat
         /\ Outstanding <= CntAll("User") + CntAll("Meta") + CntAll("Mig") + CntAll("UErs")
<1> DEFINE N(o) == Num(nq, CbKey, o)
           Q(k, o) == Num(nq, {k}, o)
           L(k) == Len(done[k])
<1>1. GoodCmds(nq) /\ IsSeq(nq)
  BY BothQueues
<1>2. /\ Len(nq) \in Nat /\ Len(nq) <= N("READ") + N("PGM") + N("ERB")
      /\ N("READ") \in Nat /\ N("PGM") \in Nat /\ N("ERB") \in Nat
  BY <1>1, SeqFacts, LenCounts, NumType
<1>3. \A o : N(o) <= Q("User", o) + Q("Meta", o) + Q("Mig", o) + Q("UErs", o)
  BY QueueCounts
<1>4. \A k \in CbKey :
        /\ CntAll(k) \in Nat /\ L(k) \in Nat
        /\ Q(k, "READ") \in Nat /\ Q(k, "PGM") \in Nat /\ Q(k, "ERB") \in Nat
        /\ Q(k, "READ") + Q(k, "PGM") + Q(k, "ERB") + L(k) <= CntAll(k)
  BY KeyCounts
<1>5. Outstanding = Len(nq) + L("User") + L("Meta") + L("Mig") + L("UErs")
  BY DEF Outstanding
<1>6. "User" \in CbKey /\ "Meta" \in CbKey /\ "Mig" \in CbKey /\ "UErs" \in CbKey
  BY KeysDiffer
<1> DEFINE S(k) == Q(k, "READ") + Q(k, "PGM") + Q(k, "ERB")
           n  == Len(nq)
           u1 == Q("User", "READ")
           u2 == Q("User", "PGM")
           u3 == Q("User", "ERB")
           m1 == Q("Meta", "READ")
           m2 == Q("Meta", "PGM")
           m3 == Q("Meta", "ERB")
           g1 == Q("Mig", "READ")
           g2 == Q("Mig", "PGM")
           g3 == Q("Mig", "ERB")
           e1 == Q("UErs", "READ")
           e2 == Q("UErs", "PGM")
           e3 == Q("UErs", "ERB")
           n1 == N("READ")
           n2 == N("PGM")
           n3 == N("ERB")
           su == S("User")
           lu == L("User")
           cu == CntAll("User")
           sm == S("Meta")
           lm == L("Meta")
           cm == CntAll("Meta")
           sg == S("Mig")
           lg == L("Mig")
           cg == CntAll("Mig")
           se == S("UErs")
           le == L("UErs")
           ce == CntAll("UErs")
<1>7. /\ u1 \in Nat /\ u2 \in Nat /\ u3 \in Nat /\ lu \in Nat /\ cu \in Nat
      /\ u1 + u2 + u3 + lu <= cu
      /\ m1 \in Nat /\ m2 \in Nat /\ m3 \in Nat /\ lm \in Nat /\ cm \in Nat
      /\ m1 + m2 + m3 + lm <= cm
      /\ g1 \in Nat /\ g2 \in Nat /\ g3 \in Nat /\ lg \in Nat /\ cg \in Nat
      /\ g1 + g2 + g3 + lg <= cg
      /\ e1 \in Nat /\ e2 \in Nat /\ e3 \in Nat /\ le \in Nat /\ ce \in Nat
      /\ e1 + e2 + e3 + le <= ce
  BY <1>4, <1>6
<1>8. /\ n1 \in Nat /\ n1 <= u1 + m1 + g1 + e1
      /\ n2 \in Nat /\ n2 <= u2 + m2 + g2 + e2
      /\ n3 \in Nat /\ n3 <= u3 + m3 + g3 + e3
      /\ n \in Nat /\ n <= n1 + n2 + n3
  BY <1>2, <1>3
<1>9. /\ su = u1 + u2 + u3
       /\ sm = m1 + m2 + m3
       /\ sg = g1 + g2 + g3
       /\ se = e1 + e2 + e3
  OBVIOUS
<1>10. Outstanding = n + lu + lm + lg + le
  BY <1>5
<1> HIDE DEF S, n, u1, u2, u3, m1, m2, m3, g1, g2, g3, e1, e2, e3,
             n1, n2, n3, su, lu, cu, sm, lm, cm, sg, lg, cg, se, le, ce, Outstanding
<1>11. /\ su \in Nat /\ su + lu <= cu
       /\ sm \in Nat /\ sm + lm <= cm
       /\ sg \in Nat /\ sg + lg <= cg
       /\ se \in Nat /\ se + le <= ce
  BY <1>7, <1>9
<1>12. n <= su + sm + sg + se
  <2>1. n <= (u1 + m1 + g1 + e1) + (u2 + m2 + g2 + e2) + (u3 + m3 + g3 + e3)
    BY <1>7, <1>8
  <2>. QED
    BY <1>7, <1>8, <1>9, <2>1
<1>13. n + lu + lm + lg + le \in Nat /\ n + lu + lm + lg + le <= cu + cm + cg + ce
  BY <1>7, <1>8, <1>11, <1>12
<1>. QED
  BY <1>10, <1>13 DEF cu, cm, cg, ce

\* GC: as many reads, and as many programs and erases; and while the head of
\* its queue is a read, one less of these.
LEMMA MigFew ==
  ASSUME IoTypes, MoveOrder
  PROVE  /\ CntAll("Mig") <= 2 * MAX_GC_READ
         /\ HasDone("Mig") /\ DoneHead("Mig").op = "READ" => CntAll("Mig") + 1 <= 2 * MAX_GC_READ
<1> DEFINE d == done["Mig"]
           D(o) == Num(d, {"Mig"}, o)
           Q(o) == Num(nq, {"Mig"}, o)
<1>0. MAX_GC_READ \in Nat
  BY GcAssumption
<1>1. /\ "Mig" \in CbKey /\ GoodCmds(d) /\ GoodCmds(nq) /\ IsSeq(d) /\ IsSeq(nq)
      /\ Len(d) \in Nat /\ Len(nq) \in Nat
      /\ \A i \in Int : Joint(d, nq, i) <= MAX_GC_READ /\ Joint(d, nq, i) \in Nat
  BY BothQueues, SeqFacts DEF MoveOrder
<1>2. \A c \in Elems(d) : c.cb = "Mig"
  BY <1>1 DEF IoTypes
<1>3. \A o : Num(d, CbKey, o) = D(o)
  <2>1. \A i \in DOMAIN d : d[i].cb = "Mig"
    BY <1>2 DEF Elems
  <2>2. \A o : Hits(d, CbKey, o) = Hits(d, {"Mig"}, o)
    BY <1>1, <2>1 DEF Hits
  <2>. QED
    BY <2>2 DEF Num
<1>4. /\ Joint(d, nq, Len(d) + Len(nq)) = D("READ") + Q("READ")
      /\ Joint(d, nq, 0) = D("PGM") + D("ERB") + Q("PGM") + Q("ERB")
      /\ Len(d) + Len(nq) \in Int
  BY <1>1, JointReads, JointWrites
<1>5. /\ D("READ") \in Nat /\ D("PGM") \in Nat /\ D("ERB") \in Nat
      /\ Q("READ") \in Nat /\ Q("PGM") \in Nat /\ Q("ERB") \in Nat
  BY <1>1, NumType
<1>6. /\ Cnt["Mig"]["READ"] = Q("READ") + D("READ") /\ Cnt["Mig"]["PGM"] = Q("PGM") + D("PGM")
      /\ Cnt["Mig"]["ERB"] = Q("ERB") + D("ERB")
  BY <1>1, <1>3, CntIs, KeysDiffer
<1>7. CntAll("Mig") = Joint(d, nq, Len(d) + Len(nq)) + Joint(d, nq, 0)
  <2> HIDE DEF D, Q, Cnt, d
  <2>. QED
    BY <1>4, <1>5, <1>6 DEF CntAll
<1>8. CntAll("Mig") <= 2 * MAX_GC_READ
  <2> HIDE DEF d, CntAll
  <2>. QED
    BY <1>0, <1>1, <1>4, <1>7
<1>9. ASSUME HasDone("Mig"), DoneHead("Mig").op = "READ"
      PROVE  Joint(d, nq, 0) + 1 <= MAX_GC_READ
  <2>1. d # <<>> /\ Head(d).op = "READ" /\ Head(d).cb = "Mig" /\ IsSeq(Tail(d))
    <3>1. d # <<>> /\ Head(d).op = "READ"
      BY <1>9 DEF HasDone, DoneHead
    <3>2. IsSeq(Tail(d)) /\ Head(d) \in Elems(d)
      BY <1>1, <3>1, TailFacts
    <3>. QED
      BY <1>2, <3>1, <3>2
  <2>2. CutNum(<<Head(d)>>, 1) = 1 /\ CutNum(<<Head(d)>>, 0) = 0
    BY <2>1, CutOne
  <2> HIDE DEF d
  <2>3. \A y \in Int : Joint(d, nq, y + 1) = CutNum(<<Head(d)>>, y + 1) + Joint(Tail(d), nq, y)
    BY <1>1, <2>1, JointTail
  <2>4. Joint(d, nq, 1) = 1 + Joint(Tail(d), nq, 0)
    <3>1. 0 \in Int /\ 0 + 1 = 1
      OBVIOUS
    <3>2. Joint(d, nq, 0 + 1) = CutNum(<<Head(d)>>, 0 + 1) + Joint(Tail(d), nq, 0)
      BY <2>3, <3>1
    <3>. QED
      BY <2>2, <3>1, <3>2
  <2>5. Joint(d, nq, 0) = 0 + Joint(Tail(d), nq, 0)
    <3>1. PICK z : z \in Int /\ z + 1 = 0 /\ z <= 0
      <4>1. -1 \in Int /\ -1 + 1 = 0 /\ -1 <= 0
        OBVIOUS
      <4>. QED
        BY <4>1
    <3>2. Joint(d, nq, z + 1) = CutNum(<<Head(d)>>, z + 1) + Joint(Tail(d), nq, z)
      BY <2>3, <3>1
    <3>3. Joint(Tail(d), nq, z) = Joint(Tail(d), nq, 0)
      BY <1>1, <2>1, <3>1, JointLow
    <3>. QED
      BY <2>2, <3>1, <3>2, <3>3
  <2>6. Joint(Tail(d), nq, 0) \in Nat
    BY <1>1, <2>1, JointType
  <2>. QED
    BY <1>0, <1>1, <2>4, <2>5, <2>6
<1>10. ASSUME HasDone("Mig"), DoneHead("Mig").op = "READ"
       PROVE  CntAll("Mig") + 1 <= 2 * MAX_GC_READ
  <2>1. Joint(d, nq, 0) + 1 <= MAX_GC_READ
    BY <1>9, <1>10
  <2> DEFINE x == Joint(d, nq, Len(d) + Len(nq))
             y == Joint(d, nq, 0)
  <2>2. x \in Nat /\ x <= MAX_GC_READ /\ y \in Nat
    <3>1. 0 \in Int /\ Len(d) + Len(nq) \in Int
      BY <1>4
    <3>. QED
      BY <1>1, <3>1
  <2>3. y + 1 <= MAX_GC_READ /\ CntAll("Mig") = x + y
    BY <1>7, <2>1
  <2> HIDE DEF d, CntAll, x, y
  <2>. QED
    BY <1>0, <2>2, <2>3
<1>. QED
  BY <1>8, <1>10

\* The host has one request outstanding, whether its command or its erase is
\* under way; and META, when it is not opening, one program or erase.
LEMMA UserFew ==
  ASSUME MapInv, RestInv, HostInv
  PROVE  /\ CntAll("User") + CntAll("UErs") <= 1
         /\ Opening => CntAll("User") = 0 /\ CntAll("UErs") = 0
<1>1. /\ Cnts("UErs", 0, 0, IF erb["USER"].step = "WaitErb" THEN 1 ELSE 0)
      /\ erb["USER"].step # "Init" => reqSt = "Run"
      /\ Opening => reqSt = "WaitOpen"
      /\ IoTypes
  BY DEF RestInv, ErbInv, MapInv
<1>2. /\ Len(reqQ) + (IF reqSt = "Run" THEN 1 ELSE 0) + CntAll("User")
           = (IF pend = NoReq THEN 0 ELSE 1)
      /\ IsSeq(reqQ)
      /\ Opening => Under["User"] = {}
  BY DEF HostInv, OneRequest, UserCnt, CntAll
<1>3. /\ CntAll("User") \in Nat /\ Len(reqQ) \in Nat
  BY <1>1, <1>2, KeysDiffer, KeyCounts, SeqFacts
<1>4. CntAll("UErs") = IF erb["USER"].step = "WaitErb" THEN 1 ELSE 0
  <2>1. /\ Cnt["UErs"]["READ"] = 0 /\ Cnt["UErs"]["PGM"] = 0
        /\ Cnt["UErs"]["ERB"] = IF erb["USER"].step = "WaitErb" THEN 1 ELSE 0
    BY <1>1 DEF Cnts
  <2> HIDE DEF Cnt
  <2>. QED
    BY <2>1 DEF CntAll
<1>5. Opening => CntAll("User") = 0
  <2> SUFFICES ASSUME Opening PROVE CntAll("User") = 0
    OBVIOUS
  <2>1. \A o \in Ops : Cnt["User"][o] = 0
    BY <1>1, <1>2, CntZero, KeysDiffer
  <2>2. Cnt["User"]["READ"] = 0 /\ Cnt["User"]["PGM"] = 0 /\ Cnt["User"]["ERB"] = 0
    BY <2>1, KeysDiffer
  <2> HIDE DEF Cnt
  <2>. QED
    BY <2>2 DEF CntAll
<1> HIDE DEF CntAll, Opening
<1>6. CASE erb["USER"].step = "WaitErb"
  BY <1>1, <1>2, <1>3, <1>4, <1>5, <1>6
<1>7. CASE erb["USER"].step # "WaitErb"
  <2>1. CntAll("User") <= 1
    BY <1>2, <1>3
  <2>. QED
    BY <1>3, <1>4, <1>5, <1>7, <2>1
<1>. QED
  BY <1>6, <1>7

LEMMA MetaCount ==
  ASSUME RestInv, MetaFew
  PROVE  /\ CntAll("Meta") \in Nat
         /\ ~Opening => CntAll("Meta") <= 1
         /\ CntAll("Meta") <= 2
<1>1. IoTypes /\ ReadInv /\ ScanInv /\ SaveInv /\ CntAll("Meta") \in Nat
  BY KeysDiffer, KeyCounts DEF RestInv, MetaInv
<1>2. /\ Cnt["Meta"]["READ"] \in Nat /\ Cnt["Meta"]["PGM"] \in Nat /\ Cnt["Meta"]["ERB"] \in Nat
  BY <1>1, CntIs, KeysDiffer
<1>3. \A r, p, e : Cnts("Meta", r, p, e) => CntAll("Meta") = r + p + e
  BY DEF Cnts, CntAll
<1>4. CASE mt \in {"Init", "Ready", "SaveErase", "SaveProgram"}
  <2>1. \/ Cnts("Meta", 0, 0, 0) \/ Cnts("Meta", 0, 0, 1) \/ Cnts("Meta", 0, 1, 0)
    BY <1>1, <1>4 DEF SaveInv
  <2>2. CntAll("Meta") <= 1
    <3>1. \/ CntAll("Meta") = 0 + 0 + 0 \/ CntAll("Meta") = 0 + 0 + 1 \/ CntAll("Meta") = 0 + 1 + 0
      BY <1>3, <2>1
    <3> HIDE DEF CntAll
    <3>. QED
      BY <3>1
  <2> HIDE DEF CntAll
  <2>. QED
    BY <1>1, <2>2
<1>5. CASE mt = "Open"
  <2>1. CASE Reading
    <3>1. Cnts("Meta", os.iss - os.dn, 0, 0) /\ os.iss \in Nat /\ os.dn \in Nat /\ os.iss <= os.dn + 2
      BY <1>1, <2>1 DEF ReadInv, ReadState
    <3>2. CntAll("Meta") = (os.iss - os.dn) + 0 + 0
      BY <1>3, <3>1
    <3> HIDE DEF CntAll
    <3>3. CntAll("Meta") <= 2
      BY <3>1, <3>2
    <3>. QED
      BY <1>1, <1>5, <3>3 DEF Opening
  <2>2. CASE Scanning
    <3>1. Cnts("Meta", us.nRun, 0, 0) /\ us.nRun \in 0 .. 2
      BY <1>1, <2>2 DEF Scanning, ScanInv, ScanState
    <3>2. CntAll("Meta") = us.nRun + 0 + 0
      BY <1>3, <3>1
    <3> HIDE DEF CntAll
    <3>3. CntAll("Meta") <= 2
      BY <3>1, <3>2
    <3>. QED
      BY <1>1, <1>5, <3>3 DEF Opening
  <2>. QED
    BY <1>5, <2>1, <2>2 DEF MetaFew
<1>6. CASE mt = "Assert"
  <2>1. Cnt["Meta"]["READ"] <= 2 /\ Cnt["Meta"]["PGM"] = 0 /\ Cnt["Meta"]["ERB"] = 0
    BY <1>6 DEF MetaFew, NoWrites
  <2> HIDE DEF Cnt
  <2>2. CntAll("Meta") <= 2
    BY <1>2, <2>1 DEF CntAll
  <2>. QED
    BY <1>1, <1>6, <2>2 DEF Opening
<1>. QED
  BY <1>1, <1>4, <1>5, <1>6 DEF SaveInv

LEMMA PoolEnough ==
  ASSUME NUM_NAND_CMD >= 2 * MAX_GC_READ + 2,
         IInv, MoveOrder, HostInv, MetaFew
  PROVE  IoPoolSuffices
<1>1. MapInv /\ RestInv /\ IoTypes
  BY DEF IInv, RestInv
<1>2. /\ Outstanding \in Nat
      /\ Outstanding <= CntAll("User") + CntAll("Meta") + CntAll("Mig") + CntAll("UErs")
  BY <1>1, OutstandingCounts
<1>3. /\ CntAll("User") \in Nat /\ CntAll("Meta") \in Nat
      /\ CntAll("Mig") \in Nat /\ CntAll("UErs") \in Nat
  BY <1>1, KeyCounts, KeysDiffer
<1>4. /\ CntAll("User") + CntAll("UErs") <= 1
      /\ Opening => CntAll("User") = 0 /\ CntAll("UErs") = 0
  BY <1>1, UserFew
<1>5. CntAll("Meta") <= 2 /\ (~Opening => CntAll("Meta") <= 1)
  BY <1>1, MetaCount
<1>6. /\ CntAll("Mig") <= 2 * MAX_GC_READ
      /\ AllocsForMove => CntAll("Mig") + 1 <= 2 * MAX_GC_READ
  BY <1>1, MigFew DEF AllocsForMove, Moving
<1>7. Opening => CntAll("Mig") = 0 /\ ~AllocsForMove
  <2> SUFFICES ASSUME Opening PROVE CntAll("Mig") = 0 /\ ~AllocsForMove
    OBVIOUS
  <2>1. gcSt = "WaitOpen"
    BY <1>1 DEF MapInv
  <2>2. Cnt["Mig"]["READ"] = 0 /\ Cnt["Mig"]["PGM"] = 0 /\ Cnt["Mig"]["ERB"] = 0
    BY <1>1, <2>1 DEF RestInv, MigInv, Cnts
  <2>3. CntAll("Mig") = 0
    <3> HIDE DEF Cnt
    <3>. QED
      BY <2>2 DEF CntAll
  <2>. QED
    BY <2>1, <2>3 DEF AllocsForMove, Moving
<1>8. NUM_NAND_CMD \in Nat /\ MAX_GC_READ \in Nat
  BY SizeAssumption, GcAssumption
<1> HIDE DEF Outstanding, CntAll, Opening, AllocsForMove
<1>9. CASE Opening
  <2>1. Outstanding <= 2
    BY <1>2, <1>3, <1>4, <1>5, <1>7, <1>9
  <2>. QED
    BY <1>2, <1>7, <1>8, <1>9, <2>1 DEF IoPoolSuffices
<1>10. CASE ~Opening
  <2>1. Outstanding <= CntAll("Mig") + 2
    BY <1>2, <1>3, <1>4, <1>5, <1>10
  <2>. QED
    BY <1>2, <1>3, <1>6, <1>8, <2>1 DEF IoPoolSuffices
<1>. QED
  BY <1>9, <1>10

(* The command pool is never exhausted (io.cpp:90-100) if it has a command *)
(* for each read GC may have under way and for what it does with it, one   *)
(* for the host and one for META: gc_Move_SM limits its reads alone        *)
(* (page_gc.cpp:199), which limits the programs as well.                   *)
THEOREM IoPoolHolds ==
  ASSUME NUM_NAND_CMD >= 2 * MAX_GC_READ + 2
  PROVE  Spec => []IoPoolSuffices
<1>1. IInv /\ MoveOrder /\ HostInv /\ MetaFew => IoPoolSuffices
  BY PoolEnough
<1>. QED
  BY <1>1, IInvHolds, OrderHolds, HostHolds, FewHolds, PTL
=============================================================================
