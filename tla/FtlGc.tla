------------------------------- MODULE FtlGc --------------------------------
(***************************************************************************)
(* Garbage collection (ftl/page_gc.cpp): the pool of free blocks, the      *)
(* erase of a block taken from it (which the REQ task runs too, for the    *)
(* user stream), and the move of the valid pages of victim blocks to the   *)
(* open block of the GC stream.                                            *)
(***************************************************************************)
EXTENDS FtlOpen

CONSTANTS
  SIZE_FREE_POOL,
  GC_TRIG_BLK_CNT,  \* GC runs when the pool holds no more blocks than that
  MAX_GC_READ       \* reads a move has under way

ASSUME GcAssumption ==
  /\ SIZE_FREE_POOL \in Nat /\ GC_TRIG_BLK_CNT \in Nat
  /\ SIZE_FREE_POOL > GC_TRIG_BLK_CNT   \* the static_assert of page_gc.h
  /\ MAX_GC_READ \in Nat \ {0}

VARIABLES
  gcSt,   \* GcStk.eState
  mv,     \* MoveStk
  pool,   \* gstFreePool
  erb     \* the ErbStk of each stream's opener

gcVars == <<gcSt, mv, pool, erb>>

NoBlk == 65535   \* FF16 as a block number

GcState == {"WaitOpen", "WaitReq", "GetDst", "ErsDst", "Move", "Stop"}

MvIdle == [dst |-> NoBlk, dwl |-> 0, src |-> NoBlk, swl |-> 0,
           rd |-> 0, pg |-> 0, data |-> 0]

ErbIdle == [step |-> "Init", blk |-> NoBlk, age |-> 0]

GcInit ==
  /\ gcSt = "WaitOpen"
  /\ mv = MvIdle
  /\ pool = <<>>
  /\ erb = [o \in OpenType |-> ErbIdle]

-----------------------------------------------------------------------------
(* gc_ScanFree: closed blocks without valid page join the pool, the lowest *)
(* first, until the pool is full.                                          *)

\* Mutant of FreeBlks: closed blocks with valid pages.
FreeBlks_Valid(bs) == {b \in UBlk : bs[b] = "Closed"}
FreeBlks(bs) == {b \in UBlk : bs[b] = "Closed" /\ vpc[b] = 0}

\* The blocks taken: the lowest ones, in ascending order (one such sequence).
Taken(bs) ==
  LET n == Lesser(SIZE_FREE_POOL - Len(pool), Cardinality(FreeBlks(bs))) IN
  {s \in [1 .. n -> FreeBlks(bs)] :
     /\ \A i, j \in 1 .. n : i < j => s[i] < s[j]
     /\ \A b \in FreeBlks(bs) : (\A i \in 1 .. n : s[i] # b)
                                   => \A i \in 1 .. n : s[i] < b}

\* gc_ScanFree over the block states bs.
ScanFree(bs) ==
  \E s \in Taken(bs) :
    /\ pool' = pool \o s
    /\ bst' = [b \in UBlk |-> IF \E i \in DOMAIN s : s[i] = b THEN "InFree" ELSE bs[b]]

\* META_GetMinVPC: the lowest of the closed blocks with the fewest valid
\* pages, not counting blocks that have none; NoBlk if there is no block left.
Victims ==
  LET C == {b \in UBlk : bst[b] = "Closed" /\ vpc[b] # 0} IN
  IF C = {} THEN {NoBlk}
  ELSE {b \in C : \A c \in C : vpc[b] < vpc[c] \/ (vpc[b] = vpc[c] /\ b <= c)}

-----------------------------------------------------------------------------
(* GC_BlkErase_SM, for stream o, run by task t.  The erase comes first;    *)
(* then it is journaled, and the block is used once the journal is saved.  *)

\* Mutant of ErbKey: one done queue for both streams.
ErbKey_Shared(o) == "Mig"
ErbKey(o)  == IF o = "GC" THEN "Mig" ELSE "UErs"
TaskOf(o)  == IF o = "GC" THEN TID_GC ELSE TID_REQ

ErbStart(o, b, trig) ==
  /\ erb' = [erb EXCEPT ![o] = [step |-> "WaitErb", blk |-> b, age |-> 0]]
  /\ Issue(<<EraseCmd(ErbKey(o), b)>>)
  /\ WaitFor(TaskOf(o), {"NAND_CMD"}, trig)

\* META_AddErbJnl, and META_ReqSave when the journal takes the entry.
ErbJournal(o, trig) ==
  /\ IF JnlAccepts
     THEN /\ jnl' = JnlPlusErase(erb[o].blk, o)
          /\ erb' = [erb EXCEPT ![o].step = "WaitMtSave", ![o].age = mctx.age]
     ELSE /\ UNCHANGED jnl
          /\ erb' = [erb EXCEPT ![o].step = "WaitJnlAdd"]
  /\ META_ReqSave(JnlAccepts)
  /\ WaitFor(TaskOf(o), {"META"}, trig \cup META_ReqEvt(JnlAccepts))

ErbErased(o) ==
  /\ erb[o].step = "WaitErb" /\ HasDone(ErbKey(o))
  /\ PopDone(ErbKey(o))
  /\ ErbJournal(o, {"IO_FREE"})
  /\ UNCHANGED <<die, nq>>

ErbRetry(o) ==
  /\ erb[o].step = "WaitJnlAdd"
  /\ ErbJournal(o, {})
  /\ UNCHANGED ioVars

ErbWait(o) ==
  /\ \/ /\ erb[o].step = "WaitErb" /\ ~HasDone(ErbKey(o))
        /\ WaitFor(TaskOf(o), {"NAND_CMD"}, {})
     \/ /\ erb[o].step = "WaitMtSave" /\ mctx.age <= erb[o].age
        /\ WaitFor(TaskOf(o), {"META"}, {})
  /\ UNCHANGED <<ioVars, jnlVars, erb>>

\* A call of the state machine that returns false.
ErbGoesOn(o) == ErbErased(o) \/ ErbRetry(o) \/ ErbWait(o)

\* Mutant of ErbOver: does not wait for the age to advance.
ErbOver_SameAge(o) ==
  /\ erb[o].step = "WaitMtSave" /\ mctx.age >= erb[o].age
  /\ erb' = [erb EXCEPT ![o] = ErbIdle]

\* A call that returns true: the age has advanced, the journal is saved.
ErbOver(o) ==
  /\ erb[o].step = "WaitMtSave" /\ mctx.age > erb[o].age
  /\ erb' = [erb EXCEPT ![o] = ErbIdle]

-----------------------------------------------------------------------------
(* gc_Run.  Every action is a turn of GC, or a part of it.                 *)

otherThanGc == <<map, vpc, opn, jnlVars, mctx, mt, openVars>>

GcWaitOpen ==
  /\ gcSt = "WaitOpen" /\ ~META_Ready
  /\ WaitFor(TID_GC, {"OPEN"}, {})
  /\ UNCHANGED <<ioVars, otherThanGc, bst, gcVars>>

MoveInto(b, w) == [MvIdle EXCEPT !.dst = b, !.dwl = w, !.data = w]

\* The block GC was filling at power off is filled up first; gc_Move_SM runs
\* in the same turn.
GcResume ==
  /\ gcSt = "WaitOpen" /\ META_Ready /\ opn["GC"].wl < NUM_WL
  /\ ScanFree(bst)
  /\ mv' = MoveInto(opn["GC"].blk, opn["GC"].wl)
  /\ gcSt' = "Move"
  /\ Stay(TID_GC, {})
  /\ UNCHANGED <<ioVars, otherThanGc, erb>>

GcOpened ==
  /\ gcSt = "WaitOpen" /\ META_Ready /\ opn["GC"].wl >= NUM_WL
  /\ gcSt' = "WaitReq"
  /\ Yield(TID_GC, {})
  /\ UNCHANGED <<ioVars, otherThanGc, bst, mv, pool, erb>>

GcWaitReq ==
  /\ gcSt = "WaitReq"
  /\ ScanFree(bst)
  /\ IF Len(pool') <= GC_TRIG_BLK_CNT
     THEN /\ gcSt' = "GetDst"
          /\ Yield(TID_GC, IF Len(pool') > 0 /\ Len(pool) < SIZE_FREE_POOL
                           THEN {"NEW_BLK"} ELSE {})
     ELSE /\ UNCHANGED gcSt
          /\ WaitFor(TID_GC, {"BLK_REQ"}, {"NEW_BLK"})
  /\ UNCHANGED <<ioVars, otherThanGc, mv, erb>>

\* PopHead asserts that the pool is not empty.
GcGetDst ==
  /\ gcSt = "GetDst" /\ pool # <<>>
  /\ pool' = Tail(pool)
  /\ ErbStart("GC", Head(pool), {})
  /\ gcSt' = "ErsDst"
  /\ UNCHANGED <<die, done, otherThanGc, bst, mv>>

GcErsDst ==
  /\ gcSt = "ErsDst"
  /\ ErbGoesOn("GC")
  /\ UNCHANGED <<map, vpc, opn, bst, mctx, mt, openVars, gcSt, mv, pool>>

\* gc_Move_SM runs in the same turn.
GcErsDstDone ==
  /\ gcSt = "ErsDst"
  /\ ErbOver("GC")
  /\ META_SetOpen("GC", erb["GC"].blk)
  /\ mv' = MoveInto(erb["GC"].blk, 0)
  /\ gcSt' = "Move"
  /\ Stay(TID_GC, {})
  /\ UNCHANGED <<ioVars, map, vpc, jnlVars, mctx, mt, openVars, pool>>

-----------------------------------------------------------------------------
(* gc_Move_SM: first the completed commands.                               *)

\* Mutant of StillValid: every data page read is moved.
StillValid_Always(c) == IsData(c.pg) /\ mv.dwl < NUM_WL

\* gc_HandleRead: the page read is still the valid one of its logical page.
StillValid(c) ==
  /\ IsData(c.pg) /\ mv.dwl < NUM_WL
  /\ META_GetMap(c.pg.lpn) = VAddr(mv.src, c.wl)

Moving == gcSt = "Move" /\ HasDone("Mig")

GcPgmDone ==
  /\ Moving /\ DoneHead("Mig").op = "PGM"
  /\ mv' = [mv EXCEPT !.pg = @ - 1]
  /\ PopDone("Mig")
  /\ Stay(TID_GC, {"IO_FREE"})
  /\ UNCHANGED <<die, nq, otherThanGc, bst, gcSt, pool, erb>>

\* The map changes before the page is programmed, so that a full journal can
\* hold the move back.
GcReadMoved ==
  /\ Moving /\ DoneHead("Mig").op = "READ" /\ StillValid(DoneHead("Mig"))
  /\ LET c == DoneHead("Mig") IN
     /\ MetaUpdate(c.pg.lpn, VAddr(mv.dst, mv.dwl), "GC")
     /\ Issue(<<PgmCmd("Mig", mv.dst, mv.dwl, c.pg)>>)
  /\ META_ReqSave(jnl'.busy)
  /\ mv' = [mv EXCEPT !.dwl = @ + 1, !.pg = @ + 1, !.rd = @ - 1]
  /\ PopDone("Mig")
  /\ Stay(TID_GC, {"IO_FREE"} \cup META_ReqEvt(jnl'.busy))
  /\ UNCHANGED <<die, bst, opn, mctx, mt, openVars, gcSt, pool, erb>>

\* Mutant of GcReadDropped: nDataRead is not taken back.
GcReadDropped_KeepsData ==
  /\ Moving /\ DoneHead("Mig").op = "READ" /\ ~StillValid(DoneHead("Mig"))
  /\ mv' = [mv EXCEPT !.rd = @ - 1]
  /\ PopDone("Mig")
  /\ Stay(TID_GC, {"IO_FREE"})
  /\ UNCHANGED <<die, nq, otherThanGc, bst, gcSt, pool, erb>>

GcReadDropped ==
  /\ Moving /\ DoneHead("Mig").op = "READ" /\ ~StillValid(DoneHead("Mig"))
  /\ mv' = [mv EXCEPT !.data = @ - 1, !.rd = @ - 1]
  /\ PopDone("Mig")
  /\ Stay(TID_GC, {"IO_FREE"})
  /\ UNCHANGED <<die, nq, otherThanGc, bst, gcSt, pool, erb>>

(***************************************************************************)
(* Then, once nothing more can be collected (the queue is empty, or its    *)
(* head needs a journal that is busy), what to issue next.                 *)
(***************************************************************************)
Collected ==
  /\ gcSt = "Move"
  /\ \/ ~HasDone("Mig")
     \/ /\ HasDone("Mig") /\ DoneHead("Mig").op = "READ"
        /\ StillValid(DoneHead("Mig")) /\ UpdateBusy(DoneHead("Mig").pg.lpn)

UnderWay == mv.rd > 0 \/ mv.pg > 0

\* Mutant of NandWait: the task returns without a wait.
NandWait_None == {}
NandWait == IF UnderWay THEN {"NAND_CMD"} ELSE {}

DstFull == mv.dwl = NUM_WL /\ mv.pg = 0

\* The destination is full and programmed: both blocks are closed.  (MoveStk
\* is dead then: the ErbStk of the next destination overlays it.)
GcDstFull ==
  /\ Collected /\ DstFull
  /\ bst' = [b \in UBlk |-> IF b \in {mv.src, mv.dst} THEN "Closed" ELSE bst[b]]
  /\ gcSt' = "WaitReq"
  /\ mv' = MvIdle
  /\ Yield(TID_GC, {"NEW_BLK"})
  /\ UNCHANGED <<ioVars, otherThanGc, pool, erb>>

\* Mutant of WantsRead: no limit to the reads under way.
WantsRead_NoLimit == mv.dwl < NUM_WL /\ mv.data < NUM_WL
WantsRead == mv.dwl < NUM_WL /\ mv.rd < MAX_GC_READ /\ mv.data < NUM_WL

\* gc_SetupNewSrc.  With no victim left the code marks the block FF16, out of
\* the bounds of astBI.
GcNewSrc ==
  /\ Collected /\ WantsRead /\ mv.src = NoBlk /\ mv.rd = 0
  /\ \E b \in Victims :
       /\ mv' = [mv EXCEPT !.src = b, !.swl = 0]
       /\ bst' = [c \in UBlk |-> IF c = b THEN "Victim" ELSE bst[c]]
  /\ Finish(TID_GC, NandWait, TRUE, {})
  /\ UNCHANGED <<ioVars, otherThanGc, gcSt, pool, erb>>

GcReadNext ==
  /\ Collected /\ WantsRead /\ mv.src # NoBlk /\ mv.swl < NUM_WL
  /\ Issue(<<ReadCmd("Mig", mv.src, mv.swl)>>)
  /\ mv' = [mv EXCEPT !.swl = @ + 1, !.rd = @ + 1, !.data = @ + 1]
  /\ WaitFor(TID_GC, {"NAND_CMD"}, {})
  /\ UNCHANGED <<die, done, otherThanGc, bst, gcSt, pool, erb>>

SrcRead == WantsRead /\ mv.src # NoBlk /\ mv.swl = NUM_WL

\* All programs of the victim are done: it is closed, and free if it is empty.
GcSrcDone ==
  /\ Collected /\ SrcRead /\ ~UnderWay
  /\ ScanFree([bst EXCEPT ![mv.src] = "Closed"])
  /\ mv' = [mv EXCEPT !.src = NoBlk]
  /\ Yield(TID_GC, IF Len(pool') > 0 THEN {"NEW_BLK"} ELSE {})
  /\ UNCHANGED <<ioVars, otherThanGc, gcSt, erb>>

GcMoveWait ==
  /\ Collected
  /\ ~DstFull
  /\ WantsRead => \/ mv.src = NoBlk /\ mv.rd > 0
                  \/ SrcRead /\ UnderWay
  /\ WaitFor(TID_GC, NandWait, {})
  /\ UNCHANGED <<ioVars, otherThanGc, bst, gcVars>>

GcMove ==
  \/ GcPgmDone \/ GcReadMoved \/ GcReadDropped
  \/ GcDstFull \/ GcNewSrc \/ GcReadNext \/ GcSrcDone \/ GcMoveWait

\* Mutant of GcStop: the completed commands stay in the queue.
GcStop_Keeps ==
  /\ gcSt = "Stop"
  /\ WaitFor(TID_GC, {"NAND_CMD"}, {"NEW_BLK"})
  /\ UNCHANGED <<ioVars, otherThanGc, bst, gcVars>>

\* After a shutdown request GC only returns completed commands to the pool.
GcStop ==
  /\ gcSt = "Stop"
  /\ done' = [done EXCEPT !["Mig"] = <<>>]
  /\ WaitFor(TID_GC, {"NAND_CMD"}, {"NEW_BLK"} \cup (IF HasDone("Mig") THEN {"IO_FREE"} ELSE {}))
  /\ UNCHANGED <<die, nq, otherThanGc, bst, gcVars>>

GC_Run ==
  \/ GcWaitOpen \/ GcResume \/ GcOpened \/ GcWaitReq \/ GcGetDst
  \/ GcErsDst \/ GcErsDstDone \/ GcMove \/ GcStop
=============================================================================
