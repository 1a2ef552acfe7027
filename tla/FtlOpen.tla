------------------------------ MODULE FtlOpen -------------------------------
(***************************************************************************)
(* Start of the META task after power on (meta_Open_SM and meta_Format in  *)
(* ftl/page_meta.cpp):                                                     *)
(*   BlkScan   finds the meta block whose first page is the youngest;      *)
(*   PageScan  finds the first erased page of that block;                  *)
(*   MtLoad    loads the NUM_MAP_SLICE pages before it, oldest first: each *)
(*             replays its journal, then overwrites its slice of the map;  *)
(*   GcScan and UserScan read the open block of each stream from the last  *)
(*             journaled address on and map the pages they find.           *)
(* Every phase keeps at most two reads under way.                          *)
(***************************************************************************)
EXTENDS FtlMeta

VARIABLES
  os,     \* OpenStk with its child MtBlkScanStk or MtPgStk (they overlap)
  us      \* DataScanStk

openVars == <<os, us>>

INV_BN == 255
FF16   == 65535

Lesser(a, b) == IF a < b THEN a ELSE b

\* nIssued after the issue loop: two commands under way, `total' in all.
IssueUpto(dn, total) == Lesser(dn + 2, total)

OsIdle == [step |-> "Idle", bo |-> INV_BN, age |-> 0, cpo |-> 0, iss |-> 0, dn |-> 0]
UsIdle == [blk |-> 0, wl |-> 0, ers |-> FF16, nRun |-> 0]

AllUnmapped == [l \in LPN |-> FF32]

\* The reads of the items from .. upto - 1, at the addresses At gives them.
Reads(from, upto, At(_)) ==
  [i \in 1 .. upto - from |-> ReadCmd("Meta", At(from + i - 1).blk, At(from + i - 1).wl)]

FirstPageOf(bo) == VAddr(MtBlk2PBN(bo), 0)
PageOf(bo, w)   == VAddr(MtBlk2PBN(bo), w)

Phase(s) == mt = "Open" /\ os.step = s

-----------------------------------------------------------------------------
MetaInit ==
  /\ mt = "Init"
  /\ mt' = "Open"
  /\ map' = AllUnmapped
  /\ os' = [OsIdle EXCEPT !.step = "BlkScan", !.iss = IssueUpto(0, NUM_META_BLK)]
  /\ Issue(Reads(0, os'.iss, FirstPageOf))
  /\ WaitFor(TID_META, {"NAND_CMD"}, {})
  /\ UNCHANGED <<die, done, vpc, bst, opn, jnlVars, mctx, us>>

\* BlkScan issues before it collects.
BlkScanIssue ==
  /\ Phase("BlkScan") /\ ~mid
  /\ os' = [os EXCEPT !.iss = IssueUpto(os.dn, NUM_META_BLK)]
  /\ Issue(Reads(os.iss, os'.iss, FirstPageOf))
  /\ Stay(TID_META, {})
  /\ UNCHANGED <<die, done, mapVars, jnlVars, mctx, mt, us>>

BlkScanPop ==
  /\ Phase("BlkScan") /\ mid /\ HasDone("Meta")
  /\ LET c == DoneHead("Meta") IN
     os' = IF ~IsErased(c.pg) /\ c.pg.age > os.age
           THEN [os EXCEPT !.dn = @ + 1, !.age = c.pg.age, !.bo = c.blk - NUM_USER_BLK]
           ELSE [os EXCEPT !.dn = @ + 1]
  /\ PopDone("Meta")
  /\ Stay(TID_META, {"IO_FREE"})
  /\ UNCHANGED <<die, nq, mapVars, jnlVars, mctx, mt, us>>

\* If both reads were collected at once, nothing is under way and the task
\* returns without having called Sched_Wait.
BlkScanReturn ==
  /\ Phase("BlkScan") /\ mid /\ ~HasDone("Meta") /\ os.dn < NUM_META_BLK
  /\ WaitFor(TID_META, IF os.iss > os.dn THEN {"NAND_CMD"} ELSE {}, {})
  /\ UNCHANGED <<ioVars, mapVars, jnlVars, mctx, mt, openVars>>

\* No meta page at all: meta_Format.
MetaFormat ==
  /\ Phase("BlkScan") /\ mid /\ ~HasDone("Meta") /\ os.dn = NUM_META_BLK
  /\ os.bo = INV_BN
  /\ bst' = [b \in UBlk |-> "Closed"]
  /\ vpc' = [b \in UBlk |-> 0]
  /\ mctx' = [bo |-> 0, wl |-> 0, slice |-> 0, age |-> 1]
  /\ mt' = "Ready"
  /\ os' = OsIdle
  /\ Yield(TID_META, {"OPEN"})
  /\ UNCHANGED <<ioVars, map, opn, jnlVars, us>>

BlkScanDone ==
  /\ Phase("BlkScan") /\ mid /\ ~HasDone("Meta") /\ os.dn = NUM_META_BLK
  /\ os.bo # INV_BN
  /\ os' = [OsIdle EXCEPT !.step = "PageScan", !.bo = os.bo, !.cpo = NUM_WL,
                          !.iss = IssueUpto(0, NUM_WL)]
  /\ Issue(Reads(0, os'.iss, LAMBDA i : PageOf(os.bo, i)))
  /\ WaitFor(TID_META, {"NAND_CMD"}, {})
  /\ UNCHANGED <<die, done, mapVars, jnlVars, mctx, mt, us>>

-----------------------------------------------------------------------------
\* nAge becomes the age of the page, not the age after it.
PageScanPop ==
  /\ Phase("PageScan") /\ HasDone("Meta")
  /\ LET c == DoneHead("Meta") IN
     IF IsErased(c.pg)
     THEN /\ os' = [os EXCEPT !.dn = @ + 1, !.cpo = IF @ = NUM_WL THEN c.wl ELSE @]
          /\ UNCHANGED mctx
     ELSE /\ os' = [os EXCEPT !.dn = @ + 1]
          /\ mctx' = [mctx EXCEPT !.age = c.pg.age,
                                  !.slice = (c.pg.slice + 1) % NUM_MAP_SLICE]
  /\ PopDone("Meta")
  /\ Stay(TID_META, {"IO_FREE"})
  /\ UNCHANGED <<die, nq, mapVars, jnlVars, mt, us>>

PageScanIssued == IF os.cpo = NUM_WL THEN IssueUpto(os.dn, NUM_WL) ELSE os.iss

PageScanReturn ==
  /\ Phase("PageScan") /\ ~HasDone("Meta") /\ PageScanIssued > os.dn
  /\ os' = [os EXCEPT !.iss = PageScanIssued]
  /\ Issue(Reads(os.iss, PageScanIssued, LAMBDA i : PageOf(os.bo, i)))
  /\ WaitFor(TID_META, {"NAND_CMD"}, {})
  /\ UNCHANGED <<die, done, mapVars, jnlVars, mctx, mt, us>>

\* Where the load starts: NUM_MAP_SLICE pages before the first erased page,
\* possibly in the block before (open_MtLoad_SM takes both modulo the ring).
LoadFrom ==
  IF os.cpo >= NUM_MAP_SLICE
  THEN [bo |-> os.bo, cpo |-> os.cpo - NUM_MAP_SLICE]
  ELSE [bo  |-> (os.bo + NUM_META_BLK - 1) % NUM_META_BLK,
        cpo |-> (os.cpo + NUM_WL - NUM_MAP_SLICE) % NUM_WL]

\* Address of the i-th page to load.
LoadPage(bo, cpo, i) ==
  IF cpo + i < NUM_WL THEN PageOf(bo, cpo + i)
  ELSE PageOf((bo + 1) % NUM_META_BLK, (cpo + i) % NUM_WL)

PageScanDone ==
  /\ Phase("PageScan") /\ ~HasDone("Meta") /\ PageScanIssued = os.dn
  /\ mctx' = IF os.cpo # NUM_WL
             THEN [mctx EXCEPT !.bo = os.bo, !.wl = os.cpo]
             ELSE [mctx EXCEPT !.bo = (os.bo + 1) % NUM_META_BLK, !.wl = 0]
  /\ map' = AllUnmapped
  /\ os' = [OsIdle EXCEPT !.step = "MtLoad", !.bo = LoadFrom.bo, !.cpo = LoadFrom.cpo,
                          !.iss = IssueUpto(0, NUM_MAP_SLICE)]
  /\ Issue(Reads(0, os'.iss, LAMBDA i : LoadPage(os'.bo, os'.cpo, i)))
  /\ WaitFor(TID_META, {"NAND_CMD"}, {})
  /\ UNCHANGED <<die, done, vpc, bst, opn, jnlVars, mt, us>>

-----------------------------------------------------------------------------
(* open_ReplayJnl.  The entries are applied in order, so the last one of a *)
(* logical page gives its address and the last one of a stream gives its   *)
(* open block: the page after a write, the first page after an erase.      *)

WritesOf(e, l)  == {i \in DOMAIN e : e[i].t = "W" /\ e[i].lpn = l}

\* Mutant of EntriesOf: the stream of an entry is not looked at.
EntriesOf_Any(e, o) == DOMAIN e
EntriesOf(e, o) == {i \in DOMAIN e : e[i].opn = o}
LastIn(S)       == CHOOSE i \in S : \A j \in S : j <= i

\* Mutant of ReplayMap: the writes of the journal are not replayed.
ReplayMap_None(m, e) == m

ReplayMap(m, e) ==
  [l \in LPN |-> IF WritesOf(e, l) = {} THEN m[l] ELSE e[LastIn(WritesOf(e, l))].addr]

NextAddr(x) == IF x.t = "W" THEN VAddr(x.addr.blk, x.addr.wl + 1) ELSE VAddr(x.blk, 0)

ReplayOpen(op, e) ==
  [o \in OpenType |-> IF EntriesOf(e, o) = {} THEN op[o]
                      ELSE NextAddr(e[LastIn(EntriesOf(e, o))])]

\* One loaded page.  An erased page fails ASSERT(nSlice < NUM_MAP_SLICE):
\* the CPU stops there.
MtLoadPop ==
  /\ Phase("MtLoad") /\ HasDone("Meta")
  /\ LET pg == DoneHead("Meta").pg IN
     IF IsErased(pg)
     THEN /\ mt' = "Assert"
          /\ UNCHANGED <<map, opn>>
     ELSE /\ LET m == ReplayMap(map, pg.ent)
             IN  map' = [l \in LPN |-> IF SliceOf(l) = pg.slice THEN pg.map[l] ELSE m[l]]
          /\ opn' = ReplayOpen(opn, pg.ent)
          /\ UNCHANGED mt
  /\ os' = [os EXCEPT !.dn = @ + 1]
  /\ PopDone("Meta")
  /\ Stay(TID_META, {"IO_FREE"})
  /\ UNCHANGED <<die, nq, vpc, bst, jnlVars, mctx, us>>

MtLoadReturn ==
  /\ Phase("MtLoad") /\ ~HasDone("Meta") /\ os.dn < NUM_MAP_SLICE
  /\ os' = [os EXCEPT !.iss = IssueUpto(os.dn, NUM_MAP_SLICE)]
  /\ Issue(Reads(os.iss, os'.iss, LAMBDA i : LoadPage(os.bo, os.cpo, i)))
  /\ WaitFor(TID_META, {"NAND_CMD"}, {})
  /\ UNCHANGED <<die, done, mapVars, jnlVars, mctx, mt, us>>

-----------------------------------------------------------------------------
(* open_UserScan_SM.                                                       *)

\* Reads the scan issues next, from its state u: none after an erased page.
ScanIssues(u) ==
  IF u.ers = FF16 /\ u.wl < NUM_WL THEN Lesser(NUM_WL - u.wl, 2 - u.nRun) ELSE 0

ScanIssued(u) == [u EXCEPT !.wl = @ + ScanIssues(u), !.nRun = @ + ScanIssues(u)]

ScanReads(u) ==
  [i \in 1 .. ScanIssues(u) |-> ReadCmd("Meta", u.blk, u.wl + i - 1)]

\* The scan of stream o starts in the turn that ends the phase before; a
\* stream without open block has nothing to scan and is over in the next turn.
ScanStart(o) ==
  LET u == [blk |-> opn[o].blk, wl |-> opn[o].wl, ers |-> FF16, nRun |-> 0] IN
  /\ us' = ScanIssued(u)
  /\ Issue(ScanReads(u))
  /\ IF us'.nRun > 0 THEN WaitFor(TID_META, {"NAND_CMD"}, {}) ELSE Yield(TID_META, {})

\* The end of the scan of stream o fixes the next address of the stream.
ScanEnd(o) ==
  opn' = [opn EXCEPT ![o].wl = IF us.ers # FF16 THEN us.ers ELSE NUM_WL]

RecountVpc == [b \in UBlk |-> CountValid(map, b)]

\* Only the open block of a stream that is not full is open (open_PostMtLoad).
OpenAfterLoad(b) == \E o \in OpenType : opn[o].wl < NUM_WL /\ opn[o].blk = b

\* Mutant of JnlAfterLoad: the journal is not started anew.
JnlAfterLoad_Kept == jnl
JnlAfterLoad == EmptyJnl

\* open_PostMtLoad, a fresh journal, and the scan of the GC stream.  (The code
\* fixes the address of a stream without open block here and once more in the
\* next turn of META; nobody reads it in between, so ScanOver does it once.)
MtLoadDone ==
  /\ Phase("MtLoad") /\ ~HasDone("Meta") /\ os.dn = NUM_MAP_SLICE
  /\ vpc' = RecountVpc
  /\ bst' = [b \in UBlk |-> IF OpenAfterLoad(b) THEN "Open" ELSE "Closed"]
  /\ jnl' = JnlAfterLoad
  /\ os' = [OsIdle EXCEPT !.step = "GcScan"]
  /\ ScanStart("GC")
  /\ UNCHANGED <<die, done, map, opn, gbRequest, mctx, mt>>

ScanPhase(o) == \/ o = "GC"   /\ Phase("GcScan")
                \/ o = "USER" /\ Phase("UserScan")

\* One completed read is collected per turn; META_Update journals the page
\* found, and its result is ignored.
ScanPop(o) ==
  /\ ScanPhase(o) /\ ~mid /\ HasDone("Meta")
  /\ LET c == DoneHead("Meta") IN
     /\ IF IsData(c.pg) /\ ~UpdateBusy(c.pg.lpn)
        THEN MetaUpdate(c.pg.lpn, VAddr(c.blk, c.wl), o)
        ELSE UNCHANGED <<map, vpc, jnl>>
     /\ us' = [us EXCEPT !.nRun = @ - 1,
                         !.ers = IF IsErased(c.pg) /\ @ = FF16 THEN c.wl ELSE @]
  /\ PopDone("Meta")
  /\ Stay(TID_META, {"IO_FREE"})
  /\ UNCHANGED <<die, nq, bst, opn, gbRequest, mctx, mt, os>>

ScanReturn(o) ==
  /\ ScanPhase(o) /\ (mid \/ ~HasDone("Meta"))
  /\ us.nRun + ScanIssues(us) > 0
  /\ us' = ScanIssued(us)
  /\ Issue(ScanReads(us))
  /\ WaitFor(TID_META, {"NAND_CMD"}, {})
  /\ UNCHANGED <<die, done, mapVars, jnlVars, mctx, mt, os>>

ScanOver(o) ==
  /\ ScanPhase(o) /\ (mid \/ ~HasDone("Meta"))
  /\ us.nRun + ScanIssues(us) = 0
  /\ ScanEnd(o)

GcScanDone ==
  /\ ScanOver("GC")
  /\ os' = [OsIdle EXCEPT !.step = "UserScan"]
  /\ ScanStart("USER")
  /\ UNCHANGED <<die, done, map, vpc, bst, jnlVars, mctx, mt>>

UserScanDone ==
  /\ ScanOver("USER")
  /\ mt' = "Ready"
  /\ os' = OsIdle
  /\ us' = UsIdle
  /\ Yield(TID_META, {"OPEN"})
  /\ UNCHANGED <<ioVars, map, vpc, bst, jnlVars, mctx>>

MetaOpen ==
  \/ MetaInit
  \/ BlkScanIssue \/ BlkScanPop \/ BlkScanReturn \/ MetaFormat \/ BlkScanDone
  \/ PageScanPop \/ PageScanReturn \/ PageScanDone
  \/ MtLoadPop \/ MtLoadReturn \/ MtLoadDone
  \/ \E o \in OpenType : ScanPop(o) \/ ScanReturn(o)
  \/ GcScanDone \/ UserScanDone
=============================================================================
