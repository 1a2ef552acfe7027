-------------------------------- MODULE Ftl ---------------------------------
(***************************************************************************)
(* The whole FTL: the four tasks under the scheduler, the NAND device, and *)
(* the host of test/test.cpp, which has one request outstanding, keeps the *)
(* number of the last write of every logical page, and switches the power  *)
(* off once a shutdown is answered.                                        *)
(***************************************************************************)
EXTENDS FtlReq

LOCAL INSTANCE Functions

CONSTANTS
  MaxWrites,    \* bound: writes the host submits in all
  ShutdownFrom, \* the host shuts down after at least that many writes
  MaxCycle,     \* bound: times the power is switched off and on again
  Shutdowns,    \* the shutdown options the host uses
  ReadLPNs,     \* bound: the pages the host reads
  ReadFrom,     \* bound: power cycles before the host reads
  RewriteLPNs,  \* bound: the pages the host writes more than once
  TimeoutTasks  \* bound: the tasks whose timeouts may expire

ASSUME HostAssumption ==
  /\ MaxWrites \in Nat
  /\ ShutdownFrom \in Nat
  /\ MaxCycle \in Nat
  /\ Shutdowns \subseteq ShutdownOpt
  /\ ReadLPNs \subseteq LPN /\ ReadFrom \in Nat
  /\ RewriteLPNs \subseteq LPN
  /\ TimeoutTasks \subseteq TaskId

VARIABLES
  dict,     \* gaDict: per logical page, the number of its last write
  cycle     \* gnCycle: power cycles so far

vars == <<schedVars, ioVars, mapVars, jnlVars, mctx, mt, openVars, gcVars,
          reqVars, hostVars, dict, cycle>>

NoRsp == [req |-> NoReq, pg |-> Erased]

Init ==
  /\ SchedInit({"IO_FREE"})      \* IO_Init frees the commands
  /\ IoInit
  /\ map = AllUnmapped
  /\ vpc = [b \in UBlk |-> 0]
  /\ bst = [b \in UBlk |-> "Closed"]
  /\ opn = [o \in OpenType |-> FF32]
  /\ jnl = EmptyJnl
  /\ gbRequest = FALSE
  /\ mctx = [bo |-> 0, wl |-> 0, slice |-> 0, age |-> 0]
  /\ mt = "Init"
  /\ os = OsIdle
  /\ us = UsIdle
  /\ GcInit
  /\ ReqInit
  /\ pend = NoReq
  /\ rsp = NoRsp
  /\ pwr = TRUE
  /\ dict = [l \in LPN |-> 0]
  /\ cycle = 0

-----------------------------------------------------------------------------
(* The tasks.                                                              *)

TaskReq ==
  /\ pwr /\ Turn(TID_REQ) /\ Req_Run
  /\ UNCHANGED <<dict, cycle>>

TaskResp ==
  /\ pwr /\ Turn(TID_REQ_RESP) /\ ReqResp_Run
  /\ UNCHANGED <<dict, cycle>>

TaskGc ==
  /\ pwr /\ Turn(TID_GC) /\ GC_Run
  /\ UNCHANGED <<reqVars, hostVars, dict, cycle>>

TaskMeta ==
  /\ pwr /\ Turn(TID_META)
  /\ \/ MetaSave /\ UNCHANGED openVars
     \/ MetaOpen
  /\ UNCHANGED <<gcVars, reqVars, hostVars, dict, cycle>>

Task == TaskReq \/ TaskResp \/ TaskGc \/ TaskMeta

otherThanSched == <<ioVars, mapVars, jnlVars, mctx, mt, openVars, gcVars,
                    reqVars, hostVars, dict, cycle>>

\* The timeouts of the waiting tasks `expired' are up in this round.
RoundWith(expired) ==
  /\ pwr
  /\ Round(expired)
  /\ UNCHANGED otherThanSched

SchedRound == \E expired \in SUBSET TimeoutTasks : RoundWith(expired)

Nand ==
  /\ pwr
  /\ NandDone
  /\ UNCHANGED <<mapVars, jnlVars, mctx, mt, openVars, gcVars, reqVars, hostVars,
                 dict, cycle>>

-----------------------------------------------------------------------------
(* The host.  FTL_Request queues the request and triggers EVT_USER_CMD.    *)

Submit(r) ==
  /\ pwr /\ pend = NoReq
  /\ pend' = r
  /\ rsp' = NoRsp
  /\ reqQ' = Append(reqQ, r)
  /\ TrigAsync("USER_CMD")
  /\ UNCHANGED <<ioVars, mapVars, jnlVars, mctx, mt, openVars, gcVars,
                 reqSt, step, req, waitAge, pwr, cycle>>

Written == {l \in LPN : dict[l] > 0}
Filled  == Written = LPN

Submitted == FoldFunction(LAMBDA x, y : x + y, 0, dict)

\* The host first writes every page once, in order (tc_SeqWrite), and then
\* any page (tc_RandWrite, tc_StreamWrite).
HostWrite(l) ==
  /\ Submitted < MaxWrites
  /\ Filled \/ \A x \in 0 .. l - 1 : x \in Written
  /\ IF Filled THEN l \in RewriteLPNs ELSE l \notin Written
  /\ dict' = [dict EXCEPT ![l] = @ + 1]
  /\ Submit(WriteReq(l, dict[l] + 1))

HostRead(l) ==
  /\ cycle >= ReadFrom
  /\ Submit(ReadReq(l))
  /\ UNCHANGED dict

HostShutdown(opt) ==
  /\ cycle < MaxCycle /\ Submitted >= ShutdownFrom
  /\ Submit(ShutdownReq(opt))
  /\ UNCHANGED dict

Host ==
  \/ \E l \in LPN : HostWrite(l)
  \/ \E l \in ReadLPNs : HostRead(l)
  \/ \E opt \in Shutdowns : HostShutdown(opt)

(***************************************************************************)
(* Power off and on.  FTL_Main initialises the modules again.  What no     *)
(* initialisation touches keeps its value: the flash, the done queues, the *)
(* journal and gbRequest.                                                  *)
(***************************************************************************)
PowerCycle ==
  /\ ~pwr
  /\ pwr' = TRUE
  /\ cycle' = cycle + 1
  /\ rdy' = TaskId /\ run' = {} /\ wait' = [t \in TaskId |-> {}]
  /\ evt' = {"IO_FREE"} /\ cur' = TID_REQ /\ mid' = FALSE
  /\ nq' = <<>>
  /\ map' = AllUnmapped
  /\ vpc' = [b \in UBlk |-> 0]
  /\ bst' = [b \in UBlk |-> "Closed"]
  /\ opn' = [o \in OpenType |-> FF32]
  /\ mctx' = [bo |-> 0, wl |-> 0, slice |-> 0, age |-> 0]
  /\ mt' = "Init" /\ os' = OsIdle /\ us' = UsIdle
  /\ gcSt' = "WaitOpen" /\ mv' = MvIdle /\ pool' = <<>>
  /\ erb' = [o \in OpenType |-> ErbIdle]
  /\ reqSt' = "WaitOpen" /\ step' = "Init" /\ req' = NoReq /\ waitAge' = 0
  /\ reqQ' = <<>> /\ pend' = NoReq
  /\ UNCHANGED <<die, done, jnl, gbRequest, rsp, dict>>

Next == Task \/ SchedRound \/ Nand \/ Host \/ PowerCycle

Spec == Init /\ [][Next]_vars

-----------------------------------------------------------------------------
(* Types.                                                                  *)

Addr     == [blk : UBlk, wl : WL]
NextVA   == [blk : UBlk \cup {1023}, wl : 0 .. NUM_WL \cup {32767}]
Version  == 1 .. MaxWrites
Request  == {NoReq} \cup [cmd : {"write"}, lpn : LPN, ver : Version]
                    \cup [cmd : {"read"}, lpn : LPN]
                    \cup [cmd : {"shutdown"}, opt : ShutdownOpt]
JnlEntry == [t : {"W"}, opn : OpenType, lpn : LPN, addr : Addr]
              \cup [t : {"ERB"}, opn : OpenType, blk : UBlk]
IsJnlSeq(e) == Len(e) <= MAX_JNL_ENTRY /\ \A i \in DOMAIN e : e[i] \in JnlEntry
IsPage(pg) ==
  \/ pg = Erased
  \/ pg \in [k : {"data"}, lpn : LPN, ver : Version]
  \/ /\ DOMAIN pg = {"k", "age", "slice", "ent", "map"} /\ pg.k = "meta"
     /\ pg.age \in Nat /\ pg.slice \in 0 .. NUM_MAP_SLICE - 1
     /\ IsJnlSeq(pg.ent)
     /\ \A l \in DOMAIN pg.map : pg.map[l] \in Addr \cup {FF32}
IsCmd(c) ==
  /\ c.op \in {"READ", "PGM", "ERB"} /\ c.cb \in CbKey
  /\ c.blk \in Blk /\ c.wl \in WL /\ IsPage(c.pg) /\ c.req \in Request

(* Every variable keeps its type: addresses stay within the device, counts *)
(* never go below zero, the journal never exceeds MAX_JNL_ENTRY.           *)
TypeOK ==
  /\ SchedTypeOK
  /\ \A b \in Blk, w \in WL : IsPage(die[b][w])
  /\ \A i \in DOMAIN nq : IsCmd(nq[i])
  /\ \A k \in CbKey : \A i \in DOMAIN done[k] : IsCmd(done[k][i])
  /\ map \in [LPN -> Addr \cup {FF32}]
  /\ vpc \in [UBlk -> 0 .. NUM_WL]
  /\ bst \in [UBlk -> BlkState]
  /\ opn \in [OpenType -> NextVA]
  /\ jnl.busy \in BOOLEAN /\ IsJnlSeq(jnl.ent)
  /\ gbRequest \in BOOLEAN
  /\ mctx \in [bo : 0 .. NUM_META_BLK - 1, wl : WL, slice : 0 .. NUM_MAP_SLICE - 1, age : Nat]
  /\ mt \in {"Init", "Open", "Ready", "SaveErase", "SaveProgram", "Assert"}
  /\ os.step \in {"Idle", "BlkScan", "PageScan", "MtLoad", "GcScan", "UserScan"}
  /\ us.nRun \in 0 .. 2
  /\ gcSt \in GcState
  /\ mv.dst \in UBlk \cup {NoBlk} /\ mv.src \in UBlk \cup {NoBlk}
  /\ mv.dwl \in 0 .. NUM_WL /\ mv.swl \in 0 .. NUM_WL /\ mv.data \in 0 .. NUM_WL
  /\ mv.rd \in 0 .. MAX_GC_READ /\ mv.pg \in 0 .. NUM_WL
  /\ Len(pool) <= SIZE_FREE_POOL /\ \A i \in DOMAIN pool : pool[i] \in UBlk
  /\ reqSt \in {"WaitOpen", "WaitCmd", "Run"}
  /\ step \in {"Init", "Run", "BlkErsWait", "WaitIoDone", "WaitMtSave"}
  /\ req \in Request /\ pend \in Request /\ rsp.req \in Request /\ IsPage(rsp.pg)
  /\ waitAge \in Nat
  /\ pwr \in BOOLEAN
  /\ dict \in [LPN -> 0 .. MaxWrites]
  /\ cycle \in 0 .. MaxCycle

-----------------------------------------------------------------------------
(* Safety.                                                                 *)

\* The map of gstMeta is in use: loaded or formatted, scans included.
Loaded == mt \in {"Ready", "SaveErase", "SaveProgram"}
Scanning == Phase("GcScan") \/ Phase("UserScan")

(* The count of valid pages of every block is the number of logical pages  *)
(* mapped to it, at every point and not only where META_Update asserts it  *)
(* (dbg_MapIntegrity, page_meta.cpp:111-126): gc_ScanFree and              *)
(* META_GetMinVPC decide on the count alone.                               *)
MapIntegrity ==
  Loaded \/ Scanning => \A b \in UBlk : vpc[b] = CountValid(map, b)

\* What page a holds once every command issued so far has completed.
Touches(c, a) == \/ c.op = "PGM" /\ c.blk = a.blk /\ c.wl = a.wl
                 \/ c.op = "ERB" /\ c.blk = a.blk
PageAt(a) ==
  LET T == {i \in DOMAIN nq : Touches(nq[i], a)} IN
  IF T = {} THEN die[a.blk][a.wl] ELSE nq[LastIn(T)].pg

\* The write of l the host was last told of.
Acked(l) == IF pend.cmd = "write" /\ pend.lpn = l THEN dict[l] - 1 ELSE dict[l]

MapsLatest(l) ==
  Acked(l) > 0 => /\ map[l] # FF32
                  /\ PageAt(map[l]).k = "data"
                  /\ PageAt(map[l]).lpn = l
                  /\ PageAt(map[l]).ver >= Acked(l)

(* The map of a page leads to the last write the host was told of, through *)
(* every interleaving of host writes, GC moves, erases and saves, although *)
(* GC and REQ change the map before the page is programmed.  dict survives *)
(* power cycles, so this is durability as well (test.cpp:32).              *)
LatestIsMapped == Loaded => \A l \in LPN : MapsLatest(l)

(* A block whose erase is queued holds no mapped page: the block came from *)
(* the pool long before (page_gc.cpp:245-262, 323-333) and nothing may     *)
(* have been mapped to it since.                                           *)
NoEraseOfValid ==
  \A i \in DOMAIN nq :
    nq[i].op = "ERB" /\ nq[i].blk \in UBlk => CountValid(map, nq[i].blk) = 0

(* Pages of a block are programmed in ascending order and never twice      *)
(* without an erase (assert of die.cpp:83): two streams, the meta ring and *)
(* the resumed open blocks after a power cycle all keep to it.             *)
ProgramsInOrder ==
  nq # <<>> /\ Head(nq).op = "PGM" =>
    \A w \in WL : w >= Head(nq).wl => IsErased(die[Head(nq).blk][w])

CmdsOf(k, op) ==
  Cardinality({i \in DOMAIN nq : nq[i].cb = k /\ nq[i].op = op})
    + Cardinality({i \in DOMAIN done[k] : done[k][i].op = op})

(* The counters of a move agree with the commands under way, and the reads *)
(* never exceed the room left in the destination (nDataRead), so no read   *)
(* is left over when the destination is full ...                           *)
MoveAccounts ==
  gcSt = "Move" =>
    /\ mv.rd = CmdsOf("Mig", "READ") /\ mv.pg = CmdsOf("Mig", "PGM")
    /\ mv.data = mv.dwl + mv.rd /\ mv.data <= NUM_WL

(* ... and whoever waits for an erase finds that erase and nothing else in *)
(* its done queue (GC_BlkErase_SM pops without looking, page_gc.cpp:424).  *)
ErasePopsErase ==
  \A o \in OpenType :
    erb[o].step = "WaitErb" /\ ~(o = "GC" /\ gcSt = "Stop") =>
      /\ CmdsOf(ErbKey(o), "ERB") = 1
      /\ CmdsOf(ErbKey(o), "READ") = 0 /\ CmdsOf(ErbKey(o), "PGM") = 0

(* The blocks of the pool are distinct, free of valid pages and marked     *)
(* InFree (page_gc.cpp:225): nobody hands out a block twice or one that is *)
(* in use ...                                                              *)
PoolBlocks ==
  /\ \A i, j \in DOMAIN pool : i # j => pool[i] # pool[j]
  /\ Loaded => \A i \in DOMAIN pool : bst[pool[i]] = "InFree" /\ vpc[pool[i]] = 0

(* ... and one is left when GC pops its destination: GC_ReqFree keeps the  *)
(* last block back (page_gc.cpp:325-326, 397).                             *)
PoolLasts == gcSt = "GetDst" => pool # <<>>

(* Whenever a move picks its next victim there is one, otherwise           *)
(* gc_SetupNewSrc marks block 0xFFFF and GC spins (page_gc.cpp:138-144);   *)
(* and as long as the pool is low and the destination fresh, the victim    *)
(* has pages that are not valid: otherwise GC could copy full blocks for   *)
(* ever without gaining one (page_gc.cpp:199).                             *)
VictimGains ==
  Turn(TID_GC) /\ Collected /\ WantsRead /\ mv.src = NoBlk =>
    \A b \in Victims :
      /\ b # NoBlk
      /\ Len(pool) <= GC_TRIG_BLK_CNT /\ mv.dwl = 0 => vpc[b] < NUM_WL

InPool(b)      == \E i \in DOMAIN pool : pool[i] = b
BeingErased(b) == \E o \in OpenType : erb[o].step # "Init" /\ erb[o].blk = b

\* Open blocks nobody writes to: the scan found them full (page_meta.cpp:855).
Strays == {b \in UBlk : bst[b] = "Open" /\ \A o \in OpenType : opn[o].blk # b}

(* No block drops out of use: a block that is neither closed, which makes  *)
(* it a victim or free, nor written to is in the pool, being erased, or    *)
(* the source of the move.  The exception are blocks the scan after power  *)
(* on found full: they stay open until the next start, one per stream at   *)
(* most, and are full indeed.                                              *)
NoBlockLost ==
  Loaded =>
    /\ \A b \in UBlk : bst[b] = "Victim" => b = mv.src
    /\ \A b \in UBlk : bst[b] = "InFree" => InPool(b) \/ BeingErased(b)
    /\ Cardinality(Strays) <= IF cycle = 0 THEN 0 ELSE 2
    /\ \A b \in Strays, w \in WL : ~IsErased(die[b][w])

\* GC is about to program a page it has read: gc_HandleRead allocates the
\* program command while the read command is still held.
AllocsForMove ==
  /\ Turn(TID_GC) /\ Moving /\ DoneHead("Mig").op = "READ"
  /\ StillValid(DoneHead("Mig")) /\ ~UpdateBusy(DoneHead("Mig").pg.lpn)

(* The command pool is never exhausted: no caller of IO_Alloc checks for   *)
(* the nullptr it would get (io.cpp:90-100).                               *)
IoPoolSuffices ==
  Outstanding + (IF AllocsForMove THEN 1 ELSE 0) <= NUM_NAND_CMD

\* What scheduler.cpp:188 asserts after each turn, of all tasks.
AllArmed == pwr /\ ~mid => \A t \in TaskId : Armed(t)

\* The search for the newest meta block has collected all its reads in one
\* turn and blocks are left: open_BlkScan_SM returned without a wait.
ScanStranded == Phase("BlkScan") /\ os.iss = os.dn /\ os.dn < NUM_META_BLK

(* No task is forgotten: each can run, is ready, or waits with a timeout   *)
(* (the assertion of scheduler.cpp:188).  The one exception the code has   *)
(* is META, and only if two reads of the block scan were collected in one  *)
(* turn (page_meta.cpp:705), which the timing of the reads excludes.       *)
TaskArmed ==
  pwr /\ ~mid => \A t \in TaskId : Armed(t) \/ (t = TID_META /\ ScanStranded)

(* When the host may cut the power no NAND command is under way, whatever  *)
(* GC and META were doing when the shutdown came (page_req.cpp:187,211).   *)
QuietAtPowerOff == ~pwr => Outstanding = 0

\* The meta pages in flash that tell of the erase of block b for stream o.
TellsErase(o, b, age) ==
  \E x \in NUM_USER_BLK .. NUM_USER_BLK + NUM_META_BLK - 1, w \in WL :
    LET pg == die[x][w] IN
    pg.k = "meta" /\ pg.age >= age
      /\ \E i \in DOMAIN pg.ent : pg.ent[i] = JnlErase(b, o)

\* A stream that takes a new block takes one whose erase a page tells of.
NewBlkTold ==
  \A o \in OpenType : Loaded /\ opn[o].blk # opn'[o].blk /\ pwr
    => TellsErase(o, opn'[o].blk, erb[o].age)

(* A block is opened for writing only when the journal of its erase is in  *)
(* flash, in a page at least as young as the request: WaitMtSave compares  *)
(* ages only (page_gc.cpp:455-460), not what was saved.                    *)
EraseSavedBeforeUse == [][NewBlkTold]_vars

(* After a safe shutdown loading the meta pages is enough: the map is      *)
(* complete before any user block is scanned (ftl.h:35).                   *)
SafeLoadsLatest ==
  rsp.req = ShutdownReq("SD_Safe") /\ Scanning => \A l \in LPN : MapsLatest(l)

(* No save outlives the power of a safe shutdown: a request META has not   *)
(* taken up would, after the restart, save and empty a journal that is     *)
(* being filled, since no initialisation resets gbRequest                  *)
(* (page_meta.cpp:959-979).                                                *)
NoStaleSave == ~pwr /\ rsp.req = ShutdownReq("SD_Safe") => ~gbRequest

(* A journal that takes no more entries is always about to be saved, by a  *)
(* request or the save under way: REQ, GC and both erases that wait for    *)
(* META ask for nothing themselves (page_req.cpp:141, page_gc.cpp:240).    *)
BusyIsRequested ==
  Loaded /\ jnl.busy => gbRequest \/ mt \in {"SaveErase", "SaveProgram"}

(* What a save writes is all of the journal it empties when it is done     *)
(* (page_meta.cpp:341,940): between the two, nobody adds an entry, because *)
(* an update meanwhile is answered with JR_Busy, "On Jnl saving"           *)
(* (page_meta.h:41).                                                       *)
SavedIsJournal ==
  mt = "SaveProgram" =>
    /\ \A i \in DOMAIN nq : nq[i].cb = "Meta" => nq[i].pg.ent = jnl.ent
    /\ \A i \in DOMAIN done["Meta"] : done["Meta"][i].pg.ent = jnl.ent

(* The scan of the open blocks finds fewer pages than the journal takes:   *)
(* it ignores the answer of META_Update (page_meta.cpp:409), and a journal *)
(* it filled would be saved by nobody.                                     *)
ScanFitsJournal == Scanning => JnlAccepts

\* The pages of stream o before its next address are programmed.
WrittenTo(o) == \A v \in WL : v < opn[o].wl => ~IsErased(die[opn[o].blk][v])

\* Among the pages of stream o from its next address on, those already
\* programmed come first.
FillsUp(o) ==
  \A v, w \in WL :
    opn[o].wl <= v /\ v < w /\ IsErased(die[opn[o].blk][v]) => IsErased(die[opn[o].blk][w])

(* The open blocks a start resumes are sound: those that the saved meta    *)
(* pages name are written up to the address saved and fill up from there,  *)
(* with no gap the scan would stop at, and the two streams resume two      *)
(* blocks (page_meta.cpp:406-421, 853-859). The journal records the writes *)
(* and erases of both streams in the order they were decided, not the      *)
(* order they reach the flash in.                                          *)
ResumeSound ==
  Phase("GcScan") =>
    /\ \A o \in OpenType : opn[o].wl < NUM_WL => WrittenTo(o) /\ FillsUp(o)
    /\ opn["USER"].wl < NUM_WL /\ opn["GC"].wl < NUM_WL => opn["USER"].blk # opn["GC"].blk

(* When META opens, the map leads to the last write of every page, and to  *)
(* nothing for a page never written: META has loaded the saved slices,     *)
(* replayed their journals and found in the open blocks what no journal    *)
(* tells of (page_meta.cpp:386-421, 583-640).                              *)
LoadsLatest ==
  mt = "Ready" /\ gcSt = "WaitOpen" /\ reqSt = "WaitOpen" =>
    \A l \in LPN :
      IF Acked(l) = 0 THEN map[l] = FF32
      ELSE map[l] \in Addr /\ PageAt(map[l]) = DataPage(l, Acked(l))

(* Every page the load reads is a saved one (ASSERT(nSlice < NUM_MAP_SLICE),*)
(* page_meta.cpp:602).                                                     *)
LoadsSavedPages == mt # "Assert"

(* To its host the FTL is a device that keeps the last write of every page *)
(* (the callbacks of test.cpp:26-48): whatever REQ, GC and META do in      *)
(* between, a request is answered once, with the right page, and a power   *)
(* cycle loses nothing.                                                    *)
Dev == INSTANCE BlockDev WITH latest <- dict
ImplementsDev == Dev!DevSpec

-----------------------------------------------------------------------------
(* Liveness.  Every task whose turn it is runs, rounds follow each other,  *)
(* commands complete, and a timeout expires unless the wait ends before:   *)
(* every Sched_Wait gives one and the tick timer never stops.              *)

Fairness ==
  /\ WF_vars(Task)
  /\ WF_vars(SchedRound)
  /\ SF_vars(Nand)
  /\ WF_vars(PowerCycle)
  /\ \A t \in TimeoutTasks :
       SF_vars(\E expired \in SUBSET TimeoutTasks : t \in expired /\ RoundWith(expired))

FairSpec == Spec /\ Fairness

(* Every request is answered: no write starves behind GC, a busy journal   *)
(* or an empty pool, and a shutdown ends.                                  *)
RequestAnswered == pend # NoReq ~> pend = NoReq

=============================================================================
