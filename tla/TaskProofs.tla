----------------------------- MODULE TaskProofs -----------------------------
(***************************************************************************)
(* The tasks: the state of the scheduler keeps its type under every step   *)
(* of the FTL (what the tasks wait for, trigger and return with are tasks  *)
(* and events of scheduler_conf.h).                                        *)
(*                                                                         *)
(* RestInv: what is under way agrees with what the state machines of META, *)
(* of the moves of GC and of the erases wait for, and nothing is left when *)
(* the power goes off. Its parts, what they keep when a step leaves their  *)
(* variables alone, and that every step preserves it; hence nothing is     *)
(* under way at power off, a save never replaces a newer map, a block is   *)
(* erased before it is used and a move accounts for its pages. At the end, *)
(* that every task can always run again but for META in its block scan     *)
(* (ArmedInv), and without exception if the reads of the scan are found    *)
(* one by one (ScanWaits).                                                 *)
(***************************************************************************)
EXTENDS MapProofs

-----------------------------------------------------------------------------
(* The three ways a turn can end or go on.                                 *)

(* A task that returns from Sched_Wait(w) leaves a well-typed scheduler.   *)
LEMMA WaitForType ==
  ASSUME SchedTypeOK,
         NEW t \in TaskId, NEW w \in SUBSET Event, NEW trig \in SUBSET Event,
         WaitFor(t, w, trig)
  PROVE  SchedTypeOK'
<1>1. (t + 1) % NUM_TASK \in TaskId
  BY DEF TaskId, NUM_TASK
<1>. QED
  BY <1>1 DEF SchedTypeOK, WaitFor, Finish

(* So does a task that returns from Sched_Yield, ...                       *)
LEMMA YieldType ==
  ASSUME SchedTypeOK,
         NEW t \in TaskId, NEW trig \in SUBSET Event,
         Yield(t, trig)
  PROVE  SchedTypeOK'
<1>1. (t + 1) % NUM_TASK \in TaskId
  BY DEF TaskId, NUM_TASK
<1>. QED
  BY <1>1 DEF SchedTypeOK, Yield, Finish

(* ... one that called both Sched_Wait(w) and Sched_Yield, ...             *)
LEMMA WaitAndYieldType ==
  ASSUME SchedTypeOK,
         NEW t \in TaskId, NEW w \in SUBSET Event,
         Finish(t, w, TRUE, {})
  PROVE  SchedTypeOK'
<1>1. (t + 1) % NUM_TASK \in TaskId
  BY DEF TaskId, NUM_TASK
<1>. QED
  BY <1>1 DEF SchedTypeOK, Finish

(* ... and one whose turn goes on.                                         *)
LEMMA StayType ==
  ASSUME SchedTypeOK, NEW t \in TaskId, NEW trig \in SUBSET Event, Stay(t, trig)
  PROVE  SchedTypeOK'
  BY DEF SchedTypeOK, Stay

(* The tasks, and the event sets they wait for and trigger.                *)
LEMMA TaskIds ==
  /\ TID_REQ \in TaskId /\ TID_REQ_RESP \in TaskId
  /\ TID_GC \in TaskId /\ TID_META \in TaskId
  BY DEF TaskId, NUM_TASK, TID_REQ, TID_REQ_RESP, TID_GC, TID_META

LEMMA EventSets ==
  /\ {} \in SUBSET Event /\ {"OPEN"} \in SUBSET Event
  /\ {"META"} \in SUBSET Event /\ {"IO_FREE"} \in SUBSET Event
  /\ {"NAND_CMD"} \in SUBSET Event /\ {"USER_CMD"} \in SUBSET Event
  /\ {"BLK_REQ"} \in SUBSET Event /\ {"NEW_BLK"} \in SUBSET Event
  /\ {"IO_FREE", "META"} \in SUBSET Event
  BY DEF Event

LEMMA ReqEvtType == ASSUME NEW b PROVE META_ReqEvt(b) \in SUBSET Event
  BY DEF META_ReqEvt, Event

-----------------------------------------------------------------------------
(* A turn of META that saves. *)
LEMMA SaveType ==
  ASSUME SchedTypeOK, MetaSave
  PROVE  SchedTypeOK'
<1>. USE TaskIds, EventSets, ReqEvtType
<1>1. CASE MetaIdle
  BY <1>1, WaitForType DEF MetaIdle
<1>2. CASE MetaSaveStart
  BY <1>2, WaitForType DEF MetaSaveStart
<1>3. CASE MetaSaveWait
  BY <1>3, WaitForType DEF MetaSaveWait
<1>4. CASE MetaSaveErased
  BY <1>4, WaitForType DEF MetaSaveErased
<1>5. CASE MetaSaveDone
  BY <1>5, YieldType DEF MetaSaveDone
<1>. QED
  BY <1>1, <1>2, <1>3, <1>4, <1>5 DEF MetaSave

(* The start of a scan ends a turn.                                        *)
LEMMA ScanStartType ==
  ASSUME SchedTypeOK, NEW o, ScanStart(o)
  PROVE  SchedTypeOK'
<1>1. WaitFor(TID_META, {"NAND_CMD"}, {}) \/ Yield(TID_META, {})
  BY DEF ScanStart
<1>. QED
  BY <1>1, WaitForType, YieldType, TaskIds, EventSets

(* A turn of META, or a part of one, while it opens. *)
LEMMA OpenStepType ==
  ASSUME SchedTypeOK, MetaOpen
  PROVE  SchedTypeOK'
<1>. USE TaskIds, EventSets, ReqEvtType
<1>1. CASE MetaInit
  BY <1>1, WaitForType DEF MetaInit
<1>2. CASE BlkScanIssue
  BY <1>2, StayType DEF BlkScanIssue
<1>3. CASE BlkScanPop
  BY <1>3, StayType DEF BlkScanPop
<1>4. CASE BlkScanReturn
  BY <1>4, WaitForType DEF BlkScanReturn
<1>5. CASE MetaFormat
  BY <1>5, YieldType DEF MetaFormat
<1>6. CASE BlkScanDone
  BY <1>6, WaitForType DEF BlkScanDone
<1>7. CASE PageScanPop
  BY <1>7, StayType DEF PageScanPop
<1>8. CASE PageScanReturn
  BY <1>8, WaitForType DEF PageScanReturn
<1>9. CASE PageScanDone
  BY <1>9, WaitForType DEF PageScanDone
<1>10. CASE MtLoadPop
  BY <1>10, StayType DEF MtLoadPop
<1>11. CASE MtLoadReturn
  BY <1>11, WaitForType DEF MtLoadReturn
<1>12. CASE MtLoadDone
  BY <1>12, ScanStartType DEF MtLoadDone
<1>13. CASE \E o \in OpenType : ScanPop(o)
  BY <1>13, StayType DEF ScanPop
<1>14. CASE \E o \in OpenType : ScanReturn(o)
  BY <1>14, WaitForType DEF ScanReturn
<1>15. CASE GcScanDone
  BY <1>15, ScanStartType DEF GcScanDone
<1>16. CASE UserScanDone
  BY <1>16, YieldType DEF UserScanDone
<1>. QED
  BY <1>1, <1>2, <1>3, <1>4, <1>5, <1>6, <1>7, <1>8, <1>9, <1>10, <1>11, <1>12, <1>13, <1>14, <1>15, <1>16 DEF MetaOpen

(* The erase of a block is started, journaled and awaited by the task of   *)
(* its stream.                                                             *)
LEMMA ErbStartType ==
  ASSUME SchedTypeOK, NEW o \in OpenType, NEW b, NEW trig \in SUBSET Event,
         ErbStart(o, b, trig)
  PROVE  SchedTypeOK'
<1>1. TaskOf(o) \in TaskId
  BY TaskIds DEF TaskOf
<1>. QED
  BY <1>1, WaitForType, EventSets DEF ErbStart

LEMMA ErbGoesOnType ==
  ASSUME SchedTypeOK, NEW o \in OpenType, ErbGoesOn(o)
  PROVE  SchedTypeOK'
<1>1. TaskOf(o) \in TaskId
  BY TaskIds DEF TaskOf
<1>2. ASSUME NEW trig \in SUBSET Event, ErbJournal(o, trig)
      PROVE  SchedTypeOK'
  <2>1. trig \cup META_ReqEvt(JnlAccepts) \in SUBSET Event
    BY ReqEvtType
  <2>. QED
    BY <1>1, <1>2, <2>1, WaitForType, EventSets DEF ErbJournal
<1>3. CASE ErbErased(o)
  BY <1>2, <1>3, EventSets DEF ErbErased
<1>4. CASE ErbRetry(o)
  BY <1>2, <1>4, EventSets DEF ErbRetry
<1>5. CASE ErbWait(o)
  BY <1>1, <1>5, WaitForType, EventSets DEF ErbWait
<1>. QED
  BY <1>3, <1>4, <1>5 DEF ErbGoesOn

(* A turn of GC, or a part of one. *)
LEMMA GcStepType ==
  ASSUME SchedTypeOK, GC_Run
  PROVE  SchedTypeOK'
<1>. USE TaskIds, EventSets, ReqEvtType
<1>1. CASE GcWaitOpen
  BY <1>1, WaitForType DEF GcWaitOpen
<1>2. CASE GcResume
  BY <1>2, StayType DEF GcResume
<1>3. CASE GcOpened
  BY <1>3, YieldType DEF GcOpened
<1>4. CASE GcWaitReq
  BY <1>4, WaitForType, YieldType DEF GcWaitReq
<1>5. CASE GcGetDst
  BY <1>5, ErbStartType DEF GcGetDst, OpenType
<1>6. CASE GcErsDst
  BY <1>6, ErbGoesOnType DEF GcErsDst, OpenType
<1>7. CASE GcErsDstDone
  BY <1>7, StayType DEF GcErsDstDone
<1>8. CASE GcPgmDone
  BY <1>8, StayType DEF GcPgmDone
<1>9. CASE GcReadMoved
  BY <1>9, StayType DEF GcReadMoved
<1>10. CASE GcReadDropped
  BY <1>10, StayType DEF GcReadDropped
<1>11. CASE GcDstFull
  BY <1>11, YieldType DEF GcDstFull
<1>12. CASE GcNewSrc
  BY <1>12, WaitAndYieldType DEF GcNewSrc, NandWait
<1>13. CASE GcReadNext
  BY <1>13, WaitForType DEF GcReadNext
<1>14. CASE GcSrcDone
  BY <1>14, YieldType DEF GcSrcDone
<1>15. CASE GcMoveWait
  BY <1>15, WaitForType DEF GcMoveWait, NandWait
<1>16. CASE GcStop
  BY <1>16, WaitForType DEF GcStop
<1>. QED
  BY <1>1, <1>2, <1>3, <1>4, <1>5, <1>6, <1>7, <1>8, <1>9, <1>10, <1>11, <1>12, <1>13, <1>14, <1>15, <1>16 DEF GC_Run, GcMove

(* A turn of REQ with a request, ... *)
LEMMA ReqStepType ==
  ASSUME SchedTypeOK, NEW r, NEW at, ReqStep(r, at)
  PROVE  SchedTypeOK'
<1>. USE TaskIds, EventSets, ReqEvtType
<1>1. CASE ReqReadMapped(r, at)
  BY <1>1, YieldType DEF ReqReadMapped
<1>2. CASE ReqReadUnmapped(r, at)
  BY <1>2, YieldType DEF ReqReadUnmapped
<1>3. CASE ReqNeedsBlk(r, at)
  <2>1. BlkReqEvt \in SUBSET Event
    BY EventSets DEF BlkReqEvt
  <2>. QED BY <1>3, <2>1, WaitForType, ErbStartType DEF ReqNeedsBlk, OpenType
<1>4. CASE ReqErasing(r, at)
  BY <1>4, ErbGoesOnType DEF ReqErasing, OpenType
<1>5. CASE ReqNewBlk(r, at)
  BY <1>5, YieldType DEF ReqNewBlk
<1>6. CASE ReqProgram(r, at)
  BY <1>6, YieldType DEF ReqProgram
<1>7. CASE ReqJnlBusy(r, at)
  BY <1>7, WaitForType DEF ReqJnlBusy
<1>8. CASE ShutdownWaitIo(r, at)
  BY <1>8, WaitForType DEF ShutdownWaitIo
<1>9. CASE ShutdownSudden(r, at)
  BY <1>9, YieldType DEF ShutdownSudden
<1>10. CASE ShutdownSave(r, at)
  BY <1>10, WaitForType DEF ShutdownSave
<1>11. CASE ShutdownSaving(r, at)
  BY <1>11, WaitForType DEF ShutdownSaving
<1>12. CASE ShutdownSaved(r, at)
  BY <1>12, YieldType DEF ShutdownSaved
<1>. QED
  BY <1>1, <1>2, <1>3, <1>4, <1>5, <1>6, <1>7, <1>8, <1>9, <1>10, <1>11, <1>12 DEF ReqStep

(* ... and any turn of REQ or REQ_RESP. *)
LEMMA ReqRunType ==
  ASSUME SchedTypeOK, Req_Run \/ ReqResp_Run
  PROVE  SchedTypeOK'
<1>. USE TaskIds, EventSets, ReqEvtType
<1>1. CASE ReqWaitOpen
  BY <1>1, WaitForType DEF ReqWaitOpen
<1>2. CASE ReqOpened
  BY <1>2, YieldType DEF ReqOpened
<1>3. CASE ReqIdle
  BY <1>3, WaitForType DEF ReqIdle
<1>4. CASE \E r, at : ReqStep(r, at)
  BY <1>4, ReqStepType DEF Req_Run
<1>5. CASE RespWait
  BY <1>5, WaitForType DEF RespWait
<1>6. CASE RespDone
  BY <1>6, YieldType DEF RespDone
<1>. QED
  BY <1>1, <1>2, <1>3, <1>4, <1>5, <1>6 DEF Req_Run, ReqResp_Run

-----------------------------------------------------------------------------
(* Rounds and events.                                                      *)

LEMMA RoundType ==
  ASSUME SchedTypeOK, NEW expired \in SUBSET TimeoutTasks, Round(expired)
  PROVE  SchedTypeOK'
<1>1. expired \subseteq TaskId
  BY HostAssumption
<1>. QED
  BY <1>1 DEF SchedTypeOK, Round

LEMMA TrigAsyncType ==
  ASSUME SchedTypeOK, NEW e \in Event, TrigAsync(e)
  PROVE  SchedTypeOK'
  BY DEF SchedTypeOK, TrigAsync

LEMMA SchedInductive ==
  ASSUME SchedTypeOK, [Next]_vars
  PROVE  SchedTypeOK'
<1>1. CASE Task
  <2>1. CASE TaskReq \/ TaskResp
    BY <2>1, ReqRunType DEF TaskReq, TaskResp
  <2>2. CASE TaskGc
    BY <2>2, GcStepType DEF TaskGc
  <2>3. CASE TaskMeta
    BY <2>3, SaveType, OpenStepType DEF TaskMeta
  <2>. QED
    BY <1>1, <2>1, <2>2, <2>3 DEF Task
<1>2. CASE SchedRound
  BY <1>2, RoundType DEF SchedRound, RoundWith
<1>3. CASE Nand
  BY <1>3, TrigAsyncType DEF Nand, NandDone, Event
<1>4. CASE Host
  <2>1. PICK r : Submit(r)
    BY <1>4 DEF Host, HostWrite, HostRead, HostShutdown
  <2>. QED
    BY <2>1, TrigAsyncType DEF Submit, Event
<1>5. CASE PowerCycle
  BY <1>5, TaskIds, EventSets DEF PowerCycle, SchedTypeOK
<1>6. CASE UNCHANGED vars
  BY <1>6 DEF vars, schedVars, SchedTypeOK
<1>. QED
  BY <1>1, <1>2, <1>3, <1>4, <1>5, <1>6 DEF Next

(* Sched_Run, Sched_Wait, Sched_Yield and the triggers keep the state of   *)
(* the scheduler within its type in every execution.                       *)
THEOREM SchedTypeCorrect == Spec => []SchedTypeOK
<1>1. Init => SchedTypeOK
  BY TaskIds DEF Init, SchedInit, SchedTypeOK, Event
<1>2. SchedTypeOK /\ [Next]_vars => SchedTypeOK'
  BY SchedInductive
<1>. QED
  BY <1>1, <1>2, PTL DEF Spec

-----------------------------------------------------------------------------
(* The inductive invariant, in parts that name the same variables.         *)

Cnts(k, r, p, e) == Cnt[k]["READ"] = r /\ Cnt[k]["PGM"] = p /\ Cnt[k]["ERB"] = e

\* Addresses that reach a program or an erase of a user block: the next
\* address of a stream, the journal, the pool and the block being erased.
IsNext(a) == a = VAddr(a.blk, a.wl) /\ a.wl \in Nat /\ (a.wl < NUM_WL => a.blk \in UBlk)

IsCtx(c) == c = [bo |-> c.bo, wl |-> c.wl, slice |-> c.slice, age |-> c.age] /\ c.age \in Nat

IsErb(e) == e = [step |-> e.step, blk |-> e.blk, age |-> e.age]

AddrInv ==
  /\ GoodEnts(jnl.ent)
  /\ opn = [o \in OpenType |-> opn[o]] /\ \A o \in OpenType : IsNext(opn[o])
  /\ IsCtx(mctx)
  /\ IsSeq(pool) /\ Elems(pool) \subseteq UBlk
  /\ erb = [o \in OpenType |-> erb[o]] /\ \A o \in OpenType : IsErb(erb[o])
  /\ \A o \in OpenType : erb[o].step # "Init" => erb[o].blk \in UBlk
  /\ waitAge \in Nat

\* META: the reads under way are those issued and not yet collected, and they
\* are of the blocks the phase reads.
Reading == Phase("BlkScan") \/ Phase("PageScan") \/ Phase("MtLoad")
Total   == IF Phase("BlkScan") THEN NUM_META_BLK
           ELSE IF Phase("PageScan") THEN NUM_WL ELSE NUM_MAP_SLICE
MOff    == 0 .. NUM_META_BLK - 1

OsFields == {"step", "bo", "age", "cpo", "iss", "dn"}
UsFields == {"blk", "wl", "ers", "nRun"}
IsOs(s)  == s = [f \in OsFields |-> s[f]]
IsUs(u)  == u = [f \in UsFields |-> u[f]]

ReadState ==
  /\ IsOs(os)
  /\ os.dn \in Nat /\ os.iss \in Nat
  /\ os.dn <= os.iss /\ os.iss <= Total /\ os.iss <= os.dn + 2
  /\ Phase("BlkScan") => os.bo \in MOff \/ os.bo = INV_BN
  /\ ~Phase("BlkScan") => os.bo \in MOff /\ os.cpo \in 0 .. NUM_WL
  /\ Cnts("Meta", os.iss - os.dn, 0, 0)
  /\ \A c \in Under["Meta"] : c.blk \in MBlk /\ c.wl \in WL

ReadInv == Reading => ReadState

ScanState(o) ==
  /\ IsUs(us)
  /\ us.nRun \in 0 .. 2 /\ us.wl \in Nat /\ us.ers \in Nat
  /\ us.blk = opn[o].blk
  /\ us.blk \in UBlk \/ (us.wl >= NUM_WL /\ us.nRun = 0 /\ us.ers = FF16)
  /\ Cnts("Meta", us.nRun, 0, 0)
  /\ \A c \in Under["Meta"] : c.blk = us.blk /\ c.wl \in WL

ScanInv ==
  /\ Phase("GcScan") => ScanState("GC")
  /\ Phase("UserScan") => ScanState("USER")

SaveInv ==
  /\ mt \in {"Init", "Open", "Ready", "SaveErase", "SaveProgram", "Assert"}
  /\ mt \in {"Init", "Ready"} => Cnts("Meta", 0, 0, 0)
  /\ mt = "SaveErase" => Cnts("Meta", 0, 0, 1)
  /\ mt = "SaveProgram" => Cnts("Meta", 0, 1, 0)

MetaInv == ReadInv /\ ScanInv /\ SaveInv

\* Who waits for an erase has issued one; nobody else is erasing.
ErbInv ==
  /\ Cnts("UErs", 0, 0, IF erb["USER"].step = "WaitErb" THEN 1 ELSE 0)
  /\ erb["USER"].step # "Init" =>
       reqSt = "Run" /\ step = "BlkErsWait" /\ req.cmd = "write" /\ UserBlkFull
  /\ erb["GC"].step # "Init" => gcSt \in {"ErsDst", "Stop"}

\* GC: its commands are those its state accounts for.
MvFields == {"dst", "dwl", "src", "swl", "rd", "pg", "data"}
IsMv(m)  == m = [f \in MvFields |-> m[f]]

MigInv ==
  /\ IsMv(mv)
  /\ gcSt \in {"WaitOpen", "WaitReq", "GetDst"} => Cnts("Mig", 0, 0, 0)
  /\ gcSt = "ErsDst" => Cnts("Mig", 0, 0, IF erb["GC"].step = "WaitErb" THEN 1 ELSE 0)
  /\ gcSt = "Move" =>
       /\ mv.dst \in UBlk /\ mv.dwl \in Nat
       /\ Cnts("Mig", mv.rd, mv.pg, 0)
       /\ mv.data = mv.dwl + mv.rd /\ mv.data <= NUM_WL

\* The end of a safe shutdown: a save was asked for, runs, or has run.
Downing == reqSt = "Run" /\ step = "WaitMtSave"

DownInv ==
  /\ reqSt = "Run" /\ step = "WaitIoDone" => gcSt = "Stop"
  /\ Downing =>
       /\ gcSt = "Stop" /\ req.cmd = "shutdown"
       /\ NoneOf("User") /\ NoneOf("Mig") /\ NoneOf("UErs")
       /\ \/ gbRequest /\ mt = "Ready" /\ mctx.age = waitAge
          \/ ~gbRequest /\ mt \in {"SaveErase", "SaveProgram"} /\ mctx.age = waitAge
          \/ ~gbRequest /\ mt = "Ready" /\ mctx.age = waitAge + 1
  /\ ~pwr => Outstanding = 0 /\ (rsp.req = ShutdownReq("SD_Safe") => ~gbRequest)

RestInv == IoTypes /\ AddrInv /\ MetaInv /\ ErbInv /\ MigInv /\ DownInv

-----------------------------------------------------------------------------
(* What a step that does not concern a part has to leave alone.            *)

SameCnt(k) == \A o \in Ops : Cnt'[k][o] = Cnt[k][o]

LEMMA AddrFrame ==
  ASSUME AddrInv, jnl'.ent = jnl.ent, UNCHANGED <<opn, mctx, pool, erb, waitAge>>
  PROVE  AddrInv'
  BY DEF AddrInv

LEMMA MetaFrame ==
  ASSUME MetaInv, UNCHANGED <<mt, os, us>>, mt = "Open" => UNCHANGED opn, SameFor("Meta")
  PROVE  MetaInv'
<1> USE DEF Phase
<1>0. SameCnt("Meta") /\ \A c \in Under'["Meta"] : \E d \in Under["Meta"] : c.blk = d.blk /\ c.wl = d.wl
  BY DEF SameFor, SameCnt
<1>5. Cnt'["Meta"]["READ"] = Cnt["Meta"]["READ"] /\ Cnt'["Meta"]["PGM"] = Cnt["Meta"]["PGM"]
      /\ Cnt'["Meta"]["ERB"] = Cnt["Meta"]["ERB"]
  BY <1>0 DEF SameCnt, Ops
<1> HIDE DEF Cnt, Under
<1>1. ReadInv'
  BY <1>0, <1>5 DEF MetaInv, ReadInv, ReadState, Reading, Total, Cnts
<1>2. ASSUME mt = "Open", NEW o, ScanState(o)
      PROVE  ScanState(o)'
  BY <1>0, <1>5, <1>2 DEF ScanState, Cnts
<1>3. ScanInv'
  BY <1>2 DEF MetaInv, ScanInv
<1>4. SaveInv'
  BY <1>5 DEF MetaInv, SaveInv, Cnts
<1>. QED
  BY <1>1, <1>3, <1>4 DEF MetaInv

LEMMA ErbFrame ==
  ASSUME ErbInv, UNCHANGED erb, opn'["USER"] = opn["USER"],
         erb["USER"].step # "Init" => UNCHANGED <<reqSt, step, req>>,
         gcSt' = gcSt \/ gcSt' = "Stop" \/ gcSt \notin {"ErsDst", "Stop"},
         SameCnt("UErs")
  PROVE  ErbInv'
<1>1. Cnt'["UErs"]["READ"] = Cnt["UErs"]["READ"] /\ Cnt'["UErs"]["PGM"] = Cnt["UErs"]["PGM"]
      /\ Cnt'["UErs"]["ERB"] = Cnt["UErs"]["ERB"]
  BY DEF SameCnt, Ops
<1> HIDE DEF Cnt
<1>. QED
  BY <1>1 DEF ErbInv, Cnts, UserBlkFull

LEMMA MigFrame ==
  ASSUME MigInv, UNCHANGED <<gcSt, mv>>, erb'["GC"] = erb["GC"], SameCnt("Mig")
  PROVE  MigInv'
<1>1. Cnt'["Mig"]["READ"] = Cnt["Mig"]["READ"] /\ Cnt'["Mig"]["PGM"] = Cnt["Mig"]["PGM"]
      /\ Cnt'["Mig"]["ERB"] = Cnt["Mig"]["ERB"]
  BY DEF SameCnt, Ops
<1> HIDE DEF Cnt
<1>. QED
  BY <1>1 DEF MigInv, Cnts

LEMMA MigStops ==
  ASSUME MigInv, UNCHANGED mv, gcSt' = "Stop"
  PROVE  MigInv'
  BY DEF MigInv

LEMMA DownFrame ==
  ASSUME DownInv, UNCHANGED <<reqSt, step, req, waitAge>>, pwr',
         Downing => UNCHANGED <<mt, mctx, gbRequest>>,
         gcSt = "Stop" => gcSt' = "Stop",
         NoneOf("User") => NoneOf("User")', NoneOf("Mig") => NoneOf("Mig")',
         NoneOf("UErs") => NoneOf("UErs")'
  PROVE  DownInv'
<1> HIDE DEF NoneOf
<1>. QED
  BY DEF DownInv, Downing

\* A step after which no shutdown waits, and the power is on.
LEMMA DownNot ==
  ASSUME pwr', ~Downing', reqSt' = "Run" /\ step' = "WaitIoDone" => gcSt' = "Stop"
  PROVE  DownInv'
  BY DEF DownInv, Downing

LEMMA SameNone ==
  ASSUME NEW k, SameCnt(k), NoneOf(k)
  PROVE  NoneOf(k)'
  BY DEF SameCnt, NoneOf

-----------------------------------------------------------------------------
(* Issuing and collecting, as the parts of the invariant see it.           *)

LEMMA QuietFor ==
  ASSUME IoTypes, UNCHANGED ioVars
  PROVE  IoTypes' /\ \A j \in CbKey : SameFor(j)
  BY SameIo DEF SameFor

LEMMA IssueFor ==
  ASSUME IoTypes, NEW c, GoodCmd(c), Issue(<<c>>), UNCHANGED <<die, done>>
  PROVE  /\ IoTypes'
         /\ \A j \in CbKey \ {c.cb} : SameFor(j)
         /\ \A o \in Ops : Cnt'[c.cb][o] = Cnt[c.cb][o] + (IF c.op = o THEN 1 ELSE 0)
<1>1. /\ IoTypes'
      /\ \A k \in CbKey, o \in Ops :
           Cnt'[k][o] = Cnt[k][o] + (IF c.cb = k /\ c.op = o THEN 1 ELSE 0)
      /\ \A k \in CbKey : Under'[k] \subseteq Under[k] \cup {x \in {c} : x.cb = k}
  BY IssueOne
<1>2. \A k \in CbKey, o \in Ops : Cnt[k][o] \in Nat
  BY CntIs
<1>3. c.cb \in CbKey
  BY DEF GoodCmd
<1>4. ASSUME NEW j \in CbKey \ {c.cb}
      PROVE  SameFor(j)
  <2>1. \A o \in Ops : Cnt'[j][o] = Cnt[j][o]
    BY <1>1, <1>2
  <2>2. Under'[j] \subseteq Under[j]
    BY <1>1
  <2>. QED
    BY <2>1, <2>2 DEF SameFor
<1>. QED
  BY <1>1, <1>3, <1>4

LEMMA PopFor ==
  ASSUME IoTypes, NEW k \in CbKey, HasDone(k), PopDone(k), UNCHANGED <<die, nq>>
  PROVE  /\ IoTypes'
         /\ \A j \in CbKey \ {k} : SameFor(j)
         /\ Under'[k] \subseteq Under[k]
         /\ \A o \in Ops : Cnt'[k][o] = Cnt[k][o] - (IF DoneHead(k).op = o THEN 1 ELSE 0)
<1>1. /\ IoTypes'
      /\ \A j \in CbKey, o \in Ops :
           Cnt'[j][o] = Cnt[j][o] - (IF j = k /\ DoneHead(k).op = o THEN 1 ELSE 0)
      /\ \A j \in CbKey : Under'[j] \subseteq Under[j]
  BY PopOne
<1>2. \A j \in CbKey, o \in Ops : Cnt[j][o] \in Nat
  BY CntIs
<1>3. ASSUME NEW j \in CbKey \ {k}
      PROVE  SameFor(j)
  <2>1. \A o \in Ops : Cnt'[j][o] = Cnt[j][o]
    BY <1>1, <1>2
  <2>. QED
    BY <1>1, <2>1 DEF SameFor
<1>. QED
  BY <1>1, <1>3

LEMMA PopIssueFor ==
  ASSUME IoTypes, NEW k \in CbKey, HasDone(k), PopDone(k),
         NEW c, GoodCmd(c), c.cb = k, Issue(<<c>>), die' = die
  PROVE  /\ IoTypes'
         /\ \A j \in CbKey \ {k} : SameFor(j)
         /\ \A o \in Ops : Cnt'[k][o] = Cnt[k][o] + (IF c.op = o THEN 1 ELSE 0)
                                          - (IF DoneHead(k).op = o THEN 1 ELSE 0)
<1>1. /\ IoTypes'
      /\ \A j \in CbKey \ {k}, o \in Ops : Cnt'[j][o] = Cnt[j][o]
      /\ \A o \in Ops : Cnt'[k][o] = Cnt[k][o] + (IF c.op = o THEN 1 ELSE 0)
                                       - (IF DoneHead(k).op = o THEN 1 ELSE 0)
      /\ \A j \in CbKey \ {k} : Under'[j] \subseteq Under[j]
  BY PopIssue
<1>. QED
  BY <1>1 DEF SameFor

LEMMA KeysDiffer == /\ {"User", "Meta", "Mig", "UErs"} = CbKey
                    /\ {"READ", "PGM", "ERB"} = Ops
  BY DEF CbKey, Ops

\* The commands the tasks issue are good ones.
LEMMA PlainCmds ==
  ASSUME NEW k \in CbKey, NEW b, NEW w
  PROVE  /\ GoodCmd(ReadCmd(k, b, w)) /\ ReadCmd(k, b, w).cb = k /\ ReadCmd(k, b, w).op = "READ"
         /\ GoodCmd(EraseCmd(k, b)) /\ EraseCmd(k, b).cb = k /\ EraseCmd(k, b).op = "ERB"
<1>1. MetaPg(Erased) /\ NoReq.cmd # "shutdown"
  BY DEF MetaPg, IsErased, Erased, NoReq
<1>. QED
  BY <1>1, KeysDiffer DEF GoodCmd, ReadCmd, EraseCmd, Cmd

LEMMA BlksDiffer == \A b \in UBlk : b \notin MBlk
  BY SizeAssumption DEF UBlk, MBlk

LEMMA UserPgm ==
  ASSUME NEW k \in CbKey, NEW b \in UBlk, NEW w, NEW pg
  PROVE  GoodCmd(PgmCmd(k, b, w, pg)) /\ PgmCmd(k, b, w, pg).cb = k /\ PgmCmd(k, b, w, pg).op = "PGM"
<1>1. NoReq.cmd # "shutdown" /\ b \notin MBlk
  BY BlksDiffer DEF NoReq
<1>. QED
  BY <1>1, KeysDiffer DEF GoodCmd, PgmCmd, Cmd

\* The request of a host command is no shutdown.
LEMMA WithReq ==
  ASSUME NEW c, GoodCmd(c), NEW r, r.cmd # "shutdown"
  PROVE  /\ GoodCmd(UserCmd(c, r))
         /\ UserCmd(c, r).cb = c.cb /\ UserCmd(c, r).op = c.op
<1>1. UserCmd(c, r) = [op |-> c.op, cb |-> c.cb, blk |-> c.blk, wl |-> c.wl,
                       pg |-> c.pg, req |-> r]
  BY DEF UserCmd, GoodCmd
<1>. QED
  BY <1>1 DEF GoodCmd

-----------------------------------------------------------------------------
(* The journal and the erase machine.                                      *)

LEMMA GoodEntsPlus ==
  ASSUME NEW s, GoodEnts(s), NEW e, GoodEnt(e)
  PROVE  GoodEnts(Append(s, e))
  BY AppendFacts DEF GoodEnts

LEMMA NoEnts == GoodEnts(<<>>)
  BY NoneFacts DEF GoodEnts

LEMMA UpdateKeepsEnts ==
  ASSUME GoodEnts(jnl.ent), NEW l, NEW a, a.blk \in UBlk, a.wl \in Nat, NEW o,
         MetaUpdate(l, a, o)
  PROVE  GoodEnts(jnl'.ent)
<1>1. CASE l \notin LPN
  BY <1>1 DEF MetaUpdate
<1>2. CASE l \in LPN
  <2>1. jnl'.ent = Append(jnl.ent, JnlWrite(l, a, o))
    BY <1>2 DEF MetaUpdate, JnlPlusWrite
  <2>2. GoodEnt(JnlWrite(l, a, o))
    BY DEF GoodEnt, JnlWrite
  <2>. QED
    BY <2>1, <2>2, GoodEntsPlus
<1>. QED
  BY <1>1, <1>2

\* Only stream o's opener moves on: to the journal, or to the save.
LEMMA JournalKeeps ==
  ASSUME AddrInv, NEW o \in OpenType, NEW trig, ErbJournal(o, trig), erb[o].step # "Init",
         UNCHANGED <<opn, mctx, pool, waitAge>>
  PROVE  /\ AddrInv'
         /\ erb'[o].step \in {"WaitMtSave", "WaitJnlAdd"}
         /\ \A u \in OpenType \ {o} : erb'[u] = erb[u]
<1>1. erb = [u \in OpenType |-> erb[u]] /\ IsErb(erb[o]) /\ erb[o].blk \in UBlk
  BY DEF AddrInv
<1>2. CASE JnlAccepts
  <2>1. /\ jnl' = JnlPlusErase(erb[o].blk, o)
        /\ erb' = [erb EXCEPT ![o].step = "WaitMtSave", ![o].age = mctx.age]
    BY <1>2 DEF ErbJournal
  <2>2. GoodEnts(jnl'.ent)
    <3>1. jnl'.ent = Append(jnl.ent, JnlErase(erb[o].blk, o))
      BY <2>1 DEF JnlPlusErase
    <3>2. GoodEnt(JnlErase(erb[o].blk, o))
      BY <1>1 DEF GoodEnt, JnlErase
    <3>. QED
      BY <3>1, <3>2, GoodEntsPlus DEF AddrInv
  <2>3. /\ erb' = [u \in OpenType |-> erb'[u]]
        /\ erb'[o] = [step |-> "WaitMtSave", blk |-> erb[o].blk, age |-> mctx.age]
        /\ \A u \in OpenType \ {o} : erb'[u] = erb[u]
    BY <1>1, <2>1 DEF IsErb
  <2>. QED
    BY <1>1, <2>2, <2>3 DEF AddrInv, IsErb
<1>3. CASE ~JnlAccepts
  <2>1. jnl' = jnl /\ erb' = [erb EXCEPT ![o].step = "WaitJnlAdd"]
    BY <1>3 DEF ErbJournal
  <2>3. /\ erb' = [u \in OpenType |-> erb'[u]]
        /\ erb'[o] = [step |-> "WaitJnlAdd", blk |-> erb[o].blk, age |-> erb[o].age]
        /\ \A u \in OpenType \ {o} : erb'[u] = erb[u]
    BY <1>1, <2>1 DEF IsErb
  <2>. QED
    BY <1>1, <2>1, <2>3 DEF AddrInv, IsErb
<1>. QED
  BY <1>2, <1>3

\* The number of erases of stream o under way, as its opener waits for them.
Erasing(o) == Cnts(ErbKey(o), 0, 0, IF erb[o].step = "WaitErb" THEN 1 ELSE 0)

\* A block is taken from the pool and its erase is issued.
LEMMA ErbStartKeeps ==
  ASSUME IoTypes, AddrInv, NEW o \in OpenType, pool # <<>>, pool' = Tail(pool), NEW trig,
         ErbStart(o, Head(pool), trig), UNCHANGED <<die, done, jnl, opn, mctx, waitAge>>,
         Cnts(ErbKey(o), 0, 0, 0)
  PROVE  /\ IoTypes' /\ AddrInv' /\ Erasing(o)'
         /\ \A j \in CbKey \ {ErbKey(o)} : SameFor(j)
         /\ \A u \in OpenType \ {o} : erb'[u] = erb[u]
<1> DEFINE c == EraseCmd(ErbKey(o), Head(pool))
<1>1. ErbKey(o) \in CbKey
  BY DEF ErbKey, CbKey
<1>2. GoodCmd(c) /\ c.cb = ErbKey(o) /\ c.op = "ERB"
  BY <1>1, PlainCmds
<1>3. Issue(<<c>>)
  BY DEF ErbStart
<1> HIDE DEF c
<1>4. /\ IoTypes'
      /\ \A j \in CbKey \ {c.cb} : SameFor(j)
      /\ \A x \in Ops : Cnt'[c.cb][x] = Cnt[c.cb][x] + (IF c.op = x THEN 1 ELSE 0)
  BY <1>2, <1>3, IssueFor
<1>5. /\ erb' = [erb EXCEPT ![o] = [step |-> "WaitErb", blk |-> Head(pool), age |-> 0]]
      /\ erb' = [u \in OpenType |-> erb'[u]]
      /\ erb'[o] = [step |-> "WaitErb", blk |-> Head(pool), age |-> 0]
      /\ \A u \in OpenType \ {o} : erb'[u] = erb[u]
  BY DEF ErbStart, AddrInv
<1>6. Head(pool) \in UBlk /\ IsSeq(pool') /\ Elems(pool') \subseteq UBlk
  BY TailFacts DEF AddrInv
<1>7. AddrInv'
  BY <1>5, <1>6 DEF AddrInv, IsErb
<1>8. Erasing(o)'
  <2>1. /\ Cnt'[ErbKey(o)]["READ"] = 0 /\ Cnt'[ErbKey(o)]["PGM"] = 0
        /\ Cnt'[ErbKey(o)]["ERB"] = 1
    BY <1>2, <1>4, KeysDiffer DEF Cnts
  <2>. QED
    BY <1>5, <2>1 DEF Erasing, Cnts
<1>. QED
  BY <1>2, <1>4, <1>5, <1>7, <1>8

\* A call of the erase machine that does not end it.
LEMMA ErbKeeps ==
  ASSUME IoTypes, AddrInv, NEW o \in OpenType, ErbGoesOn(o), Erasing(o),
         UNCHANGED <<opn, mctx, pool, waitAge>>
  PROVE  /\ IoTypes' /\ AddrInv' /\ Erasing(o)'
         /\ \A j \in CbKey \ {ErbKey(o)} : SameFor(j)
         /\ \A u \in OpenType \ {o} : erb'[u] = erb[u]
         /\ erb'[o].step # "Init" /\ erb[o].step # "Init"
<1>0. ErbKey(o) \in CbKey
  BY DEF ErbKey, CbKey
<1>1. CASE ErbErased(o)
  <2>1. /\ erb[o].step = "WaitErb" /\ HasDone(ErbKey(o)) /\ PopDone(ErbKey(o))
        /\ ErbJournal(o, {"IO_FREE"}) /\ UNCHANGED <<die, nq>>
    BY <1>1 DEF ErbErased
  <2>2. /\ AddrInv' /\ erb'[o].step \in {"WaitMtSave", "WaitJnlAdd"}
        /\ \A u \in OpenType \ {o} : erb'[u] = erb[u]
    BY <2>1, JournalKeeps
  <2>3. /\ IoTypes' /\ \A j \in CbKey \ {ErbKey(o)} : SameFor(j)
        /\ \A x \in Ops : Cnt'[ErbKey(o)][x] = Cnt[ErbKey(o)][x]
                                       - (IF DoneHead(ErbKey(o)).op = x THEN 1 ELSE 0)
    BY <1>0, <2>1, PopFor
  <2>4. /\ Cnt[ErbKey(o)]["READ"] = 0 /\ Cnt[ErbKey(o)]["PGM"] = 0
        /\ Cnt[ErbKey(o)]["ERB"] = 1
    BY <2>1 DEF Erasing, Cnts
  <2>5. DoneHead(ErbKey(o)).op = "ERB"
    <3>1. DoneHead(ErbKey(o)).op \in Ops /\ Cnt[ErbKey(o)][DoneHead(ErbKey(o)).op] > 0
      BY <1>0, <2>1, HeadUnder
    <3>. QED
      BY <2>4, <3>1 DEF Ops
  <2>6. /\ Cnt'[ErbKey(o)]["READ"] = 0 /\ Cnt'[ErbKey(o)]["PGM"] = 0
        /\ Cnt'[ErbKey(o)]["ERB"] = 0
    BY <2>3, <2>4, <2>5, KeysDiffer
  <2>. QED
    BY <2>1, <2>2, <2>3, <2>6 DEF Erasing, Cnts
<1>2. CASE ErbRetry(o)
  <2>1. erb[o].step = "WaitJnlAdd" /\ ErbJournal(o, {}) /\ UNCHANGED ioVars
    BY <1>2 DEF ErbRetry
  <2>2. /\ AddrInv' /\ erb'[o].step \in {"WaitMtSave", "WaitJnlAdd"}
        /\ \A u \in OpenType \ {o} : erb'[u] = erb[u]
    BY <2>1, JournalKeeps
  <2>3. IoTypes' /\ Cnt' = Cnt /\ \A j \in CbKey : SameFor(j)
    BY <2>1, SameIo, QuietFor
  <2>. QED
    BY <2>1, <2>2, <2>3 DEF Erasing, Cnts
<1>3. CASE ErbWait(o)
  <2>1. UNCHANGED <<ioVars, jnlVars, erb>> /\ erb[o].step \in {"WaitErb", "WaitMtSave"}
    BY <1>3 DEF ErbWait
  <2>2. AddrInv'
    BY <2>1, AddrFrame DEF jnlVars
  <2>3. IoTypes' /\ Cnt' = Cnt /\ \A j \in CbKey : SameFor(j)
    BY <2>1, SameIo, QuietFor
  <2>. QED
    BY <2>1, <2>2, <2>3 DEF Erasing, Cnts
<1>. QED
  BY <1>1, <1>2, <1>3 DEF ErbGoesOn

-----------------------------------------------------------------------------
(* The REQ task.                                                           *)

\* Outside BlkErsWait of a write the opener of the user stream rests.
LEMMA ErbRests ==
  ASSUME ErbInv, NEW r, NEW at, Handling(r, at),
         ~(r.cmd = "write" /\ UserBlkFull /\ at = "BlkErsWait")
  PROVE  erb["USER"].step = "Init"
  BY DEF ErbInv, Handling

\* A step of REQ that only deals with its request, and may issue a command of
\* the host, leaves every other part as it is.
LEMMA ReqFrame ==
  ASSUME RestInv, IoTypes', \A j \in CbKey \ {"User"} : SameFor(j),
         UNCHANGED <<mt, os, us, gcSt, mv, erb, jnl, opn, mctx, pool>>,
         erb["USER"].step = "Init" \/ UNCHANGED <<reqSt, step, req>>,
         waitAge' \in Nat, DownInv'
  PROVE  RestInv'
<1>1. AddrInv'
  BY DEF RestInv, AddrInv
<1>2. MetaInv'
  BY MetaFrame, KeysDiffer DEF RestInv
<1>3. ErbInv'
  BY ErbFrame, KeysDiffer DEF RestInv, SameFor, SameCnt
<1>4. MigInv'
  BY MigFrame, KeysDiffer DEF RestInv, SameFor, SameCnt
<1>. QED
  BY <1>1, <1>2, <1>3, <1>4 DEF RestInv

LEMMA ReqReadKeeps ==
  ASSUME RestInv, pwr, NEW r, NEW at, Handling(r, at),
         ReqReadMapped(r, at) \/ ReqReadUnmapped(r, at)
  PROVE  RestInv'
<1> USE DEF otherThanReq, mapVars, jnlVars, openVars, gcVars, hostVars
<1>1. r.cmd = "read" /\ Fetched
  BY DEF ReqReadMapped, ReqReadUnmapped
<1>2. erb["USER"].step = "Init"
  BY <1>1, ErbRests DEF RestInv
<1>3. pwr'
  BY <1>1 DEF ReqReadMapped, ReqReadUnmapped, Respond
<1>4. DownInv'
  BY <1>1, <1>3, DownNot DEF Fetched, Downing
<1>5. IoTypes' /\ \A j \in CbKey \ {"User"} : SameFor(j)
  <2>1. CASE ReqReadMapped(r, at)
    <3> DEFINE b == META_GetMap(r.lpn).blk
               w == META_GetMap(r.lpn).wl
               c == UserCmd(ReadCmd("User", b, w), r)
    <3>1. GoodCmd(ReadCmd("User", b, w)) /\ ReadCmd("User", b, w).cb = "User"
      BY PlainCmds, KeysDiffer
    <3>2. GoodCmd(c) /\ c.cb = "User"
      BY <1>1, <3>1, WithReq
    <3>3. Issue(<<c>>) /\ UNCHANGED <<die, done>>
      BY <2>1 DEF ReqReadMapped
    <3> HIDE DEF c
    <3>. QED
      BY <3>2, <3>3, IssueFor DEF RestInv
  <2>2. CASE ReqReadUnmapped(r, at)
    BY <2>2, QuietFor DEF ReqReadUnmapped, RestInv
  <2>. QED
    BY <2>1, <2>2
<1>6. UNCHANGED <<mt, os, us, gcSt, mv, erb, jnl, opn, mctx, pool>> /\ waitAge' \in Nat
  BY <1>1 DEF ReqReadMapped, ReqReadUnmapped, Fetched
<1>. QED
  BY <1>2, <1>4, <1>5, <1>6, ReqFrame

LEMMA ReqNeedsBlkKeeps ==
  ASSUME RestInv, pwr, NEW r, NEW at, Handling(r, at), ReqNeedsBlk(r, at)
  PROVE  RestInv'
<1> USE DEF mapVars, jnlVars, openVars, gcVars, hostVars
<1>1. /\ r.cmd = "write" /\ UserBlkFull /\ at \in {"Init", "Run"} /\ pwr'
      /\ UNCHANGED <<die, done, mt, os, us, gcSt, mv, jnl, opn, mctx, waitAge>>
  BY DEF ReqNeedsBlk
<1>2. erb["USER"].step = "Init"
  BY <1>1, ErbRests DEF RestInv
<1>3. CASE ReqMayTake
  <2>1. /\ pool' = Tail(pool) /\ ErbStart("USER", Head(pool), BlkReqEvt)
        /\ Remains(r, "BlkErsWait")
    BY <1>3 DEF ReqNeedsBlk
  <2>2. pool # <<>>
    BY <1>3 DEF ReqMayTake
  <2>3. ErbKey("USER") = "UErs" /\ "USER" \in OpenType /\ "GC" \in OpenType
    BY DEF ErbKey, OpenType
  <2>4. Cnts("UErs", 0, 0, 0)
    BY <1>2 DEF RestInv, ErbInv
  <2>5. /\ IoTypes' /\ AddrInv' /\ Erasing("USER")'
        /\ \A j \in CbKey \ {ErbKey("USER")} : SameFor(j)
        /\ \A u \in OpenType \ {"USER"} : erb'[u] = erb[u]
    BY <1>1, <2>1, <2>2, <2>3, <2>4, ErbStartKeeps DEF RestInv
  <2>6. DownInv'
    BY <1>1, <2>1, DownNot DEF Remains, Downing
  <2>7. SameFor("Meta") /\ SameCnt("Mig") /\ erb'["GC"] = erb["GC"]
    BY <2>3, <2>5, KeysDiffer DEF SameFor, SameCnt, OpenType
  <2>8. MetaInv'
    BY <1>1, <2>7, MetaFrame DEF RestInv
  <2>9. MigInv'
    BY <1>1, <2>7, MigFrame DEF RestInv
  <2>10. ErbInv'
    <3>1. reqSt' = "Run" /\ step' = "BlkErsWait" /\ req' = r /\ UserBlkFull'
      BY <1>1, <2>1 DEF Remains, UserBlkFull
    <3>2. Cnts("UErs", 0, 0, IF erb["USER"].step = "WaitErb" THEN 1 ELSE 0)'
      BY <2>3, <2>5 DEF Erasing, Cnts
    <3>. QED
      BY <1>1, <2>7, <3>1, <3>2 DEF ErbInv, RestInv
  <2>. QED
    BY <2>5, <2>6, <2>8, <2>9, <2>10 DEF RestInv
<1>4. CASE ~ReqMayTake
  <2>1. UNCHANGED <<pool, erb, nq>> /\ Remains(r, "Run")
    BY <1>4 DEF ReqNeedsBlk
  <2>2. DownInv'
    BY <1>1, <2>1, DownNot DEF Remains, Downing
  <2>3. IoTypes' /\ \A j \in CbKey : SameFor(j)
    BY <1>1, <2>1, QuietFor DEF RestInv, ioVars
  <2>4. waitAge' \in Nat
    BY <1>1 DEF RestInv, AddrInv
  <2>. QED
    BY <1>1, <1>2, <2>1, <2>2, <2>3, <2>4, ReqFrame
<1>. QED
  BY <1>3, <1>4

LEMMA ReqErasingKeeps ==
  ASSUME RestInv, pwr, NEW r, NEW at, Handling(r, at), ReqErasing(r, at)
  PROVE  RestInv'
<1> USE DEF mapVars, openVars, hostVars
<1>1. /\ r.cmd = "write" /\ UserBlkFull /\ at = "BlkErsWait" /\ pwr'
      /\ ErbGoesOn("USER") /\ Remains(r, at)
      /\ UNCHANGED <<opn, mctx, mt, os, us, gcSt, mv, pool, waitAge>>
  BY DEF ReqErasing
<1>2. ErbKey("USER") = "UErs" /\ "USER" \in OpenType /\ "GC" \in OpenType
  BY DEF ErbKey, OpenType
<1>3. Erasing("USER")
  BY <1>2 DEF RestInv, ErbInv, Erasing
<1>4. /\ IoTypes' /\ AddrInv' /\ Erasing("USER")'
      /\ \A j \in CbKey \ {ErbKey("USER")} : SameFor(j)
      /\ \A u \in OpenType \ {"USER"} : erb'[u] = erb[u]
  BY <1>1, <1>2, <1>3, ErbKeeps DEF RestInv
<1>5. SameFor("Meta") /\ SameCnt("Mig") /\ erb'["GC"] = erb["GC"]
  BY <1>2, <1>4, KeysDiffer DEF SameFor, SameCnt, OpenType
<1>6. MetaInv'
  BY <1>1, <1>5, MetaFrame DEF RestInv
<1>7. MigInv'
  BY <1>1, <1>5, MigFrame DEF RestInv
<1>8. ErbInv'
  <2>1. reqSt' = "Run" /\ step' = "BlkErsWait" /\ req' = r /\ UserBlkFull'
    BY <1>1 DEF Remains, UserBlkFull
  <2>2. Cnts("UErs", 0, 0, IF erb["USER"].step = "WaitErb" THEN 1 ELSE 0)'
    BY <1>2, <1>4 DEF Erasing, Cnts
  <2>. QED
    BY <1>1, <1>5, <2>1, <2>2 DEF ErbInv, RestInv
<1>9. DownInv'
  BY <1>1, DownNot DEF Remains, Downing
<1>. QED
  BY <1>4, <1>6, <1>7, <1>8, <1>9 DEF RestInv

\* The block is erased and the erase saved: the stream goes on there.
LEMMA OpenedKeeps ==
  ASSUME IoTypes, AddrInv, NEW o \in OpenType, ErbOver(o), META_SetOpen(o, erb[o].blk),
         UNCHANGED <<jnl, mctx, pool, waitAge>>
  PROVE  /\ AddrInv'
         /\ erb'[o].step = "Init" /\ erb[o].step = "WaitMtSave" /\ erb[o].blk \in UBlk
         /\ \A u \in OpenType \ {o} : erb'[u] = erb[u] /\ opn'[u] = opn[u]
<1>1. erb[o].step = "WaitMtSave" /\ erb[o].blk \in UBlk
  BY DEF ErbOver, AddrInv
<1>2. /\ erb' = [u \in OpenType |-> erb'[u]] /\ erb'[o] = ErbIdle
      /\ \A u \in OpenType \ {o} : erb'[u] = erb[u]
  BY DEF ErbOver, AddrInv
<1>3. /\ opn' = [u \in OpenType |-> opn'[u]] /\ opn'[o] = VAddr(erb[o].blk, 0)
      /\ \A u \in OpenType \ {o} : opn'[u] = opn[u]
  BY DEF META_SetOpen, AddrInv
<1>4. IsErb(ErbIdle) /\ ErbIdle.step = "Init"
  BY DEF IsErb, ErbIdle
<1>5. IsNext(VAddr(erb[o].blk, 0))
  BY <1>1 DEF IsNext, VAddr
<1>. QED
  BY <1>1, <1>2, <1>3, <1>4, <1>5 DEF AddrInv

LEMMA ReqNewBlkKeeps ==
  ASSUME RestInv, pwr, mt # "Open", NEW r, NEW at, Handling(r, at), ReqNewBlk(r, at)
  PROVE  RestInv'
<1> USE DEF jnlVars, openVars, hostVars
<1>1. /\ pwr' /\ ErbOver("USER") /\ META_SetOpen("USER", erb["USER"].blk) /\ Remains(r, "Run")
      /\ UNCHANGED <<ioVars, jnl, mctx, mt, os, us, gcSt, mv, pool, waitAge>>
  BY DEF ReqNewBlk
<1>2. "USER" \in OpenType /\ "GC" \in OpenType
  BY DEF OpenType
<1>3. /\ AddrInv' /\ erb'["USER"].step = "Init" /\ erb["USER"].step = "WaitMtSave"
      /\ \A u \in OpenType \ {"USER"} : erb'[u] = erb[u] /\ opn'[u] = opn[u]
  BY <1>1, <1>2, OpenedKeeps DEF RestInv
<1>4. IoTypes' /\ Cnt' = Cnt /\ \A j \in CbKey : SameFor(j)
  BY <1>1, SameIo, QuietFor DEF RestInv
<1>5. SameFor("Meta") /\ SameCnt("Mig") /\ erb'["GC"] = erb["GC"]
  BY <1>2, <1>3, <1>4, KeysDiffer DEF SameFor, SameCnt, OpenType
<1>6. MetaInv'
  BY <1>1, <1>5, MetaFrame DEF RestInv
<1>7. MigInv'
  BY <1>1, <1>5, MigFrame DEF RestInv
<1>8. ErbInv'
  BY <1>1, <1>3, <1>4, <1>5 DEF ErbInv, RestInv, Cnts
<1>9. DownInv'
  BY <1>1, DownNot DEF Remains, Downing
<1>. QED
  BY <1>3, <1>4, <1>6, <1>7, <1>8, <1>9 DEF RestInv

LEMMA ReqProgramKeeps ==
  ASSUME RestInv, pwr, mt # "Open", NEW r, NEW at, Handling(r, at), ReqProgram(r, at)
  PROVE  RestInv'
<1> USE DEF mapVars, openVars, gcVars, hostVars
<1>1. /\ r.cmd = "write" /\ ~UserBlkFull /\ pwr' /\ Fetched
      /\ MetaUpdate(r.lpn, opn["USER"], "USER")
      /\ opn' = [opn EXCEPT !["USER"].wl = @ + 1]
      /\ UNCHANGED <<die, done, mctx, mt, os, us, gcSt, mv, pool, erb>>
  BY DEF ReqProgram
<1>2. erb["USER"].step = "Init"
  BY <1>1, ErbRests DEF RestInv
<1>3. "USER" \in OpenType /\ "GC" \in OpenType
  BY DEF OpenType
<1>4. /\ opn["USER"] = VAddr(opn["USER"].blk, opn["USER"].wl)
      /\ opn["USER"].wl \in Nat /\ opn["USER"].wl < NUM_WL /\ opn["USER"].blk \in UBlk
  BY <1>1, <1>3, SizeAssumption DEF RestInv, AddrInv, IsNext, UserBlkFull
<1>5. /\ opn' = [o \in OpenType |-> opn'[o]]
      /\ opn'["USER"] = VAddr(opn["USER"].blk, opn["USER"].wl + 1)
      /\ \A o \in OpenType \ {"USER"} : opn'[o] = opn[o]
  BY <1>1, <1>3, <1>4 DEF RestInv, AddrInv, VAddr
<1>6. AddrInv'
  <2>1. GoodEnts(jnl'.ent)
    BY <1>1, <1>4, UpdateKeepsEnts DEF RestInv, AddrInv
  <2>2. IsNext(opn'["USER"])
    BY <1>4, <1>5 DEF IsNext, VAddr
  <2>3. waitAge' \in Nat
    BY <1>1 DEF Fetched
  <2>. QED
    BY <1>1, <1>5, <2>1, <2>2, <2>3 DEF RestInv, AddrInv
<1>7. IoTypes' /\ \A j \in CbKey \ {"User"} : SameFor(j)
  <2> DEFINE p == PgmCmd("User", opn["USER"].blk, opn["USER"].wl, DataPage(r.lpn, r.ver))
             c == UserCmd(p, r)
  <2>1. GoodCmd(p) /\ p.cb = "User"
    BY <1>4, UserPgm, KeysDiffer
  <2>2. Issue(<<c>>)
    BY DEF ReqProgram
  <2> HIDE DEF p
  <2>3. GoodCmd(c) /\ c.cb = "User"
    BY <1>1, <2>1, WithReq
  <2> HIDE DEF c
  <2>. QED
    BY <1>1, <2>2, <2>3, IssueFor DEF RestInv
<1>8. SameFor("Meta") /\ SameCnt("Mig") /\ SameCnt("UErs")
  BY <1>7, KeysDiffer DEF SameFor, SameCnt
<1>9. MetaInv'
  BY <1>1, <1>8, MetaFrame DEF RestInv
<1>10. MigInv'
  BY <1>1, <1>8, MigFrame DEF RestInv
<1>11. ErbInv'
  <2>1. /\ Cnt'["UErs"]["READ"] = Cnt["UErs"]["READ"] /\ Cnt'["UErs"]["PGM"] = Cnt["UErs"]["PGM"]
        /\ Cnt'["UErs"]["ERB"] = Cnt["UErs"]["ERB"]
    BY <1>8, KeysDiffer DEF SameCnt
  <2>. QED
    BY <1>1, <1>2, <2>1 DEF ErbInv, RestInv, Cnts
<1>12. DownInv'
  BY <1>1, DownNot DEF Fetched, Downing
<1>. QED
  BY <1>6, <1>7, <1>9, <1>10, <1>11, <1>12 DEF RestInv

LEMMA ReqJnlBusyKeeps ==
  ASSUME RestInv, pwr, NEW r, NEW at, Handling(r, at), ReqJnlBusy(r, at)
  PROVE  RestInv'
<1> USE DEF otherThanReq, mapVars, jnlVars, openVars, gcVars, hostVars
<1>1. /\ ~UserBlkFull /\ Remains(r, "Run") /\ pwr'
      /\ UNCHANGED <<ioVars, mt, os, us, gcSt, mv, erb, jnl, opn, mctx, pool, waitAge>>
  BY DEF ReqJnlBusy
<1>2. erb["USER"].step = "Init"
  BY <1>1, ErbRests DEF RestInv
<1>3. DownInv'
  BY <1>1, DownNot DEF Remains, Downing
<1>4. IoTypes' /\ \A j \in CbKey : SameFor(j)
  BY <1>1, QuietFor DEF RestInv
<1>5. waitAge' \in Nat
  BY <1>1 DEF RestInv, AddrInv
<1>. QED
  BY <1>1, <1>2, <1>3, <1>4, <1>5, ReqFrame

\* A step of a shutdown, after which GC has stopped.
LEMMA ShutdownFrame ==
  ASSUME RestInv, NEW r, NEW at, Handling(r, at), r.cmd = "shutdown",
         at \in {"Init", "WaitIoDone"}, StopGc(at),
         UNCHANGED <<ioVars, mt, os, us, mv, erb, jnl, opn, mctx, pool>>, waitAge' \in Nat,
         gcSt' = "Stop" => DownInv'
  PROVE  RestInv'
<1>1. erb["USER"].step = "Init"
  BY ErbRests DEF RestInv
<1>2. gcSt' = "Stop"
  BY DEF StopGc, Handling, RestInv, DownInv
<1>3. IoTypes' /\ \A j \in CbKey : SameFor(j)
  BY QuietFor DEF RestInv
<1>4. AddrInv'
  BY DEF RestInv, AddrInv
<1>5. MetaInv'
  BY <1>3, MetaFrame, KeysDiffer DEF RestInv
<1>6. ErbInv'
  BY <1>1, <1>2, <1>3, ErbFrame, KeysDiffer DEF RestInv, SameFor, SameCnt
<1>7. MigInv'
  BY <1>2, MigStops DEF RestInv
<1>. QED
  BY <1>2, <1>3, <1>4, <1>5, <1>6, <1>7 DEF RestInv

LEMMA ShutdownWaitIoKeeps ==
  ASSUME RestInv, pwr, NEW r, NEW at, Handling(r, at), ShutdownWaitIo(r, at)
  PROVE  RestInv'
<1> USE DEF mapVars, jnlVars, openVars, hostVars
<1>1. /\ r.cmd = "shutdown" /\ at \in {"Init", "WaitIoDone"} /\ StopGc(at)
      /\ Remains(r, "WaitIoDone") /\ pwr'
      /\ UNCHANGED <<ioVars, mt, os, us, mv, erb, jnl, opn, mctx, pool, waitAge>>
  BY DEF ShutdownWaitIo
<1>2. gcSt' = "Stop" => DownInv'
  BY <1>1, DownNot DEF Remains, Downing
<1>3. waitAge' \in Nat
  BY <1>1 DEF RestInv, AddrInv
<1>. QED
  BY <1>1, <1>2, <1>3, ShutdownFrame

LEMMA ShutdownSuddenKeeps ==
  ASSUME RestInv, pwr, NEW r, NEW at, Handling(r, at), ShutdownSudden(r, at)
  PROVE  RestInv'
<1> USE DEF mapVars, jnlVars, openVars, ioVars
<1>1. /\ r.cmd = "shutdown" /\ at \in {"Init", "WaitIoDone"} /\ StopGc(at) /\ AllIoDone
      /\ r.opt = "SD_Sudden" /\ Respond(r, Erased) /\ Fetched
      /\ UNCHANGED <<ioVars, mt, os, us, mv, erb, jnl, opn, mctx, pool>>
  BY DEF ShutdownSudden
<1>2. Outstanding = 0
  BY <1>1, IoDoneMeansNone DEF RestInv
<1>3. Outstanding' = 0
  BY <1>1, <1>2 DEF Outstanding
<1>4. rsp'.req # ShutdownReq("SD_Safe")
  BY <1>1 DEF Respond, ShutdownReq
<1>5. DownInv'
  BY <1>1, <1>3, <1>4 DEF DownInv, Downing, Fetched
<1>6. waitAge' \in Nat
  BY <1>1 DEF Fetched
<1>. QED
  BY <1>1, <1>5, <1>6, ShutdownFrame

\* No command is under way, so META is not saving either: the save asked for
\* now is of the age META has now.
LEMMA ShutdownSaveKeeps ==
  ASSUME RestInv, ~Opening, pwr, NEW r, NEW at, Handling(r, at), ShutdownSave(r, at)
  PROVE  RestInv'
<1> USE DEF mapVars, openVars, hostVars
<1>1. /\ r.cmd = "shutdown" /\ at \in {"Init", "WaitIoDone"} /\ StopGc(at) /\ AllIoDone
      /\ META_ReqSave(TRUE) /\ waitAge' = mctx.age /\ Remains(r, "WaitMtSave") /\ pwr'
      /\ UNCHANGED <<ioVars, mt, os, us, mv, erb, jnl, opn, mctx, pool>>
  BY DEF ShutdownSave
<1>2. \A k \in CbKey : NoneOf(k)
  BY <1>1, IoDoneMeansNone, NoneUnder DEF RestInv
<1>3. mt = "Ready"
  <2>1. Cnt["Meta"]["ERB"] = 0 /\ Cnt["Meta"]["PGM"] = 0
    BY <1>2, KeysDiffer DEF NoneOf
  <2>. QED
    BY <2>1 DEF RestInv, MetaInv, SaveInv, Opening, Cnts
<1>4. Cnt' = Cnt
  BY <1>1, SameIo DEF RestInv
<1>5. NoneOf("User")' /\ NoneOf("Mig")' /\ NoneOf("UErs")'
  BY <1>2, <1>4, KeysDiffer DEF NoneOf
<1>6. gbRequest'
  BY <1>1 DEF META_ReqSave
<1>7. gcSt' = "Stop" => DownInv'
  BY <1>1, <1>3, <1>5, <1>6 DEF DownInv, Downing, Remains
<1>8. waitAge' \in Nat
  BY <1>1 DEF RestInv, AddrInv, IsCtx
<1>. QED
  BY <1>1, <1>7, <1>8, ShutdownFrame

LEMMA ShutdownSavingKeeps ==
  ASSUME RestInv, pwr, NEW r, NEW at, Handling(r, at), ShutdownSaving(r, at)
  PROVE  RestInv'
<1> USE DEF otherThanReq, mapVars, jnlVars, openVars, gcVars, hostVars
<1>1. /\ r.cmd = "shutdown" /\ at = "WaitMtSave" /\ Remains(r, at) /\ pwr'
      /\ UNCHANGED <<ioVars, mt, os, us, gcSt, mv, erb, jnl, opn, mctx, pool, waitAge, gbRequest>>
  BY DEF ShutdownSaving
<1>2. UNCHANGED <<reqSt, step, req>>
  BY <1>1 DEF Handling, Remains
<1>3. IoTypes' /\ \A j \in CbKey : SameFor(j)
  BY <1>1, QuietFor DEF RestInv
<1>4. DownInv'
  BY <1>1, <1>2, <1>3, DownFrame, SameNone, KeysDiffer DEF RestInv, SameFor, SameCnt
<1>5. waitAge' \in Nat
  BY <1>1 DEF RestInv, AddrInv
<1>. QED
  BY <1>1, <1>2, <1>3, <1>4, <1>5, ReqFrame

\* The age has advanced, so the save has run to its end and its page is the
\* last command there was.
LEMMA ShutdownSavedKeeps ==
  ASSUME RestInv, pwr, NEW r, NEW at, Handling(r, at), ShutdownSaved(r, at)
  PROVE  RestInv'
<1> USE DEF otherThanReq, mapVars, jnlVars, openVars, gcVars
<1>1. /\ r.cmd = "shutdown" /\ at = "WaitMtSave" /\ mctx.age > waitAge
      /\ Respond(r, Erased) /\ Fetched
      /\ UNCHANGED <<ioVars, mt, os, us, gcSt, mv, erb, jnl, opn, mctx, pool, gbRequest>>
  BY DEF ShutdownSaved
<1>2. Downing
  BY <1>1 DEF Handling, Downing
<1>3. mctx.age \in Nat /\ waitAge \in Nat
  BY DEF RestInv, AddrInv, IsCtx
<1>4. /\ NoneOf("User") /\ NoneOf("Mig") /\ NoneOf("UErs")
      /\ ~gbRequest /\ mt = "Ready"
  <2>1. mctx.age # waitAge
    BY <1>1, <1>3
  <2>. QED
    BY <1>2, <2>1 DEF RestInv, DownInv
<1>5. NoneOf("Meta")
  BY <1>4 DEF RestInv, MetaInv, SaveInv, Cnts, NoneOf, Ops
<1>6. Outstanding = 0
  BY <1>4, <1>5, NoneUnder, KeysDiffer DEF RestInv
<1>7. Outstanding' = 0
  BY <1>1, <1>6 DEF Outstanding, ioVars
<1>8. DownInv'
  BY <1>1, <1>4, <1>7 DEF DownInv, Downing, Fetched
<1>9. erb["USER"].step = "Init"
  BY <1>1, ErbRests DEF RestInv
<1>10. IoTypes' /\ \A j \in CbKey : SameFor(j)
  BY <1>1, QuietFor DEF RestInv
<1>11. waitAge' \in Nat
  BY <1>1 DEF Fetched
<1>. QED
  BY <1>1, <1>8, <1>9, <1>10, <1>11, ReqFrame

LEMMA ReqKeeps ==
  ASSUME MapInv, RestInv, pwr, Req_Run
  PROVE  RestInv'
<1> USE DEF otherThanReq, mapVars, jnlVars, openVars, gcVars, reqVars, hostVars
<1>1. CASE ReqWaitOpen \/ ReqOpened \/ ReqIdle
  <2>1. /\ pwr'
        /\ UNCHANGED <<ioVars, mt, os, us, gcSt, mv, erb, jnl, opn, mctx, pool, step, req,
                       waitAge, gbRequest>>
        /\ reqSt # "Run" /\ reqSt' # "Run"
    BY <1>1 DEF ReqWaitOpen, ReqOpened, ReqIdle
  <2>2. erb["USER"].step = "Init"
    BY <2>1 DEF RestInv, ErbInv
  <2>3. DownInv'
    BY <2>1, DownNot DEF Downing
  <2>4. IoTypes' /\ \A j \in CbKey : SameFor(j)
    BY <2>1, QuietFor DEF RestInv
  <2>5. waitAge' \in Nat
    BY <2>1 DEF RestInv, AddrInv
  <2>. QED
    BY <2>1, <2>2, <2>3, <2>4, <2>5, ReqFrame
<1>2. ASSUME NEW r, NEW at, Handling(r, at), ReqStep(r, at)
      PROVE  RestInv'
  <2>1. ~Opening /\ mt # "Open"
    BY <1>2 DEF Handling, MapInv, Opening
  <2>2. CASE ReqReadMapped(r, at) \/ ReqReadUnmapped(r, at)
    BY <1>2, <2>2, ReqReadKeeps
  <2>3. CASE ReqNeedsBlk(r, at)
    BY <1>2, <2>3, ReqNeedsBlkKeeps
  <2>4. CASE ReqErasing(r, at)
    BY <1>2, <2>4, ReqErasingKeeps
  <2>5. CASE ReqNewBlk(r, at)
    BY <1>2, <2>1, <2>5, ReqNewBlkKeeps
  <2>6. CASE ReqProgram(r, at)
    BY <1>2, <2>1, <2>6, ReqProgramKeeps
  <2>7. CASE ReqJnlBusy(r, at)
    BY <1>2, <2>7, ReqJnlBusyKeeps
  <2>8. CASE ShutdownWaitIo(r, at)
    BY <1>2, <2>8, ShutdownWaitIoKeeps
  <2>9. CASE ShutdownSudden(r, at)
    BY <1>2, <2>9, ShutdownSuddenKeeps
  <2>10. CASE ShutdownSave(r, at)
    BY <1>2, <2>1, <2>10, ShutdownSaveKeeps
  <2>11. CASE ShutdownSaving(r, at)
    BY <1>2, <2>11, ShutdownSavingKeeps
  <2>12. CASE ShutdownSaved(r, at)
    BY <1>2, <2>12, ShutdownSavedKeeps
  <2>. QED
    BY <1>2, <2>2, <2>3, <2>4, <2>5, <2>6, <2>7, <2>8, <2>9, <2>10, <2>11, <2>12 DEF ReqStep
<1>. QED
  BY <1>1, <1>2 DEF Req_Run

\* REQ_RESP: no command carries a shutdown, so no answer of it ends the power.
LEMMA RespKeeps ==
  ASSUME RestInv, pwr, ReqResp_Run
  PROVE  RestInv'
<1> USE DEF otherThanReq, mapVars, jnlVars, openVars, gcVars, reqVars, hostVars
<1>1. CASE RespWait
  <2>1. /\ pwr' /\ UNCHANGED <<reqSt, step, req, waitAge>>
        /\ UNCHANGED <<ioVars, mt, os, us, gcSt, mv, erb, jnl, opn, mctx, pool, gbRequest>>
    BY <1>1 DEF RespWait
  <2>2. IoTypes' /\ \A j \in CbKey : SameFor(j)
    BY <2>1, QuietFor DEF RestInv
  <2>3. DownInv'
    BY <2>1, <2>2, DownFrame, SameNone, KeysDiffer DEF RestInv, SameFor, SameCnt
  <2>4. waitAge' \in Nat
    BY <2>1 DEF RestInv, AddrInv
  <2>. QED
    BY <2>1, <2>2, <2>3, <2>4, ReqFrame
<1>2. CASE RespDone
  <2>1. /\ HasDone("User") /\ PopDone("User") /\ UNCHANGED <<die, nq>>
        /\ UNCHANGED <<reqSt, step, req, waitAge>>
        /\ UNCHANGED <<mt, os, us, gcSt, mv, erb, jnl, opn, mctx, pool, gbRequest>>
        /\ pwr' = (DoneHead("User").req.cmd # "shutdown")
    BY <1>2 DEF RespDone, Respond
  <2>2. IoTypes' /\ \A j \in CbKey \ {"User"} : SameFor(j)
    BY <2>1, PopFor, KeysDiffer DEF RestInv
  <2>3. GoodCmd(DoneHead("User")) /\ Cnt["User"][DoneHead("User").op] > 0
        /\ DoneHead("User").op \in Ops
    BY <2>1, HeadUnder, KeysDiffer DEF RestInv
  <2>4. pwr' /\ ~NoneOf("User")
    <3>1. DoneHead("User").req.cmd # "shutdown"
      BY <2>3 DEF GoodCmd
    <3>2. Cnt["User"][DoneHead("User").op] # 0
      BY <2>3
    <3>. QED
      BY <2>1, <2>3, <3>1, <3>2 DEF NoneOf
  <2>5. DownInv'
    BY <2>1, <2>2, <2>4, DownFrame, SameNone, KeysDiffer DEF RestInv, SameFor, SameCnt
  <2>6. waitAge' \in Nat
    BY <2>1 DEF RestInv, AddrInv
  <2>. QED
    BY <2>1, <2>2, <2>5, <2>6, ReqFrame
<1>. QED
  BY <1>1, <1>2 DEF ReqResp_Run

-----------------------------------------------------------------------------
(* The GC task.                                                            *)

LEMMA ScanFreeKeeps ==
  ASSUME IsSeq(pool), Elems(pool) \subseteq UBlk, NEW bs, ScanFree(bs)
  PROVE  IsSeq(pool') /\ Elems(pool') \subseteq UBlk
<1> DEFINE n == Lesser(SIZE_FREE_POOL - Len(pool), Cardinality(FreeBlks(bs)))
<1>1. IsFiniteSet(UBlk)
  <2>1. 0 \in Int /\ NUM_USER_BLK - 1 \in Int
    BY SizeAssumption
  <2>. QED
    BY <2>1, FS_Interval DEF UBlk
<1>2. FreeBlks(bs) \subseteq UBlk
  BY DEF FreeBlks
<1>3. Cardinality(FreeBlks(bs)) \in Nat
  BY <1>1, <1>2, FS_Subset, FS_CardinalityType
<1>4. Len(pool) \in Nat
  BY SeqFacts
<1>5. n \in Int
  BY <1>3, <1>4, GcAssumption DEF Lesser
<1> HIDE DEF n
<1>6. PICK s \in [1 .. n -> FreeBlks(bs)] : pool' = pool \o s
  BY DEF ScanFree, Taken, n
<1>7. s \in Seq(UBlk)
  <2>1. CASE n \in Nat
    BY <1>2, <2>1
  <2>2. CASE n \notin Nat
    <3>1. 1 .. n = 1 .. 0
      BY <1>5, <2>2
    <3>2. s \in [1 .. 0 -> UBlk]
      BY <1>2, <1>6, <3>1
    <3>. QED
      BY <3>2
  <2>. QED
    BY <2>1, <2>2
<1>8. IsSeq(s) /\ Elems(s) \subseteq UBlk
  BY <1>7, SeqOfAny
<1>9. IsSeq(pool \o s) /\ Elems(pool \o s) = Elems(pool) \cup Elems(s)
  BY <1>8, ConcatFacts
<1>. QED
  BY <1>6, <1>8, <1>9

\* A turn of GC that is not stopped.
LEMMA GcFrame ==
  ASSUME RestInv, IoTypes', AddrInv', MigInv', gcSt # "Stop",
         \A j \in CbKey \ {"Mig"} : SameFor(j),
         UNCHANGED <<mt, os, us, reqSt, step, req>>, pwr',
         mt = "Open" => UNCHANGED opn, opn'["USER"] = opn["USER"], erb'["USER"] = erb["USER"],
         erb'["GC"].step # "Init" => gcSt' = "ErsDst"
  PROVE  RestInv'
<1>1. MetaInv'
  BY MetaFrame, KeysDiffer DEF RestInv
<1>2. ErbInv'
  <2>1. /\ Cnt'["UErs"]["READ"] = Cnt["UErs"]["READ"] /\ Cnt'["UErs"]["PGM"] = Cnt["UErs"]["PGM"]
        /\ Cnt'["UErs"]["ERB"] = Cnt["UErs"]["ERB"]
    BY KeysDiffer DEF SameFor
  <2>. QED
    BY <2>1 DEF RestInv, ErbInv, Cnts, UserBlkFull
<1>3. DownInv'
  BY DEF RestInv, DownInv, Downing
<1>. QED
  BY <1>1, <1>2, <1>3 DEF RestInv

LEMMA GcWaitKeeps ==
  ASSUME RestInv, pwr, UNCHANGED <<reqSt, step, req, waitAge, pwr>>,
         GcWaitOpen \/ GcMoveWait
  PROVE  RestInv'
<1>1. UNCHANGED <<ioVars, opn, jnl, mctx, mt, os, us, gcSt, mv, pool, erb>> /\ gcSt # "Stop"
  BY DEF GcWaitOpen, GcMoveWait, Collected, otherThanGc, openVars, jnlVars, gcVars
<1>2. IoTypes' /\ \A j \in CbKey : SameFor(j)
  BY <1>1, QuietFor DEF RestInv
<1>3. AddrInv'
  BY <1>1, AddrFrame DEF RestInv
<1>4. MigInv'
  BY <1>1, <1>2, MigFrame, KeysDiffer DEF RestInv, SameFor, SameCnt
<1>5. erb'["GC"].step # "Init" => gcSt' = "ErsDst"
  BY <1>1 DEF RestInv, ErbInv
<1>. QED
  BY <1>1, <1>2, <1>3, <1>4, <1>5, GcFrame

LEMMA MoveFields ==
  ASSUME NEW b, NEW w
  PROVE  /\ IsMv(MoveInto(b, w)) /\ IsMv(MvIdle)
         /\ MoveInto(b, w).dst = b /\ MoveInto(b, w).dwl = w /\ MoveInto(b, w).data = w
         /\ MoveInto(b, w).rd = 0 /\ MoveInto(b, w).pg = 0
<1>1. IsMv(MvIdle)
  BY DEF MvIdle, IsMv, MvFields
<1>2. IsMv(MoveInto(b, w))
  BY <1>1 DEF IsMv, MoveInto
<1>. QED
  BY <1>1, <1>2 DEF IsMv, MoveInto, MvFields, MvIdle

\* A move starts at the next address of the stream, with nothing under way.
LEMMA MoveStarts ==
  ASSUME NEW b \in UBlk, NEW w \in Nat, w <= NUM_WL, Cnts("Mig", 0, 0, 0), SameCnt("Mig"),
         mv' = MoveInto(b, w), gcSt' = "Move"
  PROVE  MigInv'
<1>1. /\ Cnt'["Mig"]["READ"] = 0 /\ Cnt'["Mig"]["PGM"] = 0 /\ Cnt'["Mig"]["ERB"] = 0
  BY KeysDiffer DEF SameCnt, Cnts
<1>2. /\ IsMv(mv') /\ mv'.dst = b /\ mv'.dwl = w /\ mv'.data = w /\ mv'.rd = 0 /\ mv'.pg = 0
  BY MoveFields
<1>. QED
  BY <1>1, <1>2 DEF MigInv, Cnts

LEMMA GcOpenKeeps ==
  ASSUME RestInv, pwr, UNCHANGED <<reqSt, step, req, waitAge, pwr>>,
         GcResume \/ GcOpened \/ GcWaitReq
  PROVE  RestInv'
<1> USE DEF otherThanGc, openVars, jnlVars, gcVars
<1>1. /\ UNCHANGED <<ioVars, opn, jnl, mctx, mt, os, us, erb>>
      /\ gcSt \in {"WaitOpen", "WaitReq"}
  BY DEF GcResume, GcOpened, GcWaitReq
<1>2. IoTypes' /\ \A j \in CbKey : SameFor(j)
  BY <1>1, QuietFor DEF RestInv
<1>3. IsSeq(pool') /\ Elems(pool') \subseteq UBlk
  <2>1. IsSeq(pool) /\ Elems(pool) \subseteq UBlk
    BY DEF RestInv, AddrInv
  <2>2. UNCHANGED pool \/ ScanFree(bst)
    BY DEF GcResume, GcOpened, GcWaitReq
  <2>. QED
    BY <2>1, <2>2, ScanFreeKeeps
<1>4. AddrInv'
  BY <1>1, <1>3 DEF RestInv, AddrInv
<1>5. Cnts("Mig", 0, 0, 0) /\ SameCnt("Mig")
  BY <1>1, <1>2, KeysDiffer DEF RestInv, MigInv, SameFor, SameCnt
<1>6. MigInv'
  <2>1. CASE GcResume
    <3>1. "GC" \in OpenType
      BY DEF OpenType
    <3>2. opn["GC"].wl \in Nat /\ opn["GC"].wl < NUM_WL /\ opn["GC"].blk \in UBlk
      BY <2>1, <3>1 DEF GcResume, RestInv, AddrInv, IsNext
    <3>3. opn["GC"].wl <= NUM_WL
      BY <3>2, SizeAssumption
    <3>4. mv' = MoveInto(opn["GC"].blk, opn["GC"].wl) /\ gcSt' = "Move"
      BY <2>1 DEF GcResume
    <3>. QED
      BY <1>5, <3>2, <3>3, <3>4, MoveStarts
  <2>2. CASE GcOpened \/ GcWaitReq
    <3>1. mv' = mv /\ gcSt' \in {"WaitReq", "GetDst"}
      BY <2>2 DEF GcOpened, GcWaitReq
    <3>2. /\ Cnt'["Mig"]["READ"] = 0 /\ Cnt'["Mig"]["PGM"] = 0 /\ Cnt'["Mig"]["ERB"] = 0
      BY <1>5, KeysDiffer DEF SameCnt, Cnts
    <3>. QED
      BY <3>1, <3>2 DEF RestInv, MigInv, Cnts
  <2>. QED
    BY <2>1, <2>2
<1>7. erb'["GC"].step = "Init"
  BY <1>1 DEF RestInv, ErbInv
<1>. QED
  BY <1>1, <1>2, <1>4, <1>6, <1>7, GcFrame

LEMMA GcEraseKeeps ==
  ASSUME RestInv, pwr, UNCHANGED <<reqSt, step, req, waitAge, pwr>>,
         mt # "Open", GcGetDst \/ GcErsDst \/ GcErsDstDone
  PROVE  RestInv'
<1> USE DEF otherThanGc, openVars
<1>1. ErbKey("GC") = "Mig" /\ "GC" \in OpenType /\ "USER" \in OpenType /\ "USER" # "GC"
  BY DEF ErbKey, OpenType
<1>2. CASE GcGetDst
  <2>1. /\ gcSt = "GetDst" /\ gcSt' = "ErsDst" /\ pool # <<>> /\ pool' = Tail(pool)
        /\ ErbStart("GC", Head(pool), {})
        /\ UNCHANGED <<die, done, jnl, opn, mctx, mt, os, us, mv>>
    BY <1>2 DEF GcGetDst, jnlVars
  <2>2. Cnts("Mig", 0, 0, 0)
    BY <2>1 DEF RestInv, MigInv
  <2>3. /\ IoTypes' /\ AddrInv' /\ Erasing("GC")'
        /\ \A j \in CbKey \ {ErbKey("GC")} : SameFor(j)
        /\ \A u \in OpenType \ {"GC"} : erb'[u] = erb[u]
    BY <1>1, <2>1, <2>2, ErbStartKeeps DEF RestInv
  <2>4. MigInv'
    BY <1>1, <2>1, <2>3 DEF RestInv, MigInv, Erasing, Cnts
  <2>. QED
    BY <1>1, <2>1, <2>3, <2>4, GcFrame
<1>3. CASE GcErsDst
  <2>1. /\ gcSt = "ErsDst" /\ gcSt' = gcSt /\ ErbGoesOn("GC")
        /\ UNCHANGED <<opn, mctx, mt, os, us, mv, pool>>
    BY <1>3 DEF GcErsDst
  <2>2. Erasing("GC")
    BY <1>1, <2>1 DEF RestInv, MigInv, Erasing
  <2>3. /\ IoTypes' /\ AddrInv' /\ Erasing("GC")'
        /\ \A j \in CbKey \ {ErbKey("GC")} : SameFor(j)
        /\ \A u \in OpenType \ {"GC"} : erb'[u] = erb[u]
    BY <1>1, <2>1, <2>2, ErbKeeps DEF RestInv
  <2>4. MigInv'
    BY <1>1, <2>1, <2>3 DEF RestInv, MigInv, Erasing, Cnts
  <2>. QED
    BY <1>1, <2>1, <2>3, <2>4, GcFrame
<1>4. CASE GcErsDstDone
  <2>1. /\ gcSt = "ErsDst" /\ gcSt' = "Move" /\ ErbOver("GC")
        /\ META_SetOpen("GC", erb["GC"].blk) /\ mv' = MoveInto(erb["GC"].blk, 0)
        /\ UNCHANGED <<ioVars, jnl, mctx, mt, os, us, pool>>
    BY <1>4 DEF GcErsDstDone, jnlVars
  <2>2. /\ AddrInv'
        /\ erb'["GC"].step = "Init" /\ erb["GC"].step = "WaitMtSave" /\ erb["GC"].blk \in UBlk
        /\ \A u \in OpenType \ {"GC"} : erb'[u] = erb[u] /\ opn'[u] = opn[u]
    BY <1>1, <2>1, OpenedKeeps DEF RestInv
  <2>3. IoTypes' /\ \A j \in CbKey : SameFor(j)
    BY <2>1, QuietFor DEF RestInv
  <2>4. Cnts("Mig", 0, 0, 0) /\ SameCnt("Mig")
    BY <2>1, <2>2, <2>3, KeysDiffer DEF RestInv, MigInv, SameFor, SameCnt
  <2>5. MigInv'
    <3>1. 0 \in Nat /\ 0 <= NUM_WL
      BY SizeAssumption
    <3>. QED
      BY <2>1, <2>2, <2>4, <3>1, MoveStarts
  <2>. QED
    BY <1>1, <2>1, <2>2, <2>3, <2>5, GcFrame
<1>. QED
  BY <1>2, <1>3, <1>4

LEMMA GcStopKeeps ==
  ASSUME RestInv, pwr, UNCHANGED <<reqSt, step, req, waitAge, pwr>>, GcStop
  PROVE  RestInv'
<1>1. /\ gcSt = "Stop" /\ done' = [done EXCEPT !["Mig"] = <<>>]
      /\ UNCHANGED <<die, nq, opn, jnl, gbRequest, mctx, mt, os, us, gcSt, mv, pool, erb>>
  BY DEF GcStop, otherThanGc, openVars, jnlVars, gcVars
<1>2. /\ IoTypes' /\ \A k \in CbKey \ {"Mig"} : SameFor(k)
      /\ \A o \in Ops : Cnt["Mig"][o] = 0 => Cnt'["Mig"][o] = 0
  BY <1>1, StopKeepsIo DEF RestInv
<1>3. AddrInv'
  BY <1>1, AddrFrame DEF RestInv
<1>4. MetaInv'
  BY <1>1, <1>2, MetaFrame, KeysDiffer DEF RestInv
<1>5. ErbInv'
  BY <1>1, <1>2, ErbFrame, KeysDiffer DEF RestInv, SameFor, SameCnt
<1>6. MigInv'
  BY <1>1, MigStops DEF RestInv
<1>7. DownInv'
  <2>1. NoneOf("Mig") => NoneOf("Mig")'
    BY <1>2 DEF NoneOf
  <2>2. SameCnt("User") /\ SameCnt("UErs")
    BY <1>2, KeysDiffer DEF SameFor, SameCnt
  <2>. QED
    BY <1>1, <2>1, <2>2, SameNone, DownFrame DEF RestInv
<1>. QED
  BY <1>2, <1>3, <1>4, <1>5, <1>6, <1>7 DEF RestInv

-----------------------------------------------------------------------------
(* A move: its counters follow the commands.                               *)

MoveAcc ==
  /\ mv.dst \in UBlk /\ mv.dwl \in Nat /\ mv.data = mv.dwl + mv.rd /\ mv.data <= NUM_WL
  /\ Cnts("Mig", mv.rd, mv.pg, 0) /\ mv.rd \in Nat /\ mv.pg \in Nat

LEMMA MoveFacts ==
  ASSUME RestInv, gcSt = "Move"
  PROVE  MoveAcc /\ IsMv(mv)
<1>1. Cnt["Mig"]["READ"] \in Nat /\ Cnt["Mig"]["PGM"] \in Nat
  BY CntIs, KeysDiffer DEF RestInv
<1>. QED
  BY <1>1 DEF RestInv, MigInv, MoveAcc, Cnts

LEMMA MoveGoesOn ==
  ASSUME gcSt' = "Move", IsMv(mv)', MoveAcc'
  PROVE  MigInv'
  BY DEF MigInv, MoveAcc

LEMMA GcPgmDoneKeeps ==
  ASSUME RestInv, pwr, UNCHANGED <<reqSt, step, req, waitAge, pwr>>, GcPgmDone
  PROVE  RestInv'
<1> USE DEF otherThanGc, openVars, jnlVars
<1>1. /\ gcSt = "Move" /\ HasDone("Mig") /\ DoneHead("Mig").op = "PGM" /\ PopDone("Mig")
      /\ mv' = [mv EXCEPT !.pg = @ - 1]
      /\ UNCHANGED <<die, nq, opn, jnl, mctx, mt, os, us, gcSt, pool, erb>>
  BY DEF GcPgmDone, Moving
<1>2. MoveAcc /\ IsMv(mv)
  BY <1>1, MoveFacts
<1>3. /\ IsMv(mv') /\ mv'.dst = mv.dst /\ mv'.dwl = mv.dwl /\ mv'.rd = mv.rd
      /\ mv'.pg = mv.pg - 1 /\ mv'.data = mv.data
  BY <1>1, <1>2 DEF IsMv, MvFields
<1>4. /\ IoTypes' /\ \A j \in CbKey \ {"Mig"} : SameFor(j)
      /\ \A o \in Ops : Cnt'["Mig"][o] = Cnt["Mig"][o]
                                           - (IF DoneHead("Mig").op = o THEN 1 ELSE 0)
  BY <1>1, PopFor, KeysDiffer DEF RestInv
<1>5. mv.pg > 0
  <2>1. Cnt["Mig"]["PGM"] > 0
    BY <1>1, HeadUnder, KeysDiffer DEF RestInv
  <2>. QED
    BY <1>2, <2>1 DEF MoveAcc, Cnts
<1>6. /\ Cnt'["Mig"]["READ"] = mv.rd /\ Cnt'["Mig"]["PGM"] = mv.pg - 1
      /\ Cnt'["Mig"]["ERB"] = 0
  BY <1>1, <1>2, <1>4, KeysDiffer DEF MoveAcc, Cnts
<1>7. MoveAcc'
  BY <1>2, <1>3, <1>5, <1>6 DEF MoveAcc, Cnts
<1>8. MigInv'
  BY <1>1, <1>3, <1>7, MoveGoesOn
<1>9. AddrInv'
  BY <1>1, AddrFrame DEF RestInv
<1>10. erb'["GC"].step # "Init" => gcSt' = "ErsDst"
  BY <1>1 DEF RestInv, ErbInv
<1>. QED
  BY <1>1, <1>4, <1>8, <1>9, <1>10, GcFrame

LEMMA GcReadMovedKeeps ==
  ASSUME RestInv, pwr, UNCHANGED <<reqSt, step, req, waitAge, pwr>>, GcReadMoved
  PROVE  RestInv'
<1> USE DEF openVars
<1> DEFINE pg == DoneHead("Mig").pg
           c  == PgmCmd("Mig", mv.dst, mv.dwl, pg)
<1>1. /\ gcSt = "Move" /\ HasDone("Mig") /\ DoneHead("Mig").op = "READ" /\ PopDone("Mig")
      /\ mv.dwl < NUM_WL
      /\ MetaUpdate(pg.lpn, VAddr(mv.dst, mv.dwl), "GC") /\ Issue(<<c>>)
      /\ mv' = [mv EXCEPT !.dwl = @ + 1, !.pg = @ + 1, !.rd = @ - 1]
      /\ UNCHANGED <<die, opn, mctx, mt, os, us, gcSt, pool, erb>>
  BY DEF GcReadMoved, Moving, StillValid
<1>2. MoveAcc /\ IsMv(mv)
  BY <1>1, MoveFacts
<1>3. /\ IsMv(mv') /\ mv'.dst = mv.dst /\ mv'.dwl = mv.dwl + 1 /\ mv'.rd = mv.rd - 1
      /\ mv'.pg = mv.pg + 1 /\ mv'.data = mv.data
  <2>1. IsMv(mv')
    BY <1>1, <1>2 DEF IsMv
  <2>. QED
    BY <1>1, <1>2, <2>1 DEF IsMv, MvFields
<1>4. GoodCmd(c) /\ c.cb = "Mig" /\ c.op = "PGM"
  BY <1>2, UserPgm, KeysDiffer DEF MoveAcc
<1> HIDE DEF c
<1>5. /\ IoTypes' /\ \A j \in CbKey \ {"Mig"} : SameFor(j)
      /\ \A o \in Ops : Cnt'["Mig"][o] = Cnt["Mig"][o] + (IF c.op = o THEN 1 ELSE 0)
                                           - (IF DoneHead("Mig").op = o THEN 1 ELSE 0)
  BY <1>1, <1>4, PopIssueFor, KeysDiffer DEF RestInv
<1>6. mv.rd > 0
  <2>1. Cnt["Mig"]["READ"] > 0
    BY <1>1, HeadUnder, KeysDiffer DEF RestInv
  <2>. QED
    BY <1>2, <2>1 DEF MoveAcc, Cnts
<1>7. /\ Cnt'["Mig"]["READ"] = mv.rd - 1 /\ Cnt'["Mig"]["PGM"] = mv.pg + 1
      /\ Cnt'["Mig"]["ERB"] = 0
  BY <1>1, <1>2, <1>4, <1>5, KeysDiffer DEF MoveAcc, Cnts
<1>8. MoveAcc'
  BY <1>2, <1>3, <1>6, <1>7 DEF MoveAcc, Cnts
<1>9. MigInv'
  BY <1>1, <1>3, <1>8, MoveGoesOn
<1>10. AddrInv'
  <2>1. VAddr(mv.dst, mv.dwl).blk \in UBlk /\ VAddr(mv.dst, mv.dwl).wl \in Nat
    BY <1>2 DEF MoveAcc, VAddr
  <2>2. GoodEnts(jnl'.ent)
    BY <1>1, <2>1, UpdateKeepsEnts DEF RestInv, AddrInv
  <2>. QED
    BY <1>1, <2>2 DEF RestInv, AddrInv
<1>11. erb'["GC"].step # "Init" => gcSt' = "ErsDst"
  BY <1>1 DEF RestInv, ErbInv
<1>. QED
  BY <1>1, <1>5, <1>9, <1>10, <1>11, GcFrame

LEMMA GcReadDroppedKeeps ==
  ASSUME RestInv, pwr, UNCHANGED <<reqSt, step, req, waitAge, pwr>>, GcReadDropped
  PROVE  RestInv'
<1> USE DEF otherThanGc, openVars, jnlVars
<1>1. /\ gcSt = "Move" /\ HasDone("Mig") /\ DoneHead("Mig").op = "READ" /\ PopDone("Mig")
      /\ mv' = [mv EXCEPT !.data = @ - 1, !.rd = @ - 1]
      /\ UNCHANGED <<die, nq, opn, jnl, mctx, mt, os, us, gcSt, pool, erb>>
  BY DEF GcReadDropped, Moving
<1>2. MoveAcc /\ IsMv(mv)
  BY <1>1, MoveFacts
<1>3. /\ IsMv(mv') /\ mv'.dst = mv.dst /\ mv'.dwl = mv.dwl /\ mv'.rd = mv.rd - 1
      /\ mv'.pg = mv.pg /\ mv'.data = mv.data - 1
  <2>1. IsMv(mv')
    BY <1>1, <1>2 DEF IsMv
  <2>. QED
    BY <1>1, <1>2, <2>1 DEF IsMv, MvFields
<1>4. /\ IoTypes' /\ \A j \in CbKey \ {"Mig"} : SameFor(j)
      /\ \A o \in Ops : Cnt'["Mig"][o] = Cnt["Mig"][o]
                                           - (IF DoneHead("Mig").op = o THEN 1 ELSE 0)
  BY <1>1, PopFor, KeysDiffer DEF RestInv
<1>5. mv.rd > 0
  <2>1. Cnt["Mig"]["READ"] > 0
    BY <1>1, HeadUnder, KeysDiffer DEF RestInv
  <2>. QED
    BY <1>2, <2>1 DEF MoveAcc, Cnts
<1>6. /\ Cnt'["Mig"]["READ"] = mv.rd - 1 /\ Cnt'["Mig"]["PGM"] = mv.pg
      /\ Cnt'["Mig"]["ERB"] = 0
  BY <1>1, <1>2, <1>4, KeysDiffer DEF MoveAcc, Cnts
<1>7. MoveAcc'
  BY <1>2, <1>3, <1>5, <1>6, SizeAssumption DEF MoveAcc, Cnts
<1>8. MigInv'
  BY <1>1, <1>3, <1>7, MoveGoesOn
<1>9. AddrInv'
  BY <1>1, AddrFrame DEF RestInv
<1>10. erb'["GC"].step # "Init" => gcSt' = "ErsDst"
  BY <1>1 DEF RestInv, ErbInv
<1>. QED
  BY <1>1, <1>4, <1>8, <1>9, <1>10, GcFrame

LEMMA GcReadNextKeeps ==
  ASSUME RestInv, pwr, UNCHANGED <<reqSt, step, req, waitAge, pwr>>, GcReadNext
  PROVE  RestInv'
<1> USE DEF otherThanGc, openVars, jnlVars
<1> DEFINE c == ReadCmd("Mig", mv.src, mv.swl)
<1>1. /\ gcSt = "Move" /\ mv.data < NUM_WL /\ Issue(<<c>>)
      /\ mv' = [mv EXCEPT !.swl = @ + 1, !.rd = @ + 1, !.data = @ + 1]
      /\ UNCHANGED <<die, done, opn, jnl, mctx, mt, os, us, gcSt, pool, erb>>
  BY DEF GcReadNext, Collected, WantsRead
<1>2. MoveAcc /\ IsMv(mv)
  BY <1>1, MoveFacts
<1>3. /\ IsMv(mv') /\ mv'.dst = mv.dst /\ mv'.dwl = mv.dwl /\ mv'.rd = mv.rd + 1
      /\ mv'.pg = mv.pg /\ mv'.data = mv.data + 1
  <2>1. IsMv(mv')
    BY <1>1, <1>2 DEF IsMv
  <2>. QED
    BY <1>1, <1>2, <2>1 DEF IsMv, MvFields
<1>4. GoodCmd(c) /\ c.cb = "Mig" /\ c.op = "READ"
  BY PlainCmds, KeysDiffer
<1> HIDE DEF c
<1>5. /\ IoTypes' /\ \A j \in CbKey \ {"Mig"} : SameFor(j)
      /\ \A o \in Ops : Cnt'["Mig"][o] = Cnt["Mig"][o] + (IF c.op = o THEN 1 ELSE 0)
  BY <1>1, <1>4, IssueFor, KeysDiffer DEF RestInv
<1>6. /\ Cnt'["Mig"]["READ"] = mv.rd + 1 /\ Cnt'["Mig"]["PGM"] = mv.pg
      /\ Cnt'["Mig"]["ERB"] = 0
  BY <1>2, <1>4, <1>5, KeysDiffer DEF MoveAcc, Cnts
<1>7. MoveAcc'
  BY <1>1, <1>2, <1>3, <1>6, SizeAssumption DEF MoveAcc, Cnts
<1>8. MigInv'
  BY <1>1, <1>3, <1>7, MoveGoesOn
<1>9. AddrInv'
  BY <1>1, AddrFrame DEF RestInv
<1>10. erb'["GC"].step # "Init" => gcSt' = "ErsDst"
  BY <1>1 DEF RestInv, ErbInv
<1>. QED
  BY <1>1, <1>5, <1>8, <1>9, <1>10, GcFrame

\* The ends of a victim and of a destination, and the start of a victim.
LEMMA GcBlkKeeps ==
  ASSUME RestInv, pwr, UNCHANGED <<reqSt, step, req, waitAge, pwr>>,
         GcDstFull \/ GcNewSrc \/ GcSrcDone
  PROVE  RestInv'
<1> USE DEF otherThanGc, openVars, jnlVars
<1>1. gcSt = "Move" /\ UNCHANGED <<ioVars, opn, jnl, mctx, mt, os, us, erb>>
  BY DEF GcDstFull, GcNewSrc, GcSrcDone, Collected
<1>2. MoveAcc /\ IsMv(mv)
  BY <1>1, MoveFacts
<1>3. IoTypes' /\ Cnt' = Cnt /\ \A j \in CbKey : SameFor(j)
  BY <1>1, SameIo, QuietFor DEF RestInv
<1>4. IsSeq(pool') /\ Elems(pool') \subseteq UBlk
  <2>1. IsSeq(pool) /\ Elems(pool) \subseteq UBlk
    BY DEF RestInv, AddrInv
  <2>2. UNCHANGED pool \/ \E bs : ScanFree(bs)
    BY DEF GcDstFull, GcNewSrc, GcSrcDone
  <2>. QED
    BY <2>1, <2>2, ScanFreeKeeps
<1>5. AddrInv'
  BY <1>1, <1>4 DEF RestInv, AddrInv
<1>6. MigInv'
  <2>1. CASE GcDstFull
    <3>1. mv' = MvIdle /\ gcSt' = "WaitReq" /\ mv.dwl = NUM_WL /\ mv.pg = 0
      BY <2>1 DEF GcDstFull, DstFull
    <3>2. mv.rd = 0
      BY <1>2, <3>1, SizeAssumption DEF MoveAcc
    <3>3. IsMv(mv')
      BY <3>1, MoveFields
    <3>. QED
      BY <1>2, <1>3, <3>1, <3>2, <3>3 DEF MigInv, MoveAcc, Cnts
  <2>2. CASE GcNewSrc \/ GcSrcDone
    <3>1. \/ \E b : mv' = [mv EXCEPT !.src = b, !.swl = 0]
          \/ mv' = [mv EXCEPT !.src = NoBlk]
      BY <2>2 DEF GcNewSrc, GcSrcDone
    <3>2. IsMv(mv')
      BY <1>2, <3>1 DEF IsMv
    <3>3. /\ mv'.dst = mv.dst /\ mv'.dwl = mv.dwl /\ mv'.rd = mv.rd
          /\ mv'.pg = mv.pg /\ mv'.data = mv.data
      BY <1>2, <3>1 DEF IsMv, MvFields
    <3>4. gcSt' = "Move"
      BY <1>1, <2>2 DEF GcNewSrc, GcSrcDone
    <3>5. MoveAcc'
      BY <1>2, <1>3, <3>3 DEF MoveAcc, Cnts
    <3>. QED
      BY <3>2, <3>4, <3>5, MoveGoesOn
  <2>. QED
    BY <2>1, <2>2 
<1>7. erb'["GC"].step = "Init"
  BY <1>1 DEF RestInv, ErbInv
<1>. QED
  BY <1>1, <1>3, <1>5, <1>6, <1>7, GcFrame

LEMMA GcKeeps ==
  ASSUME MapInv, RestInv, pwr, GC_Run, UNCHANGED <<reqSt, step, req, waitAge, pwr>>
  PROVE  RestInv'
<1>1. gcSt # "WaitOpen" => mt # "Open"
  BY DEF MapInv, Opening
<1>2. CASE GcWaitOpen \/ GcMoveWait
  BY <1>2, GcWaitKeeps
<1>3. CASE GcResume \/ GcOpened \/ GcWaitReq
  BY <1>3, GcOpenKeeps
<1>4. CASE GcGetDst \/ GcErsDst \/ GcErsDstDone
  <2>1. mt # "Open"
    BY <1>1, <1>4 DEF GcGetDst, GcErsDst, GcErsDstDone
  <2>. QED
    BY <1>4, <2>1, GcEraseKeeps
<1>5. CASE GcStop
  BY <1>5, GcStopKeeps
<1>6. CASE GcPgmDone
  BY <1>6, GcPgmDoneKeeps
<1>7. CASE GcReadMoved
  BY <1>7, GcReadMovedKeeps
<1>8. CASE GcReadDropped
  BY <1>8, GcReadDroppedKeeps
<1>9. CASE GcReadNext
  BY <1>9, GcReadNextKeeps
<1>10. CASE GcDstFull \/ GcNewSrc \/ GcSrcDone
  BY <1>10, GcBlkKeeps
<1>. QED
  BY <1>2, <1>3, <1>4, <1>5, <1>6, <1>7, <1>8, <1>9, <1>10 DEF GC_Run, GcMove

-----------------------------------------------------------------------------
(* The META task.                                                          *)

\* How far the save is that ends a safe shutdown.
SaveGoesOn ==
  \/ gbRequest /\ mt = "Ready" /\ mctx.age = waitAge
  \/ ~gbRequest /\ mt \in {"SaveErase", "SaveProgram"} /\ mctx.age = waitAge
  \/ ~gbRequest /\ mt = "Ready" /\ mctx.age = waitAge + 1

MetaOnly == UNCHANGED <<gcVars, reqVars, hostVars>>

\* A step of META leaves the other parts alone.
LEMMA MetaOnlyFrame ==
  ASSUME RestInv, pwr, MetaOnly, IoTypes', \A j \in CbKey \ {"Meta"} : SameFor(j),
         opn'["USER"] = opn["USER"] \/ erb["USER"].step = "Init",
         AddrInv', MetaInv', Downing => SaveGoesOn'
  PROVE  RestInv'
<1> USE DEF MetaOnly, gcVars, reqVars, hostVars
<1>1. /\ SameCnt("User") /\ SameCnt("Mig") /\ SameCnt("UErs")
  BY KeysDiffer DEF SameFor, SameCnt
<1>2. MigInv'
  BY <1>1, MigFrame DEF RestInv
<1>3. ErbInv'
  <2>1. CASE opn'["USER"] = opn["USER"]
    BY <1>1, <2>1, ErbFrame DEF RestInv
  <2>2. CASE erb["USER"].step = "Init"
    <3>1. /\ Cnt'["UErs"]["READ"] = Cnt["UErs"]["READ"] /\ Cnt'["UErs"]["PGM"] = Cnt["UErs"]["PGM"]
          /\ Cnt'["UErs"]["ERB"] = Cnt["UErs"]["ERB"]
      BY <1>1 DEF SameCnt, Ops
    <3> HIDE DEF Cnt
    <3>. QED
      BY <2>2, <3>1 DEF ErbInv, RestInv, Cnts
  <2>. QED
    BY <2>1, <2>2
<1>4. DownInv'
  <2>1. /\ NoneOf("User") => NoneOf("User")'
        /\ NoneOf("Mig") => NoneOf("Mig")'
        /\ NoneOf("UErs") => NoneOf("UErs")'
    BY <1>1, SameNone
  <2> HIDE DEF NoneOf
  <2>. QED
    BY <2>1 DEF RestInv, DownInv, Downing, SaveGoesOn
<1>. QED
  BY <1>2, <1>3, <1>4 DEF RestInv

\* While META opens, nobody erases and nobody shuts down.
LEMMA OpeningRests ==
  ASSUME MapInv, RestInv, Opening
  PROVE  /\ erb["USER"].step = "Init" /\ erb["GC"].step = "Init" /\ ~Downing
         /\ reqSt = "WaitOpen" /\ gcSt = "WaitOpen"
  BY DEF MapInv, RestInv, ErbInv, Downing

-----------------------------------------------------------------------------
(* Saving.                                                                 *)

LEMMA SavedPageGood ==
  ASSUME AddrInv
  PROVE  GoodCmd(MetaPgm) /\ MetaPgm.cb = "Meta" /\ MetaPgm.op = "PGM"
<1>1. MetaPg(SavedPage)
  BY DEF AddrInv, IsCtx, MetaPg, SavedPage
<1>2. NoReq.cmd # "shutdown"
  BY DEF NoReq
<1> HIDE DEF SavedPage
<1>. QED
  BY <1>1, <1>2, KeysDiffer DEF GoodCmd, MetaPgm, PgmCmd, Cmd

LEMMA NotOpenParts ==
  ASSUME mt # "Open", SaveInv
  PROVE  MetaInv
  BY DEF MetaInv, ReadInv, ScanInv, Reading, Phase

LEMMA MetaIdleKeeps ==
  ASSUME RestInv, pwr, MetaOnly, UNCHANGED openVars, MetaIdle \/ MetaSaveWait
  PROVE  RestInv'
<1> USE DEF mapVars, jnlVars, openVars
<1>1. UNCHANGED <<ioVars, jnl, gbRequest, opn, mctx, mt, os, us>>
  BY DEF MetaIdle, MetaSaveWait
<1>2. IoTypes' /\ \A j \in CbKey : SameFor(j)
  BY <1>1, QuietFor DEF RestInv
<1>3. AddrInv'
  BY <1>1, AddrFrame DEF RestInv, MetaOnly, gcVars, reqVars
<1>4. MetaInv'
  BY <1>1, <1>2, KeysDiffer, MetaFrame DEF RestInv
<1>5. Downing => SaveGoesOn'
  BY <1>1 DEF RestInv, DownInv, SaveGoesOn, MetaOnly, reqVars
<1>. QED
  BY <1>1, <1>2, <1>3, <1>4, <1>5, MetaOnlyFrame

LEMMA MetaSaveStartKeeps ==
  ASSUME RestInv, pwr, MetaOnly, UNCHANGED openVars, MetaSaveStart
  PROVE  RestInv'
<1> USE DEF mapVars, openVars
<1>1. /\ mt = "Ready" /\ gbRequest /\ ~gbRequest'
      /\ UNCHANGED <<die, done, opn, jnl, mctx, os, us>>
  BY DEF MetaSaveStart
<1>2. PICK c \in {MetaErase, MetaPgm} :
         /\ \/ c = MetaErase /\ mt' = "SaveErase"
            \/ c = MetaPgm /\ mt' = "SaveProgram"
         /\ Issue(<<c>>)
  BY DEF MetaSaveStart
<1>3. /\ GoodCmd(c) /\ c.cb = "Meta"
      /\ c = MetaErase => c.op = "ERB"
      /\ c = MetaPgm => c.op = "PGM"
  <2>1. GoodCmd(MetaErase) /\ MetaErase.cb = "Meta" /\ MetaErase.op = "ERB"
    BY PlainCmds, KeysDiffer DEF MetaErase
  <2>2. GoodCmd(MetaPgm) /\ MetaPgm.cb = "Meta" /\ MetaPgm.op = "PGM"
    BY SavedPageGood DEF RestInv
  <2>. QED
    BY <1>2, <2>1, <2>2
<1>4. /\ IoTypes' /\ \A j \in CbKey \ {"Meta"} : SameFor(j)
      /\ \A o \in Ops : Cnt'["Meta"][o] = Cnt["Meta"][o] + (IF c.op = o THEN 1 ELSE 0)
  BY <1>1, <1>2, <1>3, IssueFor DEF RestInv
<1>5. SaveInv'
  <2>1. Cnts("Meta", 0, 0, 0)
    BY <1>1 DEF RestInv, MetaInv, SaveInv
  <2>2. (c.op = "ERB" /\ mt' = "SaveErase") \/ (c.op = "PGM" /\ mt' = "SaveProgram")
    BY <1>2, <1>3
  <2>3. /\ c.op = "ERB" => Cnts("Meta", 0, 0, 1)'
        /\ c.op = "PGM" => Cnts("Meta", 0, 1, 0)'
    BY <1>4, <2>1, KeysDiffer DEF Cnts
  <2>. QED
    BY <2>2, <2>3 DEF SaveInv
<1>6. mt' \in {"SaveErase", "SaveProgram"}
  BY <1>2
<1>7. MetaInv'
  BY <1>5, <1>6, NotOpenParts DEF MetaInv, ReadInv, ScanInv, Reading, Phase
<1>8. AddrInv'
  BY <1>1, AddrFrame DEF RestInv, MetaOnly, gcVars, reqVars
<1>9. Downing => SaveGoesOn'
  BY <1>1, <1>6 DEF RestInv, DownInv, SaveGoesOn, MetaOnly, reqVars
<1>. QED
  BY <1>1, <1>4, <1>7, <1>8, <1>9, MetaOnlyFrame

LEMMA MetaSaveErasedKeeps ==
  ASSUME RestInv, pwr, MetaOnly, UNCHANGED openVars, MetaSaveErased
  PROVE  RestInv'
<1> USE DEF mapVars, jnlVars, openVars
<1>1. /\ mt = "SaveErase" /\ mt' = "SaveProgram" /\ HasDone("Meta") /\ PopDone("Meta")
      /\ Issue(<<MetaPgm>>)
      /\ UNCHANGED <<die, opn, jnl, gbRequest, mctx, os, us>>
  BY DEF MetaSaveErased
<1>2. GoodCmd(MetaPgm) /\ MetaPgm.cb = "Meta" /\ MetaPgm.op = "PGM" /\ "Meta" \in CbKey
  BY SavedPageGood, KeysDiffer DEF RestInv
<1>3. /\ IoTypes' /\ \A j \in CbKey \ {"Meta"} : SameFor(j)
      /\ \A o \in Ops : Cnt'["Meta"][o] = Cnt["Meta"][o] + (IF MetaPgm.op = o THEN 1 ELSE 0)
                                            - (IF DoneHead("Meta").op = o THEN 1 ELSE 0)
  BY <1>1, <1>2, PopIssueFor DEF RestInv
<1>4. SaveInv'
  <2>1. Cnts("Meta", 0, 0, 1)
    BY <1>1 DEF RestInv, MetaInv, SaveInv
  <2>2. DoneHead("Meta").op \in Ops /\ Cnt["Meta"][DoneHead("Meta").op] > 0
    BY <1>1, <1>2, HeadUnder DEF RestInv
  <2>3. DoneHead("Meta").op = "ERB"
    BY <2>1, <2>2, KeysDiffer DEF Cnts
  <2>4. Cnts("Meta", 0, 1, 0)'
    BY <1>2, <1>3, <2>1, <2>3, KeysDiffer DEF Cnts
  <2>. QED
    BY <1>1, <2>4 DEF SaveInv
<1>5. MetaInv'
  BY <1>1, <1>4, NotOpenParts DEF MetaInv, ReadInv, ScanInv, Reading, Phase
<1>6. AddrInv'
  BY <1>1, AddrFrame DEF RestInv, MetaOnly, gcVars, reqVars
<1>7. Downing => SaveGoesOn'
  BY <1>1 DEF RestInv, DownInv, SaveGoesOn, MetaOnly, reqVars
<1>. QED
  BY <1>1, <1>3, <1>5, <1>6, <1>7, MetaOnlyFrame

LEMMA MetaSaveDoneKeeps ==
  ASSUME RestInv, pwr, MetaOnly, UNCHANGED openVars, MetaSaveDone
  PROVE  RestInv'
<1> USE DEF mapVars, openVars
<1>1. /\ mt = "SaveProgram" /\ mt' = "Ready" /\ HasDone("Meta") /\ PopDone("Meta")
      /\ mctx' = NextSave /\ jnl' = EmptyJnl
      /\ UNCHANGED <<die, nq, opn, gbRequest, os, us>>
  BY DEF MetaSaveDone
<1>2. /\ IoTypes' /\ \A j \in CbKey \ {"Meta"} : SameFor(j)
      /\ \A o \in Ops : Cnt'["Meta"][o] = Cnt["Meta"][o]
                                            - (IF DoneHead("Meta").op = o THEN 1 ELSE 0)
  BY <1>1, PopFor, KeysDiffer DEF RestInv
<1>3. SaveInv'
  <2>1. Cnts("Meta", 0, 1, 0)
    BY <1>1 DEF RestInv, MetaInv, SaveInv
  <2>2. DoneHead("Meta").op \in Ops /\ Cnt["Meta"][DoneHead("Meta").op] > 0
    BY <1>1, HeadUnder, KeysDiffer DEF RestInv
  <2>3. DoneHead("Meta").op = "PGM"
    BY <2>1, <2>2, KeysDiffer DEF Cnts
  <2>4. Cnts("Meta", 0, 0, 0)'
    BY <1>2, <2>1, <2>3, KeysDiffer DEF Cnts
  <2>. QED
    BY <1>1, <2>4 DEF SaveInv
<1>4. MetaInv'
  BY <1>1, <1>3, NotOpenParts DEF MetaInv, ReadInv, ScanInv, Reading, Phase
<1>5. IsCtx(mctx') /\ mctx'.age = mctx.age + 1
  BY <1>1 DEF RestInv, AddrInv, IsCtx, NextSave
<1>6. AddrInv'
  <2>1. GoodEnts(jnl'.ent)
    BY <1>1, NoEnts DEF EmptyJnl
  <2>. QED
    BY <1>1, <1>5, <2>1 DEF RestInv, AddrInv, MetaOnly, gcVars, reqVars
<1>7. Downing => SaveGoesOn'
  BY <1>1, <1>5 DEF RestInv, DownInv, SaveGoesOn, MetaOnly, reqVars
<1>. QED
  BY <1>1, <1>2, <1>4, <1>6, <1>7, MetaOnlyFrame

LEMMA SaveKeeps ==
  ASSUME RestInv, pwr, MetaOnly, UNCHANGED openVars, MetaSave
  PROVE  RestInv'
  BY MetaIdleKeeps, MetaSaveStartKeeps, MetaSaveErasedKeeps, MetaSaveDoneKeeps DEF MetaSave

-----------------------------------------------------------------------------
(* Opening: what the phases have in common.                                *)

LEMMA OpenFrame ==
  ASSUME MapInv, RestInv, pwr, MetaOnly, Opening,
         IoTypes', \A j \in CbKey \ {"Meta"} : SameFor(j), AddrInv', MetaInv'
  PROVE  RestInv'
  BY OpeningRests, MetaOnlyFrame

LEMMA NoUnder ==
  ASSUME IoTypes, NEW k \in CbKey, Cnts(k, 0, 0, 0)
  PROVE  Under[k] = {}
<1>1. \A o \in Ops : Cnt[k][o] = 0
  BY KeysDiffer DEF Cnts
<1>2. \A c \in Under[k] : c.op \in Ops
  BY DEF Under, IoTypes, GoodCmds, GoodCmd
<1>. QED
  BY <1>1, <1>2, CntZero

\* What the counts are after the step.
CntsNext(k, r, p, e) == Cnt'[k]["READ"] = r /\ Cnt'[k]["PGM"] = p /\ Cnt'[k]["ERB"] = e

\* A run of n reads.
IsReads(t, n) ==
  /\ t = [i \in 1 .. n |-> t[i]]
  /\ \A i \in 1 .. n : t[i] = ReadCmd("Meta", t[i].blk, t[i].wl)

LEMMA ReadsIssued ==
  ASSUME IoTypes, NEW n \in Nat, NEW t, IsReads(t, n), Issue(t), UNCHANGED <<die, done>>,
         NEW r \in Nat, Cnts("Meta", r, 0, 0)
  PROVE  /\ IoTypes' /\ \A j \in CbKey \ {"Meta"} : SameFor(j)
         /\ CntsNext("Meta", r + n, 0, 0)
         /\ \A c \in Under'["Meta"] : c \in Under["Meta"] \/ \E i \in 1 .. n : c = t[i]
<1>1. IsSeq(t) /\ Elems(t) = {t[i] : i \in 1 .. n} /\ Len(t) = n
  <2>1. t \in [1 .. n -> Elems(t)]
    BY DEF IsReads, Elems
  <2>2. DOMAIN t = 1 .. n
    BY DEF IsReads
  <2>3. t \in Seq(Elems(t))
    BY <2>1
  <2>. QED
    BY <2>1, <2>2, <2>3 DEF IsSeq, Elems
<1>2. \A i \in 1 .. n : GoodCmd(t[i]) /\ t[i].cb = "Meta" /\ t[i].op = "READ"
  BY PlainCmds, KeysDiffer DEF IsReads
<1>3. GoodCmds(t) /\ \A c \in Elems(t) : c.cb = "Meta" /\ c.op = "READ"
  BY <1>1, <1>2 DEF GoodCmds
<1>4. /\ IoTypes'
      /\ \A k \in CbKey, o \in Ops :
           Cnt'[k][o] = Cnt[k][o] + (IF k = "Meta" /\ o = "READ" THEN Len(t) ELSE 0)
      /\ Under'["Meta"] \subseteq Under["Meta"] \cup Elems(t)
      /\ \A k \in CbKey \ {"Meta"} : Under'[k] \subseteq Under[k]
  BY <1>3, IssueReads
<1>5. \A k \in CbKey, o \in Ops : Cnt[k][o] \in Nat
  BY CntIs
<1>6. \A j \in CbKey \ {"Meta"} : SameFor(j)
  <2> TAKE j \in CbKey \ {"Meta"}
  <2>1. \A o \in Ops : Cnt'[j][o] = Cnt[j][o]
    BY <1>4, <1>5
  <2>. QED
    BY <1>4, <2>1 DEF SameFor
<1>7. CntsNext("Meta", r + n, 0, 0)
  BY <1>1, <1>4, KeysDiffer DEF Cnts, CntsNext
<1>. QED
  BY <1>1, <1>4, <1>6, <1>7

\* Such a run, given by the addresses it reads.
LEMMA ReadsOf ==
  ASSUME NEW n, NEW a, NEW t, t = [i \in 1 .. n |-> ReadCmd("Meta", a[i].blk, a[i].wl)],
         \A i \in 1 .. n : a[i].blk \in MBlk /\ a[i].wl \in WL
  PROVE  IsReads(t, n) /\ \A i \in 1 .. n : t[i].blk \in MBlk /\ t[i].wl \in WL
<1>1. \A i \in 1 .. n : t[i].blk = a[i].blk /\ t[i].wl = a[i].wl
  BY DEF ReadCmd, Cmd
<1>. QED
  BY <1>1 DEF IsReads

\* One of r reads collected.
LEMMA ReadPopped ==
  ASSUME IoTypes, NEW r \in Nat, Cnts("Meta", r, 0, 0),
         HasDone("Meta"), PopDone("Meta"), UNCHANGED <<die, nq>>
  PROVE  /\ IoTypes' /\ \A j \in CbKey \ {"Meta"} : SameFor(j)
         /\ r > 0 /\ CntsNext("Meta", r - 1, 0, 0)
         /\ Under'["Meta"] \subseteq Under["Meta"]
         /\ DoneHead("Meta") \in Under["Meta"] /\ GoodCmd(DoneHead("Meta"))
<1>1. /\ DoneHead("Meta") \in Under["Meta"] /\ GoodCmd(DoneHead("Meta"))
      /\ DoneHead("Meta").op \in Ops
      /\ Cnt["Meta"][DoneHead("Meta").op] > 0
  BY HeadUnder, KeysDiffer
<1>2. DoneHead("Meta").op = "READ" /\ r > 0
  BY <1>1, KeysDiffer DEF Cnts
<1>3. /\ IoTypes' /\ \A j \in CbKey \ {"Meta"} : SameFor(j)
      /\ Under'["Meta"] \subseteq Under["Meta"]
      /\ \A o \in Ops : Cnt'["Meta"][o] = Cnt["Meta"][o]
                                            - (IF DoneHead("Meta").op = o THEN 1 ELSE 0)
  BY PopFor, KeysDiffer
<1>4. CntsNext("Meta", r - 1, 0, 0)
  BY <1>2, <1>3, KeysDiffer DEF Cnts, CntsNext
<1>. QED
  BY <1>1, <1>2, <1>3, <1>4

ReadSteps == {"BlkScan", "PageScan", "MtLoad"}

LEMMA ReadStateIs ==
  ASSUME mt' = "Open", os'.step \in ReadSteps, ReadState'
  PROVE  MetaInv'
  BY DEF MetaInv, ReadInv, ScanInv, SaveInv, Reading, Phase, ReadSteps

\* The block offsets of the meta ring and their pages.
LEMMA MetaAddr ==
  ASSUME NEW b \in MOff, NEW w \in WL
  PROVE  PageOf(b, w).blk \in MBlk /\ PageOf(b, w).wl \in WL
  BY SizeAssumption DEF PageOf, MtBlk2PBN, VAddr, MOff, MBlk

LEMMA FirstAddr ==
  ASSUME NEW b \in MOff
  PROVE  FirstPageOf(b).blk \in MBlk /\ FirstPageOf(b).wl \in WL
  BY SizeAssumption DEF FirstPageOf, MtBlk2PBN, VAddr, MOff, MBlk, WL

LEMMA ModBound == ASSUME NEW i \in Int, NEW n \in Nat \ {0} PROVE i % n \in 0 .. n - 1
  OBVIOUS

LEMMA RingMod ==
  ASSUME NEW i \in Int
  PROVE  i % NUM_META_BLK \in MOff /\ i % NUM_WL \in WL
<1>1. NUM_META_BLK \in Nat \ {0} /\ NUM_WL \in Nat \ {0}
  BY SizeAssumption
<1>2. i % NUM_META_BLK \in MOff
  BY <1>1, ModBound DEF MOff
<1>3. i % NUM_WL \in WL
  BY <1>1, ModBound DEF WL
<1>. QED
  BY <1>2, <1>3

LEMMA LoadAddr ==
  ASSUME NEW b \in MOff, NEW c \in 0 .. NUM_WL, NEW i \in Nat
  PROVE  LoadPage(b, c, i).blk \in MBlk /\ LoadPage(b, c, i).wl \in WL
<1>0. b + 1 \in Int /\ c + i \in Int
  BY SizeAssumption DEF MOff
<1>1. (b + 1) % NUM_META_BLK \in MOff /\ (c + i) % NUM_WL \in WL
  BY <1>0, RingMod
<1>2. CASE c + i < NUM_WL
  <2>1. c + i \in WL
    BY <1>2, SizeAssumption DEF WL
  <2>. QED
    BY <1>2, <2>1, MetaAddr DEF LoadPage
<1>3. CASE ~(c + i < NUM_WL)
  <2>1. LoadPage(b, c, i) = PageOf((b + 1) % NUM_META_BLK, (c + i) % NUM_WL)
    BY <1>3 DEF LoadPage
  <2>. QED
    BY <1>1, <2>1, MetaAddr
<1>. QED
  BY <1>2, <1>3

LEMMA LesserFacts ==
  ASSUME NEW a \in Nat, NEW b \in Nat
  PROVE  Lesser(a, b) \in Nat /\ Lesser(a, b) <= a /\ Lesser(a, b) <= b
         /\ (Lesser(a, b) = a \/ Lesser(a, b) = b)
  BY DEF Lesser

-----------------------------------------------------------------------------
(* Opening: the scan of the first pages.                                   *)

OsOf(s, b, a, c, n, d) == [step |-> s, bo |-> b, age |-> a, cpo |-> c, iss |-> n, dn |-> d]

LEMMA OsFieldsOf ==
  ASSUME NEW s, NEW b, NEW a, NEW c, NEW n, NEW d
  PROVE  /\ IsOs(OsOf(s, b, a, c, n, d))
         /\ OsOf(s, b, a, c, n, d).step = s /\ OsOf(s, b, a, c, n, d).bo = b
         /\ OsOf(s, b, a, c, n, d).age = a /\ OsOf(s, b, a, c, n, d).cpo = c
         /\ OsOf(s, b, a, c, n, d).iss = n /\ OsOf(s, b, a, c, n, d).dn = d
  BY DEF IsOs, OsFields, OsOf

\* META has nothing under way: it issues the first n reads of a phase.
LEMMA PhaseStarts ==
  ASSUME IoTypes, Cnts("Meta", 0, 0, 0), mt' = "Open", UNCHANGED <<die, done>>,
         NEW s \in ReadSteps, NEW b, NEW a, NEW c, NEW n \in Nat,
         os' = OsOf(s, b, a, c, n, 0),
         n <= 2, n <= (IF s = "BlkScan" THEN NUM_META_BLK
                       ELSE IF s = "PageScan" THEN NUM_WL ELSE NUM_MAP_SLICE),
         b \in MOff \/ (s = "BlkScan" /\ b = INV_BN), s # "BlkScan" => c \in 0 .. NUM_WL,
         NEW t, IsReads(t, n), Issue(t), \A i \in 1 .. n : t[i].blk \in MBlk /\ t[i].wl \in WL
  PROVE  IoTypes' /\ (\A j \in CbKey \ {"Meta"} : SameFor(j)) /\ MetaInv'
<1>1. /\ IoTypes' /\ \A j \in CbKey \ {"Meta"} : SameFor(j)
      /\ CntsNext("Meta", 0 + n, 0, 0)
      /\ \A x \in Under'["Meta"] : x \in Under["Meta"] \/ \E i \in 1 .. n : x = t[i]
  BY ReadsIssued
<1>2. Under["Meta"] = {}
  BY NoUnder, KeysDiffer
<1>3. \A x \in Under'["Meta"] : x.blk \in MBlk /\ x.wl \in WL
  BY <1>1, <1>2
<1>4. /\ IsOs(os') /\ os'.step = s /\ os'.bo = b /\ os'.cpo = c /\ os'.iss = n /\ os'.dn = 0
  BY OsFieldsOf
<1>5. Cnts("Meta", os.iss - os.dn, 0, 0)'
  BY <1>1, <1>4 DEF Cnts, CntsNext
<1>6. ReadState'
  BY <1>3, <1>4, <1>5 DEF ReadState, Total, Phase, ReadSteps
<1>. QED
  BY <1>1, <1>4, <1>6, ReadStateIs

LEMMA MetaInitKeeps ==
  ASSUME MapInv, RestInv, pwr, MetaOnly, MetaInit
  PROVE  RestInv'
<1> USE DEF mapVars, jnlVars
<1> DEFINE n == IssueUpto(0, NUM_META_BLK)
           a == [i \in 1 .. n |-> FirstPageOf(0 + i - 1)]
           t == Reads(0, n, FirstPageOf)
<1>1. /\ mt = "Init" /\ mt' = "Open"
      /\ UNCHANGED <<die, done, opn, jnl, mctx>>
  BY DEF MetaInit
<1>2. os' = OsOf("BlkScan", INV_BN, 0, 0, n, 0)
  BY DEF MetaInit, OsIdle, OsOf
<1>3. Issue(t)
  <2>1. os'.iss = n
    BY <1>2, OsFieldsOf
  <2>. QED
    BY <2>1 DEF MetaInit
<1>4. n \in Nat /\ n <= 2 /\ n <= NUM_META_BLK
  BY LesserFacts, SizeAssumption DEF IssueUpto
<1> HIDE DEF n
<1>5. \A i \in 1 .. n : a[i].blk \in MBlk /\ a[i].wl \in WL
  <2> TAKE i \in 1 .. n
  <2>1. 0 + i - 1 \in MOff
    BY <1>4, SizeAssumption DEF MOff
  <2>2. a[i] = FirstPageOf(0 + i - 1)
    OBVIOUS
  <2>. QED
    BY <2>1, <2>2, FirstAddr
<1>6. t = [i \in 1 .. n |-> ReadCmd("Meta", a[i].blk, a[i].wl)]
  BY <1>4 DEF Reads
<1> HIDE DEF t, a
<1>7. Cnts("Meta", 0, 0, 0) /\ Opening /\ IoTypes
  BY <1>1 DEF RestInv, MetaInv, SaveInv, Opening
<1>8. IsReads(t, n) /\ \A i \in 1 .. n : t[i].blk \in MBlk /\ t[i].wl \in WL
  BY <1>5, <1>6, ReadsOf
<1>9. IoTypes' /\ (\A j \in CbKey \ {"Meta"} : SameFor(j)) /\ MetaInv'
  BY <1>1, <1>2, <1>3, <1>4, <1>7, <1>8, PhaseStarts DEF ReadSteps
<1>10. AddrInv'
  BY <1>1, AddrFrame DEF RestInv, MetaOnly, gcVars, reqVars
<1>. QED
  BY <1>7, <1>9, <1>10, OpenFrame

LEMMA InPhase ==
  ASSUME RestInv, NEW s \in ReadSteps, Phase(s)
  PROVE  ReadState /\ Opening /\ mt = "Open" /\ os.step = s /\ IoTypes /\ AddrInv
  BY DEF RestInv, MetaInv, ReadInv, Reading, Phase, ReadSteps, Opening

TotalOf(s) == IF s = "BlkScan" THEN NUM_META_BLK
              ELSE IF s = "PageScan" THEN NUM_WL ELSE NUM_MAP_SLICE

\* META issues the reads up to the n-th of its phase.
LEMMA PhaseGoesOn ==
  ASSUME RestInv, NEW s \in ReadSteps, Phase(s), mt' = mt, UNCHANGED <<die, done>>,
         NEW n \in Nat, os' = [os EXCEPT !.iss = n],
         os.iss <= n, n <= TotalOf(s), n <= os.dn + 2,
         NEW t, IsReads(t, n - os.iss), Issue(t),
         \A i \in 1 .. n - os.iss : t[i].blk \in MBlk /\ t[i].wl \in WL
  PROVE  IoTypes' /\ (\A j \in CbKey \ {"Meta"} : SameFor(j)) /\ MetaInv'
<1>1. ReadState /\ mt = "Open" /\ os.step = s /\ IoTypes
  BY InPhase
<1>2. /\ os.iss \in Nat /\ os.dn \in Nat /\ os.dn <= os.iss
      /\ Cnts("Meta", os.iss - os.dn, 0, 0)
  BY <1>1 DEF ReadState
<1>3. n - os.iss \in Nat /\ os.iss - os.dn \in Nat
  BY <1>2
<1>4. /\ IoTypes' /\ \A j \in CbKey \ {"Meta"} : SameFor(j)
      /\ CntsNext("Meta", os.iss - os.dn + (n - os.iss), 0, 0)
      /\ \A x \in Under'["Meta"] : x \in Under["Meta"] \/ \E i \in 1 .. n - os.iss : x = t[i]
  BY <1>1, <1>2, <1>3, ReadsIssued
<1>5. \A x \in Under'["Meta"] : x.blk \in MBlk /\ x.wl \in WL
  BY <1>1, <1>4 DEF ReadState
<1>6. /\ IsOs(os') /\ os'.step = s /\ os'.bo = os.bo /\ os'.cpo = os.cpo
      /\ os'.iss = n /\ os'.dn = os.dn
  <2>1. IsOs(os')
    BY <1>1 DEF ReadState, IsOs
  <2>. QED
    BY <1>1, <2>1 DEF ReadState, IsOs, OsFields
<1>7. Cnts("Meta", os.iss - os.dn, 0, 0)'
  <2>1. os.iss - os.dn + (n - os.iss) = n - os.dn
    BY <1>2
  <2>. QED
    BY <1>4, <1>6, <2>1 DEF Cnts, CntsNext
<1>8. ReadState'
  <2>1. Phase("BlkScan")' <=> Phase("BlkScan")
    BY <1>1, <1>6 DEF Phase
  <2>2. Total' = TotalOf(s)
    BY <1>1, <1>6 DEF Total, TotalOf, Phase, ReadSteps
  <2>. QED
    BY <1>1, <1>2, <1>5, <1>6, <1>7, <2>1, <2>2 DEF ReadState
<1>. QED
  BY <1>1, <1>4, <1>6, <1>8, ReadStateIs

\* META collects a read of its phase.
LEMMA PhaseCollects ==
  ASSUME RestInv, NEW s \in ReadSteps, Phase(s), mt' = mt, UNCHANGED <<die, nq>>,
         HasDone("Meta"), PopDone("Meta"),
         IsOs(os'), os'.step = os.step, os'.dn = os.dn + 1, os'.iss = os.iss,
         s = "BlkScan" => os'.bo \in MOff \/ os'.bo = INV_BN,
         s # "BlkScan" => os'.bo = os.bo /\ os'.cpo \in 0 .. NUM_WL
  PROVE  IoTypes' /\ (\A j \in CbKey \ {"Meta"} : SameFor(j)) /\ MetaInv'
<1>1. ReadState /\ mt = "Open" /\ os.step = s /\ IoTypes
  BY InPhase
<1>2. /\ os.iss \in Nat /\ os.dn \in Nat /\ os.dn <= os.iss
      /\ Cnts("Meta", os.iss - os.dn, 0, 0)
  BY <1>1 DEF ReadState
<1>3. os.iss - os.dn \in Nat
  BY <1>2
<1>4. /\ IoTypes' /\ \A j \in CbKey \ {"Meta"} : SameFor(j)
      /\ os.iss - os.dn > 0 /\ CntsNext("Meta", os.iss - os.dn - 1, 0, 0)
      /\ Under'["Meta"] \subseteq Under["Meta"]
  BY <1>1, <1>2, <1>3, ReadPopped
<1>5. \A x \in Under'["Meta"] : x.blk \in MBlk /\ x.wl \in WL
  BY <1>1, <1>4 DEF ReadState
<1>7. Cnts("Meta", os.iss - os.dn, 0, 0)'
  <2>1. os.iss - os.dn - 1 = os.iss - (os.dn + 1)
    BY <1>2
  <2>. QED
    BY <1>4, <2>1 DEF Cnts, CntsNext
<1>8. ReadState'
  <2>1. Phase("BlkScan")' <=> Phase("BlkScan")
    BY <1>1 DEF Phase
  <2>2. Total' = Total
    BY <1>1 DEF Total, Phase, ReadSteps
  <2>3. /\ os'.dn \in Nat /\ os'.iss \in Nat
        /\ os'.dn <= os'.iss /\ os'.iss <= os'.dn + 2
    BY <1>1, <1>2, <1>4 DEF ReadState
  <2>4. Phase("BlkScan") <=> s = "BlkScan"
    BY <1>1 DEF Phase
  <2>. QED
    BY <1>1, <1>5, <1>7, <2>1, <2>2, <2>3, <2>4 DEF ReadState
<1>. QED
  BY <1>1, <1>4, <1>8, ReadStateIs

\* What META has just collected in a phase of reads.
LEMMA PhaseHead ==
  ASSUME RestInv, NEW s \in ReadSteps, Phase(s), HasDone("Meta")
  PROVE  /\ DoneHead("Meta").blk \in MBlk /\ DoneHead("Meta").wl \in WL
         /\ MetaPg(DoneHead("Meta").pg)
<1>1. ReadState /\ IoTypes
  BY InPhase
<1>2. DoneHead("Meta") \in Under["Meta"] /\ GoodCmd(DoneHead("Meta"))
  BY <1>1, HeadUnder, KeysDiffer
<1>. QED
  BY <1>1, <1>2 DEF ReadState, GoodCmd

\* META has collected every read of its phase.
LEMMA PhaseOver ==
  ASSUME RestInv, NEW s \in ReadSteps, Phase(s), os.iss <= os.dn
  PROVE  Cnts("Meta", 0, 0, 0)
<1>1. ReadState
  BY InPhase
<1>2. os.iss - os.dn = 0
  BY <1>1 DEF ReadState
<1>. QED
  BY <1>1, <1>2 DEF ReadState

LEMMA BlkScanIssueKeeps ==
  ASSUME MapInv, RestInv, pwr, MetaOnly, BlkScanIssue
  PROVE  RestInv'
<1> USE DEF mapVars, jnlVars
<1> DEFINE n == IssueUpto(os.dn, NUM_META_BLK)
           a == [i \in 1 .. n - os.iss |-> FirstPageOf(os.iss + i - 1)]
           t == Reads(os.iss, n, FirstPageOf)
<1>1. /\ Phase("BlkScan") /\ mt' = mt /\ os' = [os EXCEPT !.iss = n]
      /\ UNCHANGED <<die, done, opn, jnl, mctx>>
  BY DEF BlkScanIssue
<1>2. "BlkScan" \in ReadSteps
  BY DEF ReadSteps
<1>3. ReadState /\ mt = "Open" /\ os.step = "BlkScan" /\ Opening /\ IoTypes
  BY <1>1, <1>2, InPhase
<1>4. /\ os.iss \in Nat /\ os.dn \in Nat /\ os.iss <= os.dn + 2
      /\ os.iss <= TotalOf("BlkScan") /\ IsOs(os)
  BY <1>1, <1>3 DEF ReadState, Total, TotalOf
<1>5. Issue(t)
  <2>1. os'.iss = n
    BY <1>1, <1>4 DEF IsOs, OsFields
  <2>. QED
    BY <2>1 DEF BlkScanIssue
<1>6. n \in Nat /\ os.iss <= n /\ n <= TotalOf("BlkScan") /\ n <= os.dn + 2
  <2>1. NUM_META_BLK \in Nat /\ TotalOf("BlkScan") = NUM_META_BLK /\ os.dn + 2 \in Nat
    BY <1>4, SizeAssumption DEF TotalOf
  <2>2. n \in Nat /\ n <= os.dn + 2 /\ n <= NUM_META_BLK /\ (n = os.dn + 2 \/ n = NUM_META_BLK)
    BY <2>1, LesserFacts DEF IssueUpto
  <2> HIDE DEF n
  <2>. QED
    BY <1>4, <2>1, <2>2
<1> HIDE DEF n
<1>7. \A i \in 1 .. n - os.iss : a[i].blk \in MBlk /\ a[i].wl \in WL
  <2> TAKE i \in 1 .. n - os.iss
  <2>1. os.iss + i - 1 \in MOff
    BY <1>4, <1>6, SizeAssumption DEF MOff, TotalOf
  <2>2. a[i] = FirstPageOf(os.iss + i - 1)
    OBVIOUS
  <2>. QED
    BY <2>1, <2>2, FirstAddr
<1>8. t = [i \in 1 .. n - os.iss |-> ReadCmd("Meta", a[i].blk, a[i].wl)]
  BY DEF Reads
<1> HIDE DEF t, a
<1>9. IsReads(t, n - os.iss) /\ \A i \in 1 .. n - os.iss : t[i].blk \in MBlk /\ t[i].wl \in WL
  BY <1>7, <1>8, ReadsOf
<1>10. IoTypes' /\ (\A j \in CbKey \ {"Meta"} : SameFor(j)) /\ MetaInv'
  BY <1>1, <1>2, <1>5, <1>6, <1>9, PhaseGoesOn
<1>11. AddrInv'
  BY <1>1, AddrFrame DEF RestInv, MetaOnly, gcVars, reqVars
<1>. QED
  BY <1>3, <1>10, <1>11, OpenFrame

LEMMA BlkScanPopKeeps ==
  ASSUME MapInv, RestInv, pwr, MetaOnly, BlkScanPop
  PROVE  RestInv'
<1> USE DEF mapVars, jnlVars
<1>1. /\ Phase("BlkScan") /\ mt' = mt /\ HasDone("Meta") /\ PopDone("Meta")
      /\ UNCHANGED <<die, nq, opn, jnl, mctx>>
  BY DEF BlkScanPop
<1>2. "BlkScan" \in ReadSteps
  BY DEF ReadSteps
<1>3. ReadState /\ Opening /\ IoTypes
  BY <1>1, <1>2, InPhase
<1>4. DoneHead("Meta").blk \in MBlk
  BY <1>1, <1>2, PhaseHead
<1>5. /\ IsOs(os') /\ os'.step = os.step /\ os'.dn = os.dn + 1 /\ os'.iss = os.iss
      /\ os'.bo = os.bo \/ os'.bo = DoneHead("Meta").blk - NUM_USER_BLK
  <2>1. \/ os' = [os EXCEPT !.dn = @ + 1]
        \/ os' = [os EXCEPT !.dn = @ + 1, !.age = DoneHead("Meta").pg.age,
                            !.bo = DoneHead("Meta").blk - NUM_USER_BLK]
    BY DEF BlkScanPop
  <2>2. IsOs(os')
    BY <1>3, <2>1 DEF ReadState, IsOs
  <2>. QED
    BY <1>3, <2>1, <2>2 DEF ReadState, IsOs, OsFields
<1>6. os'.bo \in MOff \/ os'.bo = INV_BN
  <2>1. DoneHead("Meta").blk - NUM_USER_BLK \in MOff
    BY <1>4, SizeAssumption DEF MBlk, MOff
  <2>. QED
    BY <1>1, <1>3, <1>5, <2>1 DEF ReadState
<1>7. IoTypes' /\ (\A j \in CbKey \ {"Meta"} : SameFor(j)) /\ MetaInv'
  BY <1>1, <1>2, <1>5, <1>6, PhaseCollects
<1>8. AddrInv'
  BY <1>1, AddrFrame DEF RestInv, MetaOnly, gcVars, reqVars
<1>. QED
  BY <1>3, <1>7, <1>8, OpenFrame

LEMMA BlkScanReturnKeeps ==
  ASSUME MapInv, RestInv, pwr, MetaOnly, BlkScanReturn
  PROVE  RestInv'
<1> USE DEF mapVars, jnlVars, openVars
<1>1. Phase("BlkScan") /\ UNCHANGED <<ioVars, opn, jnl, mctx, mt, os, us>>
  BY DEF BlkScanReturn
<1>2. IoTypes' /\ \A j \in CbKey : SameFor(j)
  BY <1>1, QuietFor DEF RestInv
<1>3. AddrInv'
  BY <1>1, AddrFrame DEF RestInv, MetaOnly, gcVars, reqVars
<1>4. MetaInv'
  BY <1>1, <1>2, KeysDiffer, MetaFrame DEF RestInv
<1>5. Opening
  BY <1>1 DEF Phase, Opening
<1>. QED
  BY <1>2, <1>3, <1>4, <1>5, OpenFrame

LEMMA MetaFormatKeeps ==
  ASSUME MapInv, RestInv, pwr, MetaOnly, MetaFormat
  PROVE  RestInv'
<1> USE DEF mapVars, jnlVars
<1>1. /\ Phase("BlkScan") /\ mt' = "Ready" /\ os.dn = NUM_META_BLK
      /\ mctx' = [bo |-> 0, wl |-> 0, slice |-> 0, age |-> 1]
      /\ UNCHANGED <<ioVars, opn, jnl>>
  BY DEF MetaFormat
<1>2. "BlkScan" \in ReadSteps
  BY DEF ReadSteps
<1>3. ReadState /\ Opening
  BY <1>1, <1>2, InPhase
<1>4. os.iss <= os.dn
  BY <1>1, <1>3 DEF ReadState, Total
<1>5. Cnts("Meta", 0, 0, 0)
  BY <1>1, <1>2, <1>4, PhaseOver
<1>6. IoTypes' /\ Cnt' = Cnt /\ \A j \in CbKey : SameFor(j)
  BY <1>1, SameIo, QuietFor DEF RestInv
<1>7. Cnts("Meta", 0, 0, 0)'
  BY <1>5, <1>6 DEF Cnts
<1>8. MetaInv'
  BY <1>1, <1>7 DEF MetaInv, ReadInv, ScanInv, SaveInv, Reading, Phase
<1>9. IsCtx(mctx')
  BY <1>1 DEF IsCtx
<1>10. AddrInv'
  BY <1>1, <1>9 DEF RestInv, AddrInv, MetaOnly, gcVars, reqVars
<1>. QED
  BY <1>3, <1>6, <1>8, <1>10, OpenFrame

-----------------------------------------------------------------------------
(* Opening: the scan of the pages of a block.                              *)

LEMMA BlkScanDoneKeeps ==
  ASSUME MapInv, RestInv, pwr, MetaOnly, BlkScanDone
  PROVE  RestInv'
<1> USE DEF mapVars, jnlVars
<1> DEFINE n == IssueUpto(0, NUM_WL)
           a == [i \in 1 .. n |-> PageOf(os.bo, 0 + i - 1)]
           t == Reads(0, n, LAMBDA i : PageOf(os.bo, i))
<1>1. /\ Phase("BlkScan") /\ mt' = mt /\ os.dn = NUM_META_BLK /\ os.bo # INV_BN
      /\ UNCHANGED <<die, done, opn, jnl, mctx>>
  BY DEF BlkScanDone
<1>2. "BlkScan" \in ReadSteps /\ "PageScan" \in ReadSteps /\ "PageScan" # "BlkScan"
  BY DEF ReadSteps
<1>3. ReadState /\ mt = "Open" /\ Opening /\ IoTypes
  BY <1>1, <1>2, InPhase
<1>4. os.bo \in MOff /\ os.iss <= os.dn
  BY <1>1, <1>3 DEF ReadState, Total
<1>5. Cnts("Meta", 0, 0, 0)
  BY <1>1, <1>2, <1>4, PhaseOver
<1>6. os' = OsOf("PageScan", os.bo, 0, NUM_WL, n, 0)
  BY DEF BlkScanDone, OsIdle, OsOf
<1>7. Issue(t)
  <2>1. os'.iss = n
    BY <1>6, OsFieldsOf
  <2>. QED
    BY <2>1 DEF BlkScanDone
<1>8. n \in Nat /\ n <= 2 /\ n <= NUM_WL /\ NUM_WL \in 0 .. NUM_WL
  BY LesserFacts, SizeAssumption DEF IssueUpto
<1> HIDE DEF n
<1>9. \A i \in 1 .. n : a[i].blk \in MBlk /\ a[i].wl \in WL
  <2> TAKE i \in 1 .. n
  <2>1. 0 + i - 1 \in WL
    BY <1>8, SizeAssumption DEF WL
  <2>2. a[i] = PageOf(os.bo, 0 + i - 1)
    OBVIOUS
  <2>. QED
    BY <1>4, <2>1, <2>2, MetaAddr
<1>10. t = [i \in 1 .. n |-> ReadCmd("Meta", a[i].blk, a[i].wl)]
  BY <1>8 DEF Reads
<1> HIDE DEF t, a
<1>11. IsReads(t, n) /\ \A i \in 1 .. n : t[i].blk \in MBlk /\ t[i].wl \in WL
  BY <1>9, <1>10, ReadsOf
<1>12. IoTypes' /\ (\A j \in CbKey \ {"Meta"} : SameFor(j)) /\ MetaInv'
  BY <1>1, <1>2, <1>3, <1>4, <1>5, <1>6, <1>7, <1>8, <1>11, PhaseStarts
<1>13. AddrInv'
  BY <1>1, AddrFrame DEF RestInv, MetaOnly, gcVars, reqVars
<1>. QED
  BY <1>3, <1>12, <1>13, OpenFrame

LEMMA PageScanPopKeeps ==
  ASSUME MapInv, RestInv, pwr, MetaOnly, PageScanPop
  PROVE  RestInv'
<1> USE DEF mapVars, jnlVars
<1> DEFINE c == DoneHead("Meta")
<1>1. /\ Phase("PageScan") /\ mt' = mt /\ HasDone("Meta") /\ PopDone("Meta")
      /\ UNCHANGED <<die, nq, opn, jnl>>
  BY DEF PageScanPop
<1>2. "PageScan" \in ReadSteps /\ "PageScan" # "BlkScan"
  BY DEF ReadSteps
<1>3. ReadState /\ os.step = "PageScan" /\ Opening /\ AddrInv
  BY <1>1, <1>2, InPhase
<1>4. c.wl \in WL /\ MetaPg(c.pg)
  BY <1>1, <1>2, PhaseHead
<1>5. /\ IsOs(os) /\ os.cpo \in 0 .. NUM_WL
  BY <1>1, <1>2, <1>3 DEF ReadState, Phase
<1>6. \/ IsErased(c.pg) /\ mctx' = mctx
         /\ os' = [os EXCEPT !.dn = @ + 1, !.cpo = IF @ = NUM_WL THEN c.wl ELSE @]
      \/ ~IsErased(c.pg) /\ os' = [os EXCEPT !.dn = @ + 1]
         /\ mctx' = [mctx EXCEPT !.age = c.pg.age, !.slice = (c.pg.slice + 1) % NUM_MAP_SLICE]
  BY DEF PageScanPop
<1> HIDE DEF c
<1>7. /\ IsOs(os') /\ os'.step = os.step /\ os'.dn = os.dn + 1 /\ os'.iss = os.iss
      /\ os'.bo = os.bo /\ (os'.cpo = os.cpo \/ os'.cpo = c.wl)
  <2>1. IsOs(os')
    BY <1>5, <1>6 DEF IsOs
  <2>. QED
    BY <1>5, <1>6, <2>1 DEF IsOs, OsFields
<1>8. os'.cpo \in 0 .. NUM_WL
  BY <1>4, <1>5, <1>7, SizeAssumption DEF WL
<1>9. IoTypes' /\ (\A j \in CbKey \ {"Meta"} : SameFor(j)) /\ MetaInv'
  BY <1>1, <1>2, <1>7, <1>8, PhaseCollects
<1>10. IsCtx(mctx')
  <2>1. CASE mctx' = mctx
    BY <1>3, <2>1 DEF AddrInv
  <2>2. CASE ~IsErased(c.pg) /\ mctx' = [mctx EXCEPT !.age = c.pg.age,
                                            !.slice = (c.pg.slice + 1) % NUM_MAP_SLICE]
    <3> DEFINE s == (c.pg.slice + 1) % NUM_MAP_SLICE
    <3>1. mctx' = [mctx EXCEPT !.age = c.pg.age, !.slice = s]
      BY <2>2
    <3> HIDE DEF s
    <3>2. c.pg.age \in Nat
      BY <1>4, <2>2 DEF MetaPg
    <3>. QED
      BY <1>3, <3>1, <3>2 DEF AddrInv, IsCtx
  <2>. QED
    BY <1>6, <2>1, <2>2
<1>11. AddrInv'
  BY <1>1, <1>10 DEF RestInv, AddrInv, MetaOnly, gcVars, reqVars
<1>. QED
  BY <1>3, <1>9, <1>11, OpenFrame

LEMMA PageScanReturnKeeps ==
  ASSUME MapInv, RestInv, pwr, MetaOnly, PageScanReturn
  PROVE  RestInv'
<1> USE DEF mapVars, jnlVars
<1> DEFINE n == PageScanIssued
           a == [i \in 1 .. n - os.iss |-> PageOf(os.bo, os.iss + i - 1)]
           t == Reads(os.iss, n, LAMBDA i : PageOf(os.bo, i))
<1>1. /\ Phase("PageScan") /\ mt' = mt /\ os' = [os EXCEPT !.iss = n] /\ Issue(t)
      /\ UNCHANGED <<die, done, opn, jnl, mctx>>
  BY DEF PageScanReturn
<1>2. "PageScan" \in ReadSteps /\ "PageScan" # "BlkScan" /\ TotalOf("PageScan") = NUM_WL
  BY DEF ReadSteps, TotalOf
<1>3. ReadState /\ os.step = "PageScan" /\ Opening
  BY <1>1, <1>2, InPhase
<1>4. /\ os.iss \in Nat /\ os.dn \in Nat /\ os.iss <= os.dn + 2
      /\ os.iss <= NUM_WL /\ os.bo \in MOff
  BY <1>1, <1>2, <1>3 DEF ReadState, Total, Phase
<1>5. n \in Nat /\ os.iss <= n /\ n <= NUM_WL /\ n <= os.dn + 2
  <2>1. NUM_WL \in Nat /\ os.dn + 2 \in Nat
    BY <1>4, SizeAssumption
  <2>2. CASE os.cpo = NUM_WL
    <3>1. n = Lesser(os.dn + 2, NUM_WL)
      BY <2>2 DEF PageScanIssued, IssueUpto
    <3> HIDE DEF n
    <3>. QED
      BY <1>4, <2>1, <3>1, LesserFacts
  <2>3. CASE os.cpo # NUM_WL
    BY <1>4, <2>3 DEF PageScanIssued
  <2>. QED
    BY <2>2, <2>3
<1> HIDE DEF n
<1>7. \A i \in 1 .. n - os.iss : a[i].blk \in MBlk /\ a[i].wl \in WL
  <2> TAKE i \in 1 .. n - os.iss
  <2>1. os.iss + i - 1 \in WL
    BY <1>4, <1>5, SizeAssumption DEF WL
  <2>2. a[i] = PageOf(os.bo, os.iss + i - 1)
    OBVIOUS
  <2>. QED
    BY <1>4, <2>1, <2>2, MetaAddr
<1>8. t = [i \in 1 .. n - os.iss |-> ReadCmd("Meta", a[i].blk, a[i].wl)]
  BY DEF Reads
<1> HIDE DEF t, a
<1>9. IsReads(t, n - os.iss) /\ \A i \in 1 .. n - os.iss : t[i].blk \in MBlk /\ t[i].wl \in WL
  BY <1>7, <1>8, ReadsOf
<1>10. IoTypes' /\ (\A j \in CbKey \ {"Meta"} : SameFor(j)) /\ MetaInv'
  BY <1>1, <1>2, <1>5, <1>9, PhaseGoesOn
<1>11. AddrInv'
  BY <1>1, AddrFrame DEF RestInv, MetaOnly, gcVars, reqVars
<1>. QED
  BY <1>3, <1>10, <1>11, OpenFrame

LEMMA PageScanDoneKeeps ==
  ASSUME MapInv, RestInv, pwr, MetaOnly, PageScanDone
  PROVE  RestInv'
<1> USE DEF jnlVars
<1> DEFINE n == IssueUpto(0, NUM_MAP_SLICE)
           bo == LoadFrom.bo
           cpo == LoadFrom.cpo
           a == [i \in 1 .. n |-> LoadPage(bo, cpo, 0 + i - 1)]
           t == Reads(0, n, LAMBDA i : LoadPage(bo, cpo, i))
<1>1. /\ Phase("PageScan") /\ mt' = mt /\ PageScanIssued = os.dn
      /\ UNCHANGED <<die, done, opn, jnl>>
  BY DEF PageScanDone
<1>2. "PageScan" \in ReadSteps /\ "MtLoad" \in ReadSteps /\ "MtLoad" # "BlkScan"
      /\ "PageScan" # "BlkScan" /\ "MtLoad" # "PageScan"
  BY DEF ReadSteps
<1>3. ReadState /\ mt = "Open" /\ os.step = "PageScan" /\ Opening /\ IoTypes /\ AddrInv
  BY <1>1, <1>2, InPhase
<1>4. /\ os.bo \in MOff /\ os.cpo \in 0 .. NUM_WL /\ os.iss \in Nat /\ os.dn \in Nat
      /\ os.iss <= NUM_WL
  BY <1>1, <1>2, <1>3 DEF ReadState, Total, Phase
<1>5. os.iss <= os.dn
  <2>1. CASE os.cpo = NUM_WL
    <3>1. os.dn = Lesser(os.dn + 2, NUM_WL) /\ NUM_WL \in Nat /\ os.dn + 2 \in Nat
      BY <1>1, <1>4, <2>1, SizeAssumption DEF PageScanIssued, IssueUpto
    <3>2. os.dn = os.dn + 2 \/ os.dn = NUM_WL
      BY <3>1, LesserFacts
    <3>. QED
      BY <1>4, <3>2
  <2>2. CASE os.cpo # NUM_WL
    BY <1>1, <1>4, <2>2 DEF PageScanIssued
  <2>. QED
    BY <2>1, <2>2
<1>6. Cnts("Meta", 0, 0, 0)
  BY <1>1, <1>2, <1>5, PhaseOver
<1>7. bo \in MOff /\ cpo \in 0 .. NUM_WL
  <2>1. CASE os.cpo >= NUM_MAP_SLICE
    <3>1. bo = os.bo /\ cpo = os.cpo - NUM_MAP_SLICE
      BY <2>1 DEF LoadFrom
    <3> HIDE DEF bo, cpo
    <3>2. os.cpo - NUM_MAP_SLICE \in 0 .. NUM_WL
      BY <1>4, <2>1, MetaAssumption, SizeAssumption
    <3>. QED
      BY <1>4, <3>1, <3>2
  <2>2. CASE ~(os.cpo >= NUM_MAP_SLICE)
    <3>1. bo = (os.bo + NUM_META_BLK - 1) % NUM_META_BLK
          /\ cpo = (os.cpo + NUM_WL - NUM_MAP_SLICE) % NUM_WL
      BY <2>2 DEF LoadFrom
    <3>2. os.bo + NUM_META_BLK - 1 \in Int /\ os.cpo + NUM_WL - NUM_MAP_SLICE \in Int
      BY <1>4, MetaAssumption, SizeAssumption DEF MOff
    <3> HIDE DEF bo, cpo
    <3>3. bo \in MOff /\ cpo \in WL
      BY <3>1, <3>2, RingMod
    <3>. QED
      BY <3>3, SizeAssumption DEF WL
  <2>. QED
    BY <2>1, <2>2
<1>8. os' = OsOf("MtLoad", bo, 0, cpo, n, 0)
  BY DEF PageScanDone, OsIdle, OsOf
<1>9. Issue(t)
  <2>1. os'.iss = n /\ os'.bo = bo /\ os'.cpo = cpo
    BY <1>8, OsFieldsOf
  <2>. QED
    BY <2>1 DEF PageScanDone
<1>10. n \in Nat /\ n <= 2 /\ n <= NUM_MAP_SLICE
  BY LesserFacts, MetaAssumption DEF IssueUpto
<1> HIDE DEF n, bo, cpo
<1>11. \A i \in 1 .. n : a[i].blk \in MBlk /\ a[i].wl \in WL
  <2> TAKE i \in 1 .. n
  <2>1. 0 + i - 1 \in Nat
    BY <1>10
  <2>2. a[i] = LoadPage(bo, cpo, 0 + i - 1)
    OBVIOUS
  <2>. QED
    BY <1>7, <2>1, <2>2, LoadAddr
<1>12. t = [i \in 1 .. n |-> ReadCmd("Meta", a[i].blk, a[i].wl)]
  BY <1>10 DEF Reads
<1> HIDE DEF t, a
<1>13. IsReads(t, n) /\ \A i \in 1 .. n : t[i].blk \in MBlk /\ t[i].wl \in WL
  BY <1>11, <1>12, ReadsOf
<1>14. IoTypes' /\ (\A j \in CbKey \ {"Meta"} : SameFor(j)) /\ MetaInv'
  BY <1>1, <1>2, <1>3, <1>6, <1>7, <1>8, <1>9, <1>10, <1>13, PhaseStarts
<1>15. IsCtx(mctx')
  <2>1. PICK b, w : mctx' = [mctx EXCEPT !.bo = b, !.wl = w]
    BY DEF PageScanDone
  <2>. QED
    BY <1>3, <2>1 DEF AddrInv, IsCtx
<1>16. AddrInv'
  BY <1>1, <1>15 DEF RestInv, AddrInv, MetaOnly, gcVars, reqVars
<1>. QED
  BY <1>3, <1>14, <1>16, OpenFrame

-----------------------------------------------------------------------------
(* Opening: the load.                                                      *)

LEMMA ReplayKeepsNext ==
  ASSUME NEW e, GoodEnts(e), NEW p, \A o \in OpenType : IsNext(p[o])
  PROVE  /\ ReplayOpen(p, e) = [o \in OpenType |-> ReplayOpen(p, e)[o]]
         /\ \A o \in OpenType : IsNext(ReplayOpen(p, e)[o])
<1>1. ReplayOpen(p, e) = [o \in OpenType |-> ReplayOpen(p, e)[o]]
  BY DEF ReplayOpen
<1>2. ASSUME NEW o \in OpenType
      PROVE  IsNext(ReplayOpen(p, e)[o])
  <2> DEFINE S == EntriesOf(e, o)
  <2>1. CASE S = {}
    BY <2>1 DEF ReplayOpen
  <2>2. CASE S # {}
    <3>1. Len(e) \in Nat /\ S \in SUBSET (1 .. Len(e)) /\ S \subseteq DOMAIN e
      BY SeqFacts DEF GoodEnts, EntriesOf
    <3> DEFINE i == LastIn(S)
               x == e[i]
    <3>2. ReplayOpen(p, e)[o] = NextAddr(x)
      BY <2>2 DEF ReplayOpen
    <3> HIDE DEF S, i
    <3>3. LastIn(S) \in S
      BY <2>2, <3>1, LastIsIn
    <3>4. GoodEnt(x)
      BY <3>1, <3>3 DEF GoodEnts, Elems, i
    <3> HIDE DEF x
    <3>5. IsNext(NextAddr(x))
      BY <3>4, SizeAssumption DEF GoodEnt, IsNext, NextAddr, VAddr
    <3>. QED
      BY <3>2, <3>5
  <2>. QED
    BY <2>1, <2>2
<1>. QED
  BY <1>1, <1>2

LEMMA MtLoadPopKeeps ==
  ASSUME MapInv, RestInv, pwr, MetaOnly, MtLoadPop
  PROVE  RestInv'
<1> USE DEF jnlVars
<1> DEFINE pg == DoneHead("Meta").pg
<1>1. /\ Phase("MtLoad") /\ HasDone("Meta") /\ PopDone("Meta")
      /\ os' = [os EXCEPT !.dn = @ + 1]
      /\ UNCHANGED <<die, nq, jnl, mctx>>
  BY DEF MtLoadPop
<1>2. "MtLoad" \in ReadSteps /\ "MtLoad" # "BlkScan"
  BY DEF ReadSteps
<1>3. ReadState /\ os.step = "MtLoad" /\ Opening /\ AddrInv /\ IoTypes
  BY <1>1, <1>2, InPhase
<1>4. MetaPg(pg)
  BY <1>1, <1>2, PhaseHead
<1>5. CASE IsErased(pg)
  <2>1. mt' = "Assert" /\ opn' = opn
    BY <1>5 DEF MtLoadPop
  <2>2. os.iss - os.dn \in Nat /\ Cnts("Meta", os.iss - os.dn, 0, 0)
    BY <1>3 DEF ReadState
  <2>3. IoTypes' /\ \A j \in CbKey \ {"Meta"} : SameFor(j)
    BY <1>1, <1>3, <2>2, ReadPopped
  <2>4. MetaInv'
    BY <2>1 DEF MetaInv, ReadInv, ScanInv, SaveInv, Reading, Phase
  <2>5. AddrInv'
    BY <1>1, <2>1, AddrFrame DEF RestInv, MetaOnly, gcVars, reqVars
  <2>. QED
    BY <1>3, <2>3, <2>4, <2>5, OpenFrame
<1>6. CASE ~IsErased(pg)
  <2>1. mt' = mt /\ opn' = ReplayOpen(opn, pg.ent)
    BY <1>6 DEF MtLoadPop
  <2>2. GoodEnts(pg.ent)
    BY <1>4, <1>6 DEF MetaPg
  <2>3. opn' = [o \in OpenType |-> opn'[o]] /\ \A o \in OpenType : IsNext(opn'[o])
    BY <1>3, <2>1, <2>2, ReplayKeepsNext DEF AddrInv
  <2>4. /\ IsOs(os) /\ os.bo \in MOff /\ os.cpo \in 0 .. NUM_WL
    BY <1>2, <1>3 DEF ReadState, Phase
  <2>5. /\ IsOs(os') /\ os'.step = os.step /\ os'.dn = os.dn + 1 /\ os'.iss = os.iss
        /\ os'.bo = os.bo /\ os'.cpo = os.cpo
    <3>1. IsOs(os')
      BY <1>1, <2>4 DEF IsOs
    <3>. QED
      BY <1>1, <2>4, <3>1 DEF IsOs, OsFields
  <2>6. IoTypes' /\ (\A j \in CbKey \ {"Meta"} : SameFor(j)) /\ MetaInv'
    BY <1>1, <1>2, <2>1, <2>4, <2>5, PhaseCollects
  <2>7. AddrInv'
    BY <1>1, <1>3, <2>3 DEF AddrInv, MetaOnly, gcVars, reqVars
  <2>. QED
    BY <1>3, <2>6, <2>7, OpenFrame
<1>. QED
  BY <1>5, <1>6

LEMMA MtLoadReturnKeeps ==
  ASSUME MapInv, RestInv, pwr, MetaOnly, MtLoadReturn
  PROVE  RestInv'
<1> USE DEF mapVars, jnlVars
<1> DEFINE n == IssueUpto(os.dn, NUM_MAP_SLICE)
           a == [i \in 1 .. n - os.iss |-> LoadPage(os.bo, os.cpo, os.iss + i - 1)]
           t == Reads(os.iss, n, LAMBDA i : LoadPage(os.bo, os.cpo, i))
<1>1. /\ Phase("MtLoad") /\ mt' = mt /\ os' = [os EXCEPT !.iss = n]
      /\ UNCHANGED <<die, done, opn, jnl, mctx>>
  BY DEF MtLoadReturn
<1>2. /\ "MtLoad" \in ReadSteps /\ "MtLoad" # "BlkScan" /\ "MtLoad" # "PageScan"
      /\ TotalOf("MtLoad") = NUM_MAP_SLICE
  BY DEF ReadSteps, TotalOf
<1>3. ReadState /\ os.step = "MtLoad" /\ Opening
  BY <1>1, <1>2, InPhase
<1>4. /\ IsOs(os) /\ os.iss \in Nat /\ os.dn \in Nat /\ os.iss <= os.dn + 2
      /\ os.iss <= NUM_MAP_SLICE /\ os.bo \in MOff /\ os.cpo \in 0 .. NUM_WL
  BY <1>1, <1>2, <1>3 DEF ReadState, Total, Phase
<1>5. n \in Nat /\ os.iss <= n /\ n <= NUM_MAP_SLICE /\ n <= os.dn + 2
  <2>1. NUM_MAP_SLICE \in Nat /\ os.dn + 2 \in Nat
    BY <1>4, MetaAssumption
  <2>2. n = Lesser(os.dn + 2, NUM_MAP_SLICE)
    BY DEF IssueUpto
  <2> HIDE DEF n
  <2>. QED
    BY <1>4, <2>1, <2>2, LesserFacts
<1>6. Issue(t)
  <2>1. os'.iss = n
    BY <1>1, <1>4 DEF IsOs, OsFields
  <2>. QED
    BY <2>1 DEF MtLoadReturn
<1> HIDE DEF n
<1>7. \A i \in 1 .. n - os.iss : a[i].blk \in MBlk /\ a[i].wl \in WL
  <2> TAKE i \in 1 .. n - os.iss
  <2>1. os.iss + i - 1 \in Nat
    BY <1>4
  <2>2. a[i] = LoadPage(os.bo, os.cpo, os.iss + i - 1)
    OBVIOUS
  <2>. QED
    BY <1>4, <2>1, <2>2, LoadAddr
<1>8. t = [i \in 1 .. n - os.iss |-> ReadCmd("Meta", a[i].blk, a[i].wl)]
  BY DEF Reads
<1> HIDE DEF t, a
<1>9. IsReads(t, n - os.iss) /\ \A i \in 1 .. n - os.iss : t[i].blk \in MBlk /\ t[i].wl \in WL
  BY <1>7, <1>8, ReadsOf
<1>10. IoTypes' /\ (\A j \in CbKey \ {"Meta"} : SameFor(j)) /\ MetaInv'
  BY <1>1, <1>2, <1>5, <1>6, <1>9, PhaseGoesOn
<1>11. AddrInv'
  BY <1>1, AddrFrame DEF RestInv, MetaOnly, gcVars, reqVars
<1>. QED
  BY <1>3, <1>10, <1>11, OpenFrame

-----------------------------------------------------------------------------
(* Opening: the scans of the open blocks.                                  *)

\* A scan, as its stack u and the reads under way stand.
ScanOf(u) ==
  /\ IsUs(u)
  /\ u.nRun \in 0 .. 2 /\ u.wl \in Nat /\ u.ers \in Nat
  /\ u.blk \in UBlk \/ (u.wl >= NUM_WL /\ u.nRun = 0 /\ u.ers = FF16)
  /\ Cnts("Meta", u.nRun, 0, 0)
  /\ \A c \in Under["Meta"] : c.blk = u.blk /\ c.wl \in WL

LEMMA ScanIssuesIs ==
  ASSUME NEW u, u.nRun \in 0 .. 2, u.wl \in Nat
  PROVE  /\ ScanIssues(u) \in Nat /\ u.nRun + ScanIssues(u) \in 0 .. 2
         /\ ScanIssues(u) > 0 => u.wl + ScanIssues(u) <= NUM_WL
         /\ u.wl >= NUM_WL => ScanIssues(u) = 0
         /\ u.nRun + ScanIssues(u) = 0 => u.nRun = 0
  BY SizeAssumption DEF ScanIssues, Lesser

LEMMA ScanGoesOn ==
  ASSUME IoTypes, NEW o, NEW u, ScanOf(u), u.blk = opn'[o].blk,
         us' = ScanIssued(u), Issue(ScanReads(u)), UNCHANGED <<die, done>>
  PROVE  IoTypes' /\ (\A j \in CbKey \ {"Meta"} : SameFor(j)) /\ ScanState(o)'
<1> DEFINE n == ScanIssues(u)
           t == ScanReads(u)
<1>1. /\ IsUs(u) /\ u.nRun \in 0 .. 2 /\ u.wl \in Nat /\ u.ers \in Nat
      /\ Cnts("Meta", u.nRun, 0, 0)
  BY DEF ScanOf
<1>2. /\ n \in Nat /\ u.nRun + n \in 0 .. 2
      /\ n > 0 => u.wl + n <= NUM_WL
      /\ u.wl >= NUM_WL => n = 0
  BY <1>1, ScanIssuesIs
<1>3. t = [i \in 1 .. n |-> ReadCmd("Meta", u.blk, u.wl + i - 1)]
  BY DEF ScanReads
<1>4. us' = [u EXCEPT !.wl = @ + n, !.nRun = @ + n]
  BY DEF ScanIssued
<1> HIDE DEF n, t
<1>5. /\ IsReads(t, n)
      /\ \A i \in 1 .. n : t[i].blk = u.blk /\ t[i].wl = u.wl + i - 1
  <2>1. \A i \in 1 .. n : t[i] = ReadCmd("Meta", u.blk, u.wl + i - 1)
    BY <1>3
  <2>0. \A b, w : ReadCmd("Meta", b, w).blk = b /\ ReadCmd("Meta", b, w).wl = w
    BY DEF ReadCmd, Cmd
  <2>2. \A i \in 1 .. n : t[i].blk = u.blk /\ t[i].wl = u.wl + i - 1
    BY <2>0, <2>1
  <2>3. t = [i \in 1 .. n |-> t[i]]
    BY <1>3
  <2>. QED
    BY <2>1, <2>2, <2>3 DEF IsReads
<1>6. Issue(t)
  BY DEF t
<1>7. /\ IoTypes' /\ \A j \in CbKey \ {"Meta"} : SameFor(j)
      /\ CntsNext("Meta", u.nRun + n, 0, 0)
      /\ \A c \in Under'["Meta"] : c \in Under["Meta"] \/ \E i \in 1 .. n : c = t[i]
  BY <1>1, <1>2, <1>5, <1>6, ReadsIssued
<1>8. \A c \in Under'["Meta"] : c.blk = u.blk /\ c.wl \in WL
  <2>1. \A i \in 1 .. n : u.wl + i - 1 \in WL
    BY <1>1, <1>2, SizeAssumption DEF WL
  <2>. QED
    BY <1>5, <1>7, <2>1 DEF ScanOf
<1>9. /\ IsUs(us') /\ us'.blk = u.blk /\ us'.wl = u.wl + n /\ us'.nRun = u.nRun + n
      /\ us'.ers = u.ers
  <2>1. IsUs(us')
    BY <1>1, <1>4 DEF IsUs
  <2>. QED
    BY <1>1, <1>4, <2>1 DEF IsUs, UsFields
<1>10. us'.blk \in UBlk \/ (us'.wl >= NUM_WL /\ us'.nRun = 0 /\ us'.ers = FF16)
  BY <1>1, <1>2, <1>9 DEF ScanOf
<1>11. us'.nRun \in 0 .. 2 /\ us'.wl \in Nat /\ us'.ers \in Nat
  BY <1>1, <1>2, <1>9
<1>12. Cnts("Meta", us.nRun, 0, 0)'
  BY <1>7, <1>9 DEF Cnts, CntsNext
<1>13. ScanState(o)'
  BY <1>8, <1>9, <1>10, <1>11, <1>12 DEF ScanState
<1>. QED
  BY <1>7, <1>13

LEMMA ScanStarts ==
  ASSUME IoTypes, AddrInv, NEW o \in OpenType, Cnts("Meta", 0, 0, 0), opn'[o] = opn[o],
         ScanStart(o), UNCHANGED <<die, done>>
  PROVE  IoTypes' /\ (\A j \in CbKey \ {"Meta"} : SameFor(j)) /\ ScanState(o)'
<1> DEFINE u == [blk |-> opn[o].blk, wl |-> opn[o].wl, ers |-> FF16, nRun |-> 0]
<1>1. us' = ScanIssued(u) /\ Issue(ScanReads(u))
  BY DEF ScanStart
<1>2. /\ IsUs(u) /\ u.blk = opn[o].blk /\ u.wl = opn[o].wl /\ u.ers = FF16 /\ u.nRun = 0
  BY DEF IsUs, UsFields
<1> HIDE DEF u
<1>3. opn[o].wl \in Nat /\ (opn[o].wl < NUM_WL => opn[o].blk \in UBlk)
  BY DEF AddrInv, IsNext
<1>4. FF16 \in Nat
  BY DEF FF16
<1>5. Under["Meta"] = {}
  BY NoUnder, KeysDiffer
<1>6. u.blk \in UBlk \/ u.wl >= NUM_WL
  BY <1>2, <1>3, SizeAssumption
<1>7. ScanOf(u)
  BY <1>2, <1>3, <1>4, <1>5, <1>6 DEF ScanOf
<1>. QED
  BY <1>1, <1>2, <1>7, ScanGoesOn

LEMMA InScan ==
  ASSUME RestInv, NEW o \in OpenType, ScanPhase(o)
  PROVE  /\ ScanState(o) /\ ScanOf(us) /\ us.blk = opn[o].blk
         /\ Opening /\ mt = "Open" /\ IoTypes /\ AddrInv
<1>1. ScanState(o) /\ mt = "Open"
  BY DEF RestInv, MetaInv, ScanInv, ScanPhase, Phase
<1>. QED
  BY <1>1 DEF ScanState, ScanOf, RestInv, Opening

LEMMA ScanStays ==
  ASSUME NEW o \in OpenType, ScanPhase(o), UNCHANGED <<mt, os>>, ScanState(o)'
  PROVE  MetaInv'
  BY DEF ScanPhase, Phase, MetaInv, ReadInv, ScanInv, SaveInv, Reading

LEMMA MtLoadDoneKeeps ==
  ASSUME MapInv, RestInv, pwr, MetaOnly, MtLoadDone
  PROVE  RestInv'
<1>1. /\ Phase("MtLoad") /\ mt' = mt /\ os.dn = NUM_MAP_SLICE
      /\ jnl' = EmptyJnl /\ os' = [OsIdle EXCEPT !.step = "GcScan"] /\ ScanStart("GC")
      /\ UNCHANGED <<die, done, opn, mctx>>
  BY DEF MtLoadDone, JnlAfterLoad
<1>2. "MtLoad" \in ReadSteps /\ "MtLoad" # "BlkScan" /\ "MtLoad" # "PageScan" /\ "GC" \in OpenType
  BY DEF ReadSteps, OpenType
<1>3. ReadState /\ mt = "Open" /\ os.step = "MtLoad" /\ Opening /\ AddrInv /\ IoTypes
  BY <1>1, <1>2, InPhase
<1>4. os.iss <= os.dn
  BY <1>1, <1>2, <1>3 DEF ReadState, Total, Phase
<1>5. Cnts("Meta", 0, 0, 0)
  BY <1>1, <1>2, <1>4, PhaseOver
<1>6. IoTypes' /\ (\A j \in CbKey \ {"Meta"} : SameFor(j)) /\ ScanState("GC")'
  BY <1>1, <1>2, <1>3, <1>5, ScanStarts
<1>7. os'.step = "GcScan"
  BY <1>1 DEF OsIdle
<1>8. MetaInv'
  BY <1>1, <1>3, <1>6, <1>7 DEF MetaInv, ReadInv, ScanInv, SaveInv, Reading, Phase
<1>9. GoodEnts(jnl'.ent)
  BY <1>1, NoEnts DEF EmptyJnl
<1>10. AddrInv'
  BY <1>1, <1>3, <1>9 DEF AddrInv, MetaOnly, gcVars, reqVars
<1>. QED
  BY <1>3, <1>6, <1>8, <1>10, OpenFrame

LEMMA ScanPopKeeps ==
  ASSUME MapInv, RestInv, pwr, MetaOnly, NEW o \in OpenType, ScanPop(o)
  PROVE  RestInv'
<1> DEFINE c == DoneHead("Meta")
           e == IF IsErased(c.pg) /\ us.ers = FF16 THEN c.wl ELSE us.ers
<1>1. /\ ScanPhase(o) /\ HasDone("Meta") /\ PopDone("Meta")
      /\ us' = [us EXCEPT !.nRun = @ - 1, !.ers = e]
      /\ UNCHANGED <<die, nq, opn, mctx, mt, os>>
  BY DEF ScanPop
<1>2. /\ ScanState(o) /\ ScanOf(us) /\ us.blk = opn[o].blk
      /\ Opening /\ mt = "Open" /\ IoTypes /\ AddrInv
  BY <1>1, InScan
<1>3. /\ IsUs(us) /\ us.nRun \in 0 .. 2 /\ us.wl \in Nat /\ us.ers \in Nat /\ us.nRun \in Nat
      /\ Cnts("Meta", us.nRun, 0, 0)
  BY <1>2 DEF ScanOf
<1>4. /\ IoTypes' /\ \A j \in CbKey \ {"Meta"} : SameFor(j)
      /\ us.nRun > 0 /\ CntsNext("Meta", us.nRun - 1, 0, 0)
      /\ Under'["Meta"] \subseteq Under["Meta"]
      /\ c \in Under["Meta"]
  BY <1>1, <1>2, <1>3, ReadPopped
<1>5. c.blk = us.blk /\ c.wl \in WL /\ us.blk \in UBlk
  BY <1>2, <1>3, <1>4 DEF ScanOf
<1>6. c.wl \in Nat
  BY <1>5, SizeAssumption DEF WL
<1>7. e \in Nat
  BY <1>3, <1>6
<1>8. GoodEnts(jnl'.ent)
  <2>1. CASE jnl' = jnl
    BY <1>2, <2>1 DEF AddrInv
  <2>2. CASE MetaUpdate(c.pg.lpn, VAddr(c.blk, c.wl), o)
    <3>1. VAddr(c.blk, c.wl).blk \in UBlk /\ VAddr(c.blk, c.wl).wl \in Nat
      BY <1>5, <1>6 DEF VAddr
    <3>. QED
      BY <1>2, <2>2, <3>1, UpdateKeepsEnts DEF AddrInv
  <2>. QED
    BY <2>1, <2>2 DEF ScanPop
<1> HIDE DEF e, c
<1>9. /\ IsUs(us') /\ us'.blk = us.blk /\ us'.wl = us.wl /\ us'.nRun = us.nRun - 1
      /\ us'.ers = e
  <2>1. IsUs(us')
    BY <1>1, <1>3 DEF IsUs
  <2>. QED
    BY <1>1, <1>3, <2>1 DEF IsUs, UsFields
<1>10. Cnts("Meta", us.nRun, 0, 0)'
  BY <1>4, <1>9 DEF Cnts, CntsNext
<1>11. us'.nRun \in 0 .. 2 /\ us'.wl \in Nat /\ us'.ers \in Nat /\ us'.blk \in UBlk
       /\ us'.blk = opn'[o].blk
  BY <1>1, <1>2, <1>3, <1>4, <1>5, <1>7, <1>9
<1>12. \A x \in Under'["Meta"] : x.blk = us'.blk /\ x.wl \in WL
  BY <1>2, <1>4, <1>9 DEF ScanOf
<1>13. ScanState(o)'
  BY <1>9, <1>10, <1>11, <1>12 DEF ScanState
<1>14. MetaInv'
  BY <1>1, <1>13, ScanStays
<1>15. AddrInv'
  BY <1>1, <1>2, <1>8 DEF AddrInv, MetaOnly, gcVars, reqVars
<1>. QED
  BY <1>2, <1>4, <1>14, <1>15, OpenFrame

LEMMA ScanReturnKeeps ==
  ASSUME MapInv, RestInv, pwr, MetaOnly, NEW o \in OpenType, ScanReturn(o)
  PROVE  RestInv'
<1> USE DEF mapVars, jnlVars
<1>1. /\ ScanPhase(o) /\ us' = ScanIssued(us) /\ Issue(ScanReads(us))
      /\ UNCHANGED <<die, done, opn, jnl, mctx, mt, os>>
  BY DEF ScanReturn
<1>2. ScanOf(us) /\ us.blk = opn[o].blk /\ Opening /\ IoTypes
  BY <1>1, InScan
<1>3. us.blk = opn'[o].blk
  BY <1>1, <1>2
<1>4. IoTypes' /\ (\A j \in CbKey \ {"Meta"} : SameFor(j)) /\ ScanState(o)'
  BY <1>1, <1>2, <1>3, ScanGoesOn
<1>5. MetaInv'
  BY <1>1, <1>4, ScanStays
<1>6. AddrInv'
  BY <1>1, AddrFrame DEF RestInv, MetaOnly, gcVars, reqVars
<1>. QED
  BY <1>2, <1>4, <1>5, <1>6, OpenFrame

LEMMA ScanOverKeeps ==
  ASSUME RestInv, NEW o \in OpenType, ScanOver(o)
  PROVE  /\ Cnts("Meta", 0, 0, 0) /\ Opening /\ mt = "Open" /\ IoTypes /\ AddrInv
         /\ opn' = [u \in OpenType |-> opn'[u]] /\ \A u \in OpenType : IsNext(opn'[u])
         /\ \A u \in OpenType \ {o} : opn'[u] = opn[u]
<1>1. ScanPhase(o) /\ us.nRun + ScanIssues(us) = 0 /\ ScanEnd(o)
  BY DEF ScanOver
<1>2. /\ ScanOf(us) /\ us.blk = opn[o].blk /\ Opening /\ mt = "Open" /\ IoTypes /\ AddrInv
  BY <1>1, InScan
<1>3. us.nRun = 0
  BY <1>1, <1>2, ScanIssuesIs DEF ScanOf
<1>4. Cnts("Meta", 0, 0, 0)
  BY <1>2, <1>3 DEF ScanOf
<1> DEFINE w == IF us.ers # FF16 THEN us.ers ELSE NUM_WL
<1>5. w \in Nat /\ (w < NUM_WL => us.blk \in UBlk)
  BY <1>2, SizeAssumption DEF ScanOf
<1>6. opn' = [opn EXCEPT ![o].wl = w]
  BY <1>1 DEF ScanEnd
<1> HIDE DEF w
<1>7. opn = [u \in OpenType |-> opn[u]] /\ opn[o] = [blk |-> opn[o].blk, wl |-> opn[o].wl]
      /\ \A u \in OpenType : IsNext(opn[u])
  BY <1>2 DEF AddrInv, IsNext, VAddr
<1>8. /\ opn' = [u \in OpenType |-> opn'[u]]
      /\ \A u \in OpenType \ {o} : opn'[u] = opn[u]
      /\ opn'[o] = [opn[o] EXCEPT !.wl = w]
  BY <1>6, <1>7
<1>9. opn'[o] = [blk |-> opn[o].blk, wl |-> w]
  BY <1>7, <1>8
<1>10. IsNext(opn'[o])
  BY <1>2, <1>5, <1>9 DEF IsNext, VAddr
<1>. QED
  BY <1>2, <1>4, <1>7, <1>8, <1>10

LEMMA GcScanDoneKeeps ==
  ASSUME MapInv, RestInv, pwr, MetaOnly, GcScanDone
  PROVE  RestInv'
<1> USE DEF jnlVars
<1>1. /\ ScanOver("GC") /\ os' = [OsIdle EXCEPT !.step = "UserScan"] /\ ScanStart("USER")
      /\ UNCHANGED <<die, done, jnl, mctx, mt>>
  BY DEF GcScanDone
<1>2. "GC" \in OpenType /\ "USER" \in OpenType \ {"GC"}
  BY DEF OpenType
<1>3. /\ Cnts("Meta", 0, 0, 0) /\ Opening /\ mt = "Open" /\ IoTypes /\ AddrInv
      /\ opn' = [u \in OpenType |-> opn'[u]] /\ \A u \in OpenType : IsNext(opn'[u])
      /\ opn'["USER"] = opn["USER"]
  BY <1>1, <1>2, ScanOverKeeps
<1>4. IoTypes' /\ (\A j \in CbKey \ {"Meta"} : SameFor(j)) /\ ScanState("USER")'
  BY <1>1, <1>2, <1>3, ScanStarts
<1>5. os'.step = "UserScan"
  BY <1>1 DEF OsIdle
<1>6. MetaInv'
  BY <1>1, <1>3, <1>4, <1>5 DEF MetaInv, ReadInv, ScanInv, SaveInv, Reading, Phase
<1>7. AddrInv'
  BY <1>1, <1>3 DEF AddrInv, MetaOnly, gcVars, reqVars
<1>. QED
  BY <1>3, <1>4, <1>6, <1>7, OpenFrame

LEMMA UserScanDoneKeeps ==
  ASSUME MapInv, RestInv, pwr, MetaOnly, UserScanDone
  PROVE  RestInv'
<1> USE DEF jnlVars
<1>1. /\ ScanOver("USER") /\ mt' = "Ready" /\ UNCHANGED <<ioVars, jnl, mctx>>
  BY DEF UserScanDone
<1>2. "USER" \in OpenType
  BY DEF OpenType
<1>3. /\ Cnts("Meta", 0, 0, 0) /\ Opening /\ IoTypes /\ AddrInv
      /\ opn' = [u \in OpenType |-> opn'[u]] /\ \A u \in OpenType : IsNext(opn'[u])
  BY <1>1, <1>2, ScanOverKeeps
<1>4. IoTypes' /\ Cnt' = Cnt /\ \A j \in CbKey : SameFor(j)
  BY <1>1, <1>3, SameIo, QuietFor
<1>5. Cnts("Meta", 0, 0, 0)'
  BY <1>3, <1>4 DEF Cnts
<1>6. MetaInv'
  BY <1>1, <1>5 DEF MetaInv, ReadInv, ScanInv, SaveInv, Reading, Phase
<1>7. AddrInv'
  BY <1>1, <1>3 DEF AddrInv, MetaOnly, gcVars, reqVars
<1>. QED
  BY <1>3, <1>4, <1>6, <1>7, OpenFrame

LEMMA OpenKeeps ==
  ASSUME MapInv, RestInv, pwr, MetaOnly, MetaOpen
  PROVE  RestInv'
<1>1. CASE MetaInit \/ BlkScanIssue \/ BlkScanPop \/ BlkScanReturn \/ MetaFormat
  BY <1>1, MetaInitKeeps, BlkScanIssueKeeps, BlkScanPopKeeps, BlkScanReturnKeeps,
     MetaFormatKeeps
<1>2. CASE BlkScanDone \/ PageScanPop \/ PageScanReturn \/ PageScanDone
  BY <1>2, BlkScanDoneKeeps, PageScanPopKeeps, PageScanReturnKeeps, PageScanDoneKeeps
<1>3. CASE MtLoadPop \/ MtLoadReturn \/ MtLoadDone
  BY <1>3, MtLoadPopKeeps, MtLoadReturnKeeps, MtLoadDoneKeeps
<1>4. CASE \E o \in OpenType : ScanPop(o) \/ ScanReturn(o)
  BY <1>4, ScanPopKeeps, ScanReturnKeeps
<1>5. CASE GcScanDone \/ UserScanDone
  BY <1>5, GcScanDoneKeeps, UserScanDoneKeeps
<1>. QED
  BY <1>1, <1>2, <1>3, <1>4, <1>5 DEF MetaOpen

-----------------------------------------------------------------------------
(* The other steps, and the theorems.                                      *)

\* A step of the device, the host or the scheduler: no state of REQ, GC or
\* META changes.
LEMMA OthersKeep ==
  ASSUME RestInv, pwr, pwr', IoTypes', \A j \in CbKey : SameFor(j),
         UNCHANGED <<mapVars, jnlVars, mctx, mt, openVars, gcVars>>,
         UNCHANGED <<reqSt, step, req, waitAge>>
  PROVE  RestInv'
<1> USE DEF mapVars, jnlVars, openVars, gcVars
<1>1. UNCHANGED <<mt, os, us, gcSt, mv, erb, jnl, opn, mctx, pool, gbRequest>>
  OBVIOUS
<1>2. DownInv'
  BY <1>1, DownFrame, SameNone, KeysDiffer DEF RestInv, SameFor, SameCnt
<1>3. waitAge' \in Nat
  BY DEF RestInv, AddrInv
<1>. QED
  BY <1>1, <1>2, <1>3, ReqFrame

LEMMA StutterKeeps ==
  ASSUME RestInv, UNCHANGED vars
  PROVE  RestInv'
<1> USE DEF vars, mapVars, jnlVars, openVars, gcVars, reqVars, hostVars
<1>1. /\ UNCHANGED <<ioVars, mt, os, us, gcSt, mv, erb, jnl, opn, mctx, pool, gbRequest>>
      /\ UNCHANGED <<reqSt, step, req, waitAge, pwr, rsp>>
  OBVIOUS
<1>2. IoTypes' /\ Cnt' = Cnt /\ \A j \in CbKey : SameFor(j)
  BY <1>1, SameIo, QuietFor DEF RestInv
<1>3. \A k \in CbKey : NoneOf(k)' <=> NoneOf(k)
  BY <1>2 DEF NoneOf
<1>4. DownInv'
  <2>1. Outstanding' = Outstanding
    BY <1>1 DEF Outstanding, ioVars
  <2> HIDE DEF Outstanding, NoneOf
  <2>. QED
    BY <1>1, <1>3, <2>1, KeysDiffer DEF RestInv, DownInv, Downing
<1>5. waitAge' \in Nat
  BY <1>1 DEF RestInv, AddrInv
<1>. QED
  BY <1>1, <1>2, <1>4, <1>5, ReqFrame

\* Every module as its initialisation leaves it, with nothing under way.
Rested ==
  /\ IoTypes /\ \A k \in CbKey : NoneOf(k)
  /\ GoodEnts(jnl.ent)
  /\ opn = [o \in OpenType |-> FF32]
  /\ mctx = [bo |-> 0, wl |-> 0, slice |-> 0, age |-> 0]
  /\ mt = "Init" /\ gcSt = "WaitOpen" /\ mv = MvIdle /\ pool = <<>>
  /\ erb = [o \in OpenType |-> ErbIdle]
  /\ reqSt = "WaitOpen" /\ waitAge = 0 /\ pwr

LEMMA RestedIsRest == Rested => RestInv
<1> SUFFICES ASSUME Rested PROVE RestInv
  OBVIOUS
<1>1. \A k \in CbKey : Cnts(k, 0, 0, 0)
  BY KeysDiffer DEF Rested, NoneOf, Cnts
<1>2. AddrInv
  <2>1. FF32 = VAddr(FF32.blk, FF32.wl) /\ FF32.wl \in Nat /\ ~(FF32.wl < NUM_WL)
    BY SizeAssumption DEF FF32, VAddr
  <2>2. IsNext(FF32)
    BY <2>1 DEF IsNext
  <2>3. IsCtx(mctx) /\ waitAge \in Nat
    BY DEF Rested, IsCtx
  <2>4. IsErb(ErbIdle) /\ ErbIdle.step = "Init"
    BY DEF IsErb, ErbIdle
  <2>5. IsSeq(pool) /\ Elems(pool) \subseteq UBlk
    BY NoneFacts DEF Rested
  <2>. QED
    BY <2>2, <2>3, <2>4, <2>5 DEF AddrInv, Rested
<1>3. MetaInv
  BY <1>1, KeysDiffer DEF Rested, MetaInv, ReadInv, ScanInv, SaveInv, Reading, Phase
<1>4. ErbInv /\ MigInv
  <2>1. \A o \in OpenType : erb[o].step = "Init"
    BY DEF Rested, ErbIdle
  <2>2. "USER" \in OpenType /\ "GC" \in OpenType
    BY DEF OpenType
  <2>3. IsMv(mv)
    BY MoveFields DEF Rested
  <2>. QED
    BY <1>1, <2>1, <2>2, <2>3, KeysDiffer DEF Rested, ErbInv, MigInv
<1>5. DownInv
  BY DEF Rested, DownInv, Downing
<1>. QED
  BY <1>2, <1>3, <1>4, <1>5 DEF RestInv, Rested

LEMMA InitIsRested == Init => Rested
<1> SUFFICES ASSUME Init PROVE Rested
  OBVIOUS
<1>1. nq = <<>> /\ \A k \in CbKey : done[k] = <<>>
  BY DEF Init, IoInit
<1>2. IsSeq(<<>>) /\ Elems(<<>>) = {} /\ Len(<<>>) = 0
  BY NoneFacts
<1>3. IoTypes
  <2>1. GoodCmds(<<>>)
    BY <1>2 DEF GoodCmds
  <2>2. MetaPg(Erased)
    BY DEF MetaPg, IsErased, Erased
  <2>3. MBlk \subseteq Blk
    BY SizeAssumption DEF MBlk, Blk
  <2>4. /\ done = [k \in CbKey |-> <<>>]
        /\ die = [b \in Blk |-> [w \in WL |-> Erased]]
    BY DEF Init, IoInit
  <2>. QED
    BY <1>1, <1>2, <2>1, <2>2, <2>3, <2>4 DEF IoTypes
<1>4. \A k \in CbKey : NoneOf(k)
  <2>1. Len(nq) = 0 /\ \A k \in CbKey : Len(done[k]) = 0
    BY <1>1, <1>2
  <2>2. Outstanding = 0
    <3>1. /\ Len(done["User"]) = 0 /\ Len(done["Meta"]) = 0
          /\ Len(done["Mig"]) = 0 /\ Len(done["UErs"]) = 0
      BY <2>1 DEF CbKey
    <3>2. Outstanding = 0 + 0 + 0 + 0 + 0
      BY <2>1, <3>1, Zenon DEF Outstanding
    <3>. QED
      BY <3>2
  <2>. QED
    BY <1>3, <2>2, NoneUnder
<1>5. GoodEnts(jnl.ent)
  BY NoEnts DEF Init, EmptyJnl
<1>. QED
  BY <1>3, <1>4, <1>5 DEF Init, GcInit, ReqInit, Rested

\* The power goes on again: nothing was under way when it went off.
LEMMA PowerCycleRests ==
  ASSUME RestInv, PowerCycle
  PROVE  Rested' /\ RestInv'
<1>1. IoTypes /\ Outstanding = 0
  BY DEF RestInv, DownInv, PowerCycle
<1>2. \A k \in CbKey : NoneOf(k)
  BY <1>1, NoneUnder
<1>3. nq = <<>>
  <2>1. \A k \in CbKey : Under[k] = {}
    BY <1>1, <1>2, NoUnder, KeysDiffer DEF NoneOf, Cnts
  <2>2. \A c \in Elems(nq) : c.cb \in CbKey /\ c \in Under[c.cb]
    BY <1>1 DEF IoTypes, GoodCmds, GoodCmd, Under
  <2>3. Elems(nq) = {} /\ nq \in Seq(Elems(nq))
    BY <1>1, <2>1, <2>2 DEF IoTypes, GoodCmds, IsSeq
  <2>. QED
    BY <2>3
<1>4. UNCHANGED ioVars
  BY <1>3 DEF PowerCycle, ioVars
<1>5. IoTypes' /\ Cnt' = Cnt
  BY <1>1, <1>4, SameIo
<1>6. \A k \in CbKey : NoneOf(k)'
  BY <1>2, <1>5 DEF NoneOf
<1>7. GoodEnts(jnl'.ent)
  BY DEF PowerCycle, RestInv, AddrInv
<1>8. Rested'
  BY <1>5, <1>6, <1>7 DEF PowerCycle, Rested
<1>9. RestInv'
  BY <1>8, RestedIsRest, PTL
<1>. QED
  BY <1>8, <1>9

LEMMA RestInductive ==
  ASSUME MapInv, RestInv, [Next]_vars
  PROVE  RestInv'
<1>1. CASE TaskReq
  BY <1>1, ReqKeeps DEF TaskReq
<1>2. CASE TaskResp
  BY <1>2, RespKeeps DEF TaskResp
<1>3. CASE TaskGc
  BY <1>3, GcKeeps DEF TaskGc, reqVars, hostVars
<1>4. CASE TaskMeta
  <2>1. pwr /\ MetaOnly /\ ((MetaSave /\ UNCHANGED openVars) \/ MetaOpen)
    BY <1>4 DEF TaskMeta, MetaOnly
  <2>. QED
    BY <2>1, SaveKeeps, OpenKeeps
<1>5. CASE SchedRound
  <2>1. pwr /\ UNCHANGED otherThanSched
    BY <1>5 DEF SchedRound, RoundWith
  <2>2. IoTypes' /\ \A j \in CbKey : SameFor(j)
    BY <2>1, QuietFor DEF RestInv, otherThanSched
  <2>. QED
    BY <2>1, <2>2, OthersKeep DEF otherThanSched, reqVars, hostVars
<1>6. CASE Nand
  <2>1. IoTypes' /\ \A j \in CbKey : SameFor(j)
    BY <1>6, NandKeepsIo DEF RestInv, Nand
  <2>. QED
    BY <1>6, <2>1, OthersKeep DEF Nand, reqVars, hostVars
<1>7. CASE Host
  <2>1. PICK r : Submit(r)
    BY <1>7 DEF Host, HostWrite, HostRead, HostShutdown
  <2>2. IoTypes' /\ \A j \in CbKey : SameFor(j)
    BY <2>1, QuietFor DEF RestInv, Submit
  <2>. QED
    BY <2>1, <2>2, OthersKeep DEF Submit
<1>8. CASE PowerCycle
  BY <1>8, PowerCycleRests
<1>9. CASE UNCHANGED vars
  BY <1>9, StutterKeeps
<1>. QED
  BY <1>1, <1>2, <1>3, <1>4, <1>5, <1>6, <1>7, <1>8, <1>9 DEF Next, Task

\* The inductive invariant.
IInv == MapInv /\ RestInv

LEMMA IInvHolds == Spec => []IInv
<1>1. Init => IInv
  <2>1. Init => MapInv
    BY DEF Init, GcInit, ReqInit, MapInv, Opening, Phase, Loaded, Scanning, AllUnmapped, OsIdle
  <2>2. Init => RestInv
    BY InitIsRested, RestedIsRest
  <2>. QED
    BY <2>1, <2>2 DEF IInv
<1>2. IInv /\ [Next]_vars => IInv'
  BY MapInductive, RestInductive DEF IInv
<1>. QED
  BY <1>1, <1>2, PTL DEF Spec

(* When the host may cut the power no NAND command is under way, whatever  *)
(* REQ, GC and META were doing when the shutdown came                      *)
(* (req_Shutdown_SM, page_req.cpp:187,211).                                *)
THEOREM QuietAtPowerOffHolds == Spec => []QuietAtPowerOff
<1>1. IInv => QuietAtPowerOff
  BY DEF IInv, RestInv, DownInv, QuietAtPowerOff
<1>. QED
  BY <1>1, IInvHolds, PTL

(* A safe shutdown answers only when its save is done, so no request for a *)
(* save is left over that META would take up after the restart.            *)
THEOREM NoStaleSaveHolds == Spec => []NoStaleSave
<1>1. IInv => NoStaleSave
  BY DEF IInv, RestInv, DownInv, NoStaleSave
<1>. QED
  BY <1>1, IInvHolds, PTL

(* Who waits for an erase has exactly that command to collect, so popping  *)
(* without looking (GC_BlkErase_SM, page_gc.cpp:424) finds the erase.      *)
THEOREM ErasePopsEraseHolds == Spec => []ErasePopsErase
<1>1. IInv => ErasePopsErase
  <2> SUFFICES ASSUME IInv, NEW o \in OpenType, erb[o].step = "WaitErb",
                      ~(o = "GC" /\ gcSt = "Stop")
               PROVE  /\ CmdsOf(ErbKey(o), "ERB") = 1
                      /\ CmdsOf(ErbKey(o), "READ") = 0 /\ CmdsOf(ErbKey(o), "PGM") = 0
    BY DEF ErasePopsErase
  <2>1. \A k \in CbKey, x \in Ops : CmdsOf(k, x) = Cnt[k][x]
    BY DEF Cnt
  <2>2. Cnts(ErbKey(o), 0, 0, 1) /\ ErbKey(o) \in CbKey
    <3>1. CASE o = "USER"
      BY <3>1 DEF IInv, RestInv, ErbInv, ErbKey, CbKey
    <3>2. CASE o = "GC"
      BY <3>2 DEF IInv, RestInv, ErbInv, MigInv, ErbKey, CbKey
    <3>. QED
      BY <3>1, <3>2 DEF OpenType
  <2> HIDE DEF Cnt
  <2>. QED
    BY <2>1, <2>2, KeysDiffer DEF Cnts
<1>. QED
  BY <1>1, IInvHolds, PTL

(* The counters of a move are the commands GC has under way, and reads are *)
(* never more than the room left in the destination (gc_Move_SM).          *)
THEOREM MoveAccountsHolds == Spec => []MoveAccounts
<1>1. IInv => MoveAccounts
  <2>1. \A k \in CbKey, x \in Ops : CmdsOf(k, x) = Cnt[k][x]
    BY DEF Cnt
  <2> HIDE DEF Cnt
  <2>. QED
    BY <2>1, KeysDiffer DEF IInv, RestInv, MigInv, MoveAccounts, Cnts
<1>. QED
  BY <1>1, IInvHolds, PTL

-----------------------------------------------------------------------------
(* No task is forgotten.                                                   *)

\* A turn of task t, or a part of one, after which t can run again.
TurnEnds(t) ==
  /\ mid' => cur' = t /\ t \in run'
  /\ run \ {t} \subseteq run' /\ rdy \subseteq rdy'
  /\ \A u \in TaskId \ {t} : wait'[u] = wait[u]
  /\ Armed(t)'

LEMMA StayEnds ==
  ASSUME NEW t \in TaskId, Turn(t), NEW trig, Stay(t, trig)
  PROVE  TurnEnds(t)
  BY DEF Turn, Stay, TurnEnds, Armed

LEMMA WaitEnds ==
  ASSUME SchedTypeOK, NEW t \in TaskId, NEW w, w # {}, NEW trig, WaitFor(t, w, trig)
  PROVE  TurnEnds(t)
  BY DEF SchedTypeOK, WaitFor, Finish, TurnEnds, Armed

LEMMA YieldEnds ==
  ASSUME SchedTypeOK, NEW t \in TaskId, NEW trig, Yield(t, trig)
  PROVE  TurnEnds(t)
  BY DEF SchedTypeOK, Yield, Finish, TurnEnds, Armed

LEMMA WaitAndYieldEnds ==
  ASSUME SchedTypeOK, NEW t \in TaskId, NEW w, Finish(t, w, TRUE, {})
  PROVE  TurnEnds(t)
  BY DEF SchedTypeOK, Finish, TurnEnds, Armed

LEMMA ErbStartEnds ==
  ASSUME SchedTypeOK, NEW o \in OpenType, NEW b, NEW trig, ErbStart(o, b, trig)
  PROVE  TurnEnds(TaskOf(o))
<1>1. TaskOf(o) \in TaskId
  BY TaskIds DEF TaskOf
<1>. QED
  BY <1>1, WaitEnds DEF ErbStart

LEMMA ErbGoesOnEnds ==
  ASSUME SchedTypeOK, NEW o \in OpenType, ErbGoesOn(o)
  PROVE  TurnEnds(TaskOf(o))
<1>1. TaskOf(o) \in TaskId
  BY TaskIds DEF TaskOf
<1>2. ASSUME NEW trig, ErbJournal(o, trig)
      PROVE  TurnEnds(TaskOf(o))
  BY <1>1, <1>2, WaitEnds DEF ErbJournal
<1>3. CASE ErbErased(o)
  BY <1>2, <1>3 DEF ErbErased
<1>4. CASE ErbRetry(o)
  BY <1>2, <1>4 DEF ErbRetry
<1>5. CASE ErbWait(o)
  BY <1>1, <1>5, WaitEnds DEF ErbWait
<1>. QED
  BY <1>3, <1>4, <1>5 DEF ErbGoesOn

\* A turn of REQ with a request.
LEMMA ReqStepEnds ==
  ASSUME SchedTypeOK, NEW r, NEW at, ReqStep(r, at)
  PROVE  TurnEnds(TID_REQ)
<1>. USE TaskIds
<1>0. TaskOf("USER") = TID_REQ /\ "USER" \in OpenType
  BY DEF TaskOf, OpenType
<1>1. CASE ReqReadMapped(r, at)
  BY <1>1, YieldEnds DEF ReqReadMapped
<1>2. CASE ReqReadUnmapped(r, at)
  BY <1>2, YieldEnds DEF ReqReadUnmapped
<1>3. CASE ReqNeedsBlk(r, at)
  BY <1>0, <1>3, WaitEnds, ErbStartEnds DEF ReqNeedsBlk
<1>4. CASE ReqErasing(r, at)
  BY <1>0, <1>4, ErbGoesOnEnds DEF ReqErasing
<1>5. CASE ReqNewBlk(r, at)
  BY <1>5, YieldEnds DEF ReqNewBlk
<1>6. CASE ReqProgram(r, at)
  BY <1>6, YieldEnds DEF ReqProgram
<1>7. CASE ReqJnlBusy(r, at)
  BY <1>7, WaitEnds DEF ReqJnlBusy
<1>8. CASE ShutdownWaitIo(r, at)
  BY <1>8, WaitEnds DEF ShutdownWaitIo
<1>9. CASE ShutdownSudden(r, at)
  BY <1>9, YieldEnds DEF ShutdownSudden
<1>10. CASE ShutdownSave(r, at)
  BY <1>10, WaitEnds DEF ShutdownSave
<1>11. CASE ShutdownSaving(r, at)
  BY <1>11, WaitEnds DEF ShutdownSaving
<1>12. CASE ShutdownSaved(r, at)
  BY <1>12, YieldEnds DEF ShutdownSaved
<1>. QED
  BY <1>1, <1>2, <1>3, <1>4, <1>5, <1>6, <1>7, <1>8, <1>9, <1>10, <1>11, <1>12 DEF ReqStep

\* Any turn of REQ or REQ_RESP.
LEMMA ReqRunEnds ==
  ASSUME SchedTypeOK
  PROVE  /\ Req_Run => TurnEnds(TID_REQ)
         /\ ReqResp_Run => TurnEnds(TID_REQ_RESP)
<1>. USE TaskIds
<1>1. ASSUME Req_Run PROVE TurnEnds(TID_REQ)
  <2>1. CASE ReqWaitOpen
    BY <2>1, WaitEnds DEF ReqWaitOpen
  <2>2. CASE ReqOpened
    BY <2>2, YieldEnds DEF ReqOpened
  <2>3. CASE ReqIdle
    BY <2>3, WaitEnds DEF ReqIdle
  <2>4. CASE \E r, at : ReqStep(r, at)
    BY <2>4, ReqStepEnds
  <2>. QED
    BY <1>1, <2>1, <2>2, <2>3, <2>4 DEF Req_Run
<1>2. ASSUME ReqResp_Run PROVE TurnEnds(TID_REQ_RESP)
  <2>1. CASE RespWait
    BY <2>1, WaitEnds DEF RespWait
  <2>2. CASE RespDone
    BY <2>2, YieldEnds DEF RespDone
  <2>. QED
    BY <1>2, <2>1, <2>2 DEF ReqResp_Run
<1>. QED
  BY <1>1, <1>2

\* A move that has nothing to wait for has something to do: without a command
\* under way, and with room in its destination, it may read.
LEMMA MoveWaits ==
  ASSUME RestInv, GcMoveWait
  PROVE  NandWait # {}
<1>1. SUFFICES ASSUME ~UnderWay PROVE FALSE
  BY DEF NandWait
<1>2. /\ gcSt = "Move" /\ ~DstFull
      /\ WantsRead => mv.rd > 0 \/ UnderWay
  BY DEF GcMoveWait, Collected, UnderWay
<1>3. /\ mv.dwl \in Nat /\ mv.data = mv.dwl + mv.rd /\ mv.data <= NUM_WL
  BY <1>2, MoveFacts DEF MoveAcc
<1>4. mv.rd \in Nat /\ mv.pg \in Nat
  BY <1>2, MoveFacts DEF MoveAcc
<1>5. mv.rd = 0 /\ mv.pg = 0
  BY <1>1, <1>4 DEF UnderWay
<1>6. mv.dwl < NUM_WL
  BY <1>2, <1>3, <1>5, SizeAssumption DEF DstFull
<1>7. WantsRead
  BY <1>3, <1>5, <1>6, GcAssumption DEF WantsRead
<1>. QED
  BY <1>1, <1>2, <1>5, <1>7 DEF UnderWay

\* A turn of GC, or a part of one.
LEMMA GcEnds ==
  ASSUME SchedTypeOK, RestInv, Turn(TID_GC), GC_Run
  PROVE  TurnEnds(TID_GC)
<1>. USE TaskIds
<1>0. TaskOf("GC") = TID_GC /\ "GC" \in OpenType
  BY DEF TaskOf, OpenType
<1>1. CASE GcWaitOpen
  BY <1>1, WaitEnds DEF GcWaitOpen
<1>2. CASE GcResume
  BY <1>2, StayEnds DEF GcResume
<1>3. CASE GcOpened
  BY <1>3, YieldEnds DEF GcOpened
<1>4. CASE GcWaitReq
  BY <1>4, WaitEnds, YieldEnds DEF GcWaitReq
<1>5. CASE GcGetDst
  BY <1>0, <1>5, ErbStartEnds DEF GcGetDst
<1>6. CASE GcErsDst
  BY <1>0, <1>6, ErbGoesOnEnds DEF GcErsDst
<1>7. CASE GcErsDstDone
  BY <1>7, StayEnds DEF GcErsDstDone
<1>8. CASE GcPgmDone
  BY <1>8, StayEnds DEF GcPgmDone
<1>9. CASE GcReadMoved
  BY <1>9, StayEnds DEF GcReadMoved
<1>10. CASE GcReadDropped
  BY <1>10, StayEnds DEF GcReadDropped
<1>11. CASE GcDstFull
  BY <1>11, YieldEnds DEF GcDstFull
<1>12. CASE GcNewSrc
  BY <1>12, WaitAndYieldEnds DEF GcNewSrc
<1>13. CASE GcReadNext
  BY <1>13, WaitEnds DEF GcReadNext
<1>14. CASE GcSrcDone
  BY <1>14, YieldEnds DEF GcSrcDone
<1>15. CASE GcMoveWait
  BY <1>15, MoveWaits, WaitEnds DEF GcMoveWait
<1>16. CASE GcStop
  BY <1>16, WaitEnds DEF GcStop
<1>. QED
  BY <1>1, <1>2, <1>3, <1>4, <1>5, <1>6, <1>7, <1>8, <1>9, <1>10, <1>11, <1>12, <1>13,
     <1>14, <1>15, <1>16 DEF GC_Run, GcMove

\* Where META may be left without a wait: both reads of a turn were collected
\* and blocks remain (page_meta.cpp:705).
StuckScan(t) == t = TID_META /\ ScanStranded

\* While a read is under way the block scan waits for it.
LEMMA BlkScanReturns ==
  ASSUME SchedTypeOK, RestInv, BlkScanReturn
  PROVE  TurnEnds(TID_META) \/ ScanStranded
<1>1. os.dn \in Nat /\ os.iss \in Nat /\ os.dn <= os.iss /\ os.dn < NUM_META_BLK
  BY DEF BlkScanReturn, RestInv, MetaInv, ReadInv, ReadState, Reading
<1>2. CASE os.iss > os.dn
  <2>1. WaitFor(TID_META, {"NAND_CMD"}, {})
    BY <1>2 DEF BlkScanReturn
  <2>. QED
    BY <2>1, WaitEnds, TaskIds
<1>3. CASE os.iss = os.dn
  BY <1>1, <1>3 DEF BlkScanReturn, ScanStranded
<1>. QED
  BY <1>1, <1>2, <1>3

LEMMA SaveEnds ==
  ASSUME SchedTypeOK, MetaSave
  PROVE  TurnEnds(TID_META)
<1>. USE TaskIds
<1>1. CASE MetaIdle
  BY <1>1, WaitEnds DEF MetaIdle
<1>2. CASE MetaSaveStart
  BY <1>2, WaitEnds DEF MetaSaveStart
<1>3. CASE MetaSaveWait
  BY <1>3, WaitEnds DEF MetaSaveWait
<1>4. CASE MetaSaveErased
  BY <1>4, WaitEnds DEF MetaSaveErased
<1>5. CASE MetaSaveDone
  BY <1>5, YieldEnds DEF MetaSaveDone
<1>. QED
  BY <1>1, <1>2, <1>3, <1>4, <1>5 DEF MetaSave

LEMMA ScanStartEnds ==
  ASSUME SchedTypeOK, NEW o, ScanStart(o)
  PROVE  TurnEnds(TID_META)
<1>1. WaitFor(TID_META, {"NAND_CMD"}, {}) \/ Yield(TID_META, {})
  BY DEF ScanStart
<1>. QED
  BY <1>1, WaitEnds, YieldEnds, TaskIds

LEMMA OpenStepEnds ==
  ASSUME SchedTypeOK, RestInv, Turn(TID_META), MetaOpen
  PROVE  TurnEnds(TID_META) \/ (ScanStranded /\ BlkScanReturn)
<1>. USE TaskIds
<1>1. CASE MetaInit
  BY <1>1, WaitEnds DEF MetaInit
<1>2. CASE BlkScanIssue
  BY <1>2, StayEnds DEF BlkScanIssue
<1>3. CASE BlkScanPop
  BY <1>3, StayEnds DEF BlkScanPop
<1>4. CASE BlkScanReturn
  BY <1>4, BlkScanReturns
<1>5. CASE MetaFormat
  BY <1>5, YieldEnds DEF MetaFormat
<1>6. CASE BlkScanDone
  BY <1>6, WaitEnds DEF BlkScanDone
<1>7. CASE PageScanPop
  BY <1>7, StayEnds DEF PageScanPop
<1>8. CASE PageScanReturn
  BY <1>8, WaitEnds DEF PageScanReturn
<1>9. CASE PageScanDone
  BY <1>9, WaitEnds DEF PageScanDone
<1>10. CASE MtLoadPop
  BY <1>10, StayEnds DEF MtLoadPop
<1>11. CASE MtLoadReturn
  BY <1>11, WaitEnds DEF MtLoadReturn
<1>12. CASE MtLoadDone
  BY <1>12, ScanStartEnds DEF MtLoadDone
<1>13. CASE \E o \in OpenType : ScanPop(o)
  BY <1>13, StayEnds DEF ScanPop
<1>14. CASE \E o \in OpenType : ScanReturn(o)
  BY <1>14, WaitEnds DEF ScanReturn
<1>15. CASE GcScanDone
  BY <1>15, ScanStartEnds DEF GcScanDone
<1>16. CASE UserScanDone
  BY <1>16, YieldEnds DEF UserScanDone
<1>. QED
  BY <1>1, <1>2, <1>3, <1>4, <1>5, <1>6, <1>7, <1>8, <1>9, <1>10, <1>11, <1>12, <1>13,
     <1>14, <1>15, <1>16 DEF MetaOpen

\* Only META changes its state, until the power goes off and on.
LEMMA OtherSteps ==
  ASSUME [Next]_vars, ~TaskMeta, ~PowerCycle
  PROVE  UNCHANGED <<mt, os, us>>
<1> USE DEF openVars
<1>1. CASE TaskReq
  <2>1. ASSUME NEW r, NEW at, ReqStep(r, at)
        PROVE  UNCHANGED <<mt, os, us>>
    <3>1. CASE ReqReadMapped(r, at) \/ ReqReadUnmapped(r, at) \/ ReqNeedsBlk(r, at)
                 \/ ReqErasing(r, at) \/ ReqNewBlk(r, at) \/ ReqProgram(r, at)
      BY <3>1 DEF otherThanReq, ReqReadMapped, ReqReadUnmapped, ReqNeedsBlk, ReqErasing,
                  ReqNewBlk, ReqProgram
    <3>2. CASE ReqJnlBusy(r, at) \/ ShutdownWaitIo(r, at) \/ ShutdownSudden(r, at)
                 \/ ShutdownSave(r, at) \/ ShutdownSaving(r, at) \/ ShutdownSaved(r, at)
      BY <3>2 DEF otherThanReq, ReqJnlBusy, ShutdownWaitIo, ShutdownSudden, ShutdownSave,
                  ShutdownSaving, ShutdownSaved
    <3>. QED
      BY <2>1, <3>1, <3>2 DEF ReqStep
  <2>. QED
    BY <1>1, <2>1 DEF TaskReq, Req_Run, ReqWaitOpen, ReqOpened, ReqIdle, otherThanReq
<1>2. CASE TaskResp
  BY <1>2 DEF TaskResp, ReqResp_Run, RespWait, RespDone, otherThanReq
<1>3. CASE TaskGc
  BY <1>3 DEF TaskGc, GC_Run, GcMove, otherThanGc, GcWaitOpen, GcResume, GcOpened, GcWaitReq,
     GcGetDst, GcErsDst, GcErsDstDone, GcPgmDone, GcReadMoved, GcReadDropped, GcDstFull,
     GcNewSrc, GcReadNext, GcSrcDone, GcMoveWait, GcStop
<1>4. CASE SchedRound
  BY <1>4 DEF SchedRound, RoundWith, otherThanSched
<1>5. CASE Nand
  BY <1>5 DEF Nand
<1>6. CASE Host
  <2>1. PICK r : Submit(r)
    BY <1>6 DEF Host, HostWrite, HostRead, HostShutdown
  <2>. QED
    BY <2>1 DEF Submit
<1>7. CASE UNCHANGED vars
  BY <1>7 DEF vars
<1>. QED
  BY <1>1, <1>2, <1>3, <1>4, <1>5, <1>6, <1>7 DEF Next, Task

\* A turn of t that ends well forgets no task.
LEMMA TurnForgetsNone ==
  ASSUME NEW t \in TaskId, TurnEnds(t), NEW u \in TaskId, Armed(u)
  PROVE  Armed(u)'
  BY DEF TurnEnds, Armed

\* A turn that goes on is that of task cur.
MidTurn == mid => cur \in run

ArmedInv == MidTurn /\ \A t \in TaskId : Armed(t) \/ StuckScan(t)

LEMMA MidTurnKept ==
  ASSUME SchedTypeOK, RestInv, MidTurn, [Next]_vars
  PROVE  MidTurn'
<1>1. CASE PowerCycle
  BY <1>1 DEF PowerCycle, MidTurn
<1>2. CASE TaskReq \/ TaskResp \/ TaskGc
  BY <1>2, ReqRunEnds, GcEnds DEF TaskReq, TaskResp, TaskGc, TurnEnds, MidTurn
<1>3. CASE TaskMeta
  <2>1. CASE TurnEnds(TID_META)
    BY <2>1 DEF TurnEnds, MidTurn
  <2>2. CASE BlkScanReturn
    BY <2>2 DEF BlkScanReturn, WaitFor, Finish, MidTurn
  <2>. QED
    BY <1>3, <2>1, <2>2, SaveEnds, OpenStepEnds DEF TaskMeta
<1>4. CASE SchedRound
  BY <1>4 DEF SchedRound, RoundWith, Round, MidTurn
<1>5. CASE Nand
  BY <1>5 DEF Nand, NandDone, TrigAsync, MidTurn
<1>6. CASE Host
  <2>1. PICK r : Submit(r)
    BY <1>6 DEF Host, HostWrite, HostRead, HostShutdown
  <2>. QED
    BY <2>1 DEF Submit, TrigAsync, MidTurn
<1>7. CASE UNCHANGED vars
  BY <1>7 DEF vars, schedVars, MidTurn
<1>. QED
  BY <1>1, <1>2, <1>3, <1>4, <1>5, <1>6, <1>7 DEF Next, Task


LEMMA RoundForgetsNone ==
  ASSUME SchedTypeOK, NEW expired, Round(expired), NEW t \in TaskId, Armed(t)
  PROVE  Armed(t)'
  BY DEF Round, Armed, SchedTypeOK

LEMMA ArmedInductive ==
  ASSUME SchedTypeOK, RestInv, ArmedInv, [Next]_vars
  PROVE  ArmedInv'
<1>1. MidTurn'
  BY MidTurnKept DEF ArmedInv
<1> SUFFICES ASSUME NEW t \in TaskId
             PROVE  Armed(t)' \/ StuckScan(t)'
  BY <1>1 DEF ArmedInv
<1>2. CASE PowerCycle
  BY <1>2 DEF PowerCycle, Armed
<1>3. CASE TaskMeta
  <2>1. Turn(TID_META)
    BY <1>3 DEF TaskMeta
  <2>2. CASE TurnEnds(TID_META)
    <3>1. t = TID_META => Armed(t)'
      BY <2>2 DEF TurnEnds
    <3>2. t # TID_META => Armed(t)
      BY DEF ArmedInv, StuckScan
    <3>. QED
      BY <2>2, <3>1, <3>2, TurnForgetsNone, TaskIds
  <2>3. CASE ScanStranded /\ BlkScanReturn
    <3>1. ScanStranded'
      BY <2>3 DEF BlkScanReturn, ScanStranded, Phase, openVars
    <3>2. t = TID_META => StuckScan(t)'
      BY <2>3, <3>1 DEF StuckScan
    <3>3. t # TID_META => Armed(t)'
      BY <2>1, <2>3 DEF BlkScanReturn, WaitFor, Finish, Armed, ArmedInv, StuckScan, SchedTypeOK
    <3>. QED
      BY <3>2, <3>3
  <2>. QED
    BY <1>3, <2>1, <2>2, <2>3, SaveEnds, OpenStepEnds DEF TaskMeta
<1>4. CASE ~TaskMeta /\ ~PowerCycle
  <2>1. StuckScan(t) => StuckScan(t)'
    BY <1>4, OtherSteps DEF StuckScan, ScanStranded, Phase
  <2>2. ASSUME Armed(t) PROVE Armed(t)'
    <3>1. CASE TaskReq \/ TaskResp
      BY <2>2, <3>1, ReqRunEnds, TurnForgetsNone, TaskIds DEF TaskReq, TaskResp
    <3>2. CASE TaskGc
      BY <2>2, <3>2, GcEnds, TurnForgetsNone, TaskIds DEF TaskGc
    <3>3. CASE SchedRound
      BY <2>2, <3>3, RoundForgetsNone DEF SchedRound, RoundWith
    <3>4. CASE Nand
      BY <2>2, <3>4 DEF Nand, NandDone, TrigAsync, Armed
    <3>5. CASE Host
      <4>1. PICK r : Submit(r)
        BY <3>5 DEF Host, HostWrite, HostRead, HostShutdown
      <4>. QED
        BY <2>2, <4>1 DEF Submit, TrigAsync, Armed
    <3>6. CASE UNCHANGED vars
      BY <2>2, <3>6 DEF vars, schedVars, Armed
    <3>. QED
      BY <1>4, <3>1, <3>2, <3>3, <3>4, <3>5, <3>6 DEF Next, Task
  <2>. QED
    BY <2>1, <2>2 DEF ArmedInv
<1>. QED
  BY <1>2, <1>3, <1>4

LEMMA ArmedHolds == Spec => []ArmedInv
<1>1. Init => ArmedInv
  BY DEF Init, SchedInit, ArmedInv, MidTurn, Armed
<1>2. IInv /\ SchedTypeOK /\ ArmedInv /\ [Next]_vars => ArmedInv'
  BY ArmedInductive DEF IInv
<1>. QED
  BY <1>1, <1>2, IInvHolds, SchedTypeCorrect, PTL DEF Spec

(* No task is forgotten: after every turn each task can run, is ready, or  *)
(* waits with a timeout (the assertion of scheduler.cpp:188), in every     *)
(* execution and at any size.  The only exception is META in the block     *)
(* scan, and only if that scan has collected all its reads in one turn and *)
(* blocks are left (page_meta.cpp:705).                                    *)
THEOREM TaskArmedHolds == Spec => []TaskArmed
<1>1. ArmedInv => TaskArmed
  BY DEF ArmedInv, StuckScan, TaskArmed
<1>. QED
  BY <1>1, ArmedHolds, PTL

-----------------------------------------------------------------------------
(* The block scan under the timing of the code.                            *)

\* No turn of META in the block scan finds both of its reads completed.
OneByOne ==
  Turn(TID_META) /\ ~mid /\ Phase("BlkScan") => Len(done["Meta"]) <= 1

\* META is in the middle of a turn.
MetaActs == mid /\ cur = TID_META

\* Between two turns of META a read is under way; in a turn one will be left,
\* or all blocks are read.
ScanWaits ==
  Phase("BlkScan") =>
    IF MetaActs
    THEN \/ os.dn + Len(done["Meta"]) < os.iss
         \/ os.dn + Len(done["Meta"]) = NUM_META_BLK
    ELSE os.iss > os.dn

\* While a turn goes on no other task has one.
LEMMA TurnOfCur ==
  ASSUME SchedTypeOK, MidTurn, mid, NEW t \in TaskId, Turn(t)
  PROVE  t = cur
<1>1. cur \in TaskId /\ cur \in run
  BY DEF SchedTypeOK, MidTurn
<1>2. (t - cur) % NUM_TASK <= (cur - cur) % NUM_TASK
  BY <1>1 DEF Turn, Dist
<1>3. t \in {0, 1, 2, 3} /\ cur \in {0, 1, 2, 3} /\ NUM_TASK = 4
  BY <1>1 DEF TaskId, NUM_TASK
<1>. QED
  BY <1>2, <1>3

LEMMA MetaDone ==
  ASSUME IoTypes
  PROVE  IsSeq(done["Meta"]) /\ done = [k \in CbKey |-> done[k]] /\ "Meta" \in CbKey
  BY KeysDiffer DEF IoTypes, GoodCmds

LEMMA ScanFacts ==
  ASSUME RestInv, Phase("BlkScan")
  PROVE  /\ IsOs(os) /\ os.dn \in Nat /\ os.iss \in Nat /\ Len(done["Meta"]) \in Nat
         /\ os.dn <= os.iss /\ os.iss <= NUM_META_BLK
<1>1. ReadState /\ IoTypes
  BY DEF RestInv, MetaInv, ReadInv, Reading
<1>2. IsSeq(done["Meta"])
  BY <1>1, MetaDone
<1>. QED
  BY <1>1, <1>2 DEF ReadState, Total, IsSeq

LEMMA ScanWaitsInTurn ==
  ASSUME SchedTypeOK, RestInv, MidTurn, OneByOne, ScanWaits, Turn(TID_META),
         BlkScanIssue \/ BlkScanPop \/ BlkScanReturn
  PROVE  ScanWaits'
<1> DEFINE d == Len(done["Meta"])
<1>1. /\ Phase("BlkScan") /\ IsOs(os) /\ os.dn \in Nat /\ os.iss \in Nat /\ d \in Nat
      /\ os.dn <= os.iss /\ os.iss <= NUM_META_BLK
  BY ScanFacts DEF BlkScanIssue, BlkScanPop, BlkScanReturn
<1>2. ASSUME mid
      PROVE  MetaActs /\ (os.dn + d < os.iss \/ os.dn + d = NUM_META_BLK)
  BY <1>1, <1>2, TurnOfCur, TaskIds DEF ScanWaits, MetaActs
<1>3. CASE BlkScanIssue
  <2>1. ~mid /\ d <= 1 /\ os.iss > os.dn
    BY <1>1, <1>3 DEF BlkScanIssue, OneByOne, ScanWaits, MetaActs
  <2>2. MetaActs' /\ done' = done
    BY <1>3 DEF BlkScanIssue, Stay, MetaActs
  <2>3. os'.dn = os.dn /\ os'.iss = IssueUpto(os.dn, NUM_META_BLK)
    BY <1>1, <1>3 DEF BlkScanIssue, IsOs, OsFields
  <2>4. os'.iss = os.dn + 2 \/ os'.iss = NUM_META_BLK
    BY <2>3 DEF IssueUpto, Lesser
  <2>5. os'.dn + d < os'.iss \/ os'.dn + d = NUM_META_BLK
    BY <1>1, <2>1, <2>3, <2>4, SizeAssumption
  <2>. QED
    BY <2>2, <2>5 DEF ScanWaits
<1>4. CASE BlkScanPop
  <2>1. mid /\ HasDone("Meta") /\ PopDone("Meta")
    BY <1>4 DEF BlkScanPop
  <2>2. Len(done'["Meta"]) = d - 1
    <3>1. IsSeq(done["Meta"]) /\ done["Meta"] # <<>>
      BY <2>1, MetaDone DEF RestInv, HasDone
    <3>2. done'["Meta"] = Tail(done["Meta"])
      BY <2>1, MetaDone DEF RestInv, PopDone
    <3>. QED
      BY <3>1, <3>2, TailFacts
  <2>3. os'.dn = os.dn + 1 /\ os'.iss = os.iss
    BY <1>1, <1>4 DEF BlkScanPop, IsOs, OsFields
  <2>4. MetaActs'
    BY <1>4 DEF BlkScanPop, Stay, MetaActs
  <2>5. os'.dn + Len(done'["Meta"]) = os.dn + d
    BY <1>1, <2>2, <2>3
  <2>. QED
    BY <1>2, <2>1, <2>3, <2>4, <2>5 DEF ScanWaits
<1>5. CASE BlkScanReturn
  <2>1. mid /\ d = 0 /\ os.dn < NUM_META_BLK /\ os' = os /\ ~MetaActs'
    BY <1>5 DEF BlkScanReturn, HasDone, WaitFor, Finish, MetaActs, openVars
  <2>2. os'.iss > os'.dn
    BY <1>1, <1>2, <2>1, SizeAssumption
  <2>. QED
    BY <2>1, <2>2 DEF ScanWaits
<1>. QED
  BY <1>3, <1>4, <1>5

LEMMA ScanWaitsMeta ==
  ASSUME SchedTypeOK, RestInv, MidTurn, OneByOne, ScanWaits, TaskMeta
  PROVE  ScanWaits'
<1>1. CASE MetaInit
  <2>1. /\ os'.dn = 0 /\ os'.iss = IssueUpto(0, NUM_META_BLK) /\ ~MetaActs'
    BY <1>1 DEF MetaInit, OsIdle, WaitFor, Finish, MetaActs
  <2>2. os'.iss > os'.dn
    BY <2>1, SizeAssumption DEF IssueUpto, Lesser
  <2>. QED
    BY <2>1, <2>2 DEF ScanWaits
<1>2. CASE BlkScanIssue \/ BlkScanPop \/ BlkScanReturn
  BY <1>2, ScanWaitsInTurn DEF TaskMeta
<1>3. CASE PageScanPop \/ PageScanReturn \/ MtLoadPop \/ MtLoadReturn
  <2>1. IsOs(os) /\ os.step # "BlkScan"
    BY <1>3 DEF PageScanPop, PageScanReturn, MtLoadPop, MtLoadReturn, RestInv, MetaInv,
                ReadInv, ReadState, Reading, Phase
  <2>2. os'.step = os.step
    BY <1>3, <2>1
    DEF PageScanPop, PageScanReturn, MtLoadPop, MtLoadReturn, IsOs, OsFields
  <2>. QED
    BY <2>1, <2>2 DEF ScanWaits, Phase
<1>4. CASE MetaSave
  BY <1>4 DEF MetaSave, MetaIdle, MetaSaveStart, MetaSaveWait, MetaSaveErased, MetaSaveDone,
              ScanWaits, Phase
<1>5. CASE MetaFormat \/ UserScanDone
  BY <1>5 DEF MetaFormat, UserScanDone, ScanWaits, Phase
<1>6. CASE BlkScanDone \/ PageScanDone \/ MtLoadDone \/ GcScanDone
  <2>1. os'.step # "BlkScan"
    BY <1>6 DEF BlkScanDone, PageScanDone, MtLoadDone, GcScanDone, OsIdle
  <2>. QED
    BY <2>1 DEF ScanWaits, Phase
<1>7. CASE \E o \in OpenType : ScanPop(o) \/ ScanReturn(o)
  <2>1. os.step # "BlkScan" /\ os' = os
    BY <1>7 DEF ScanPop, ScanReturn, ScanPhase, Phase
  <2>. QED
    BY <2>1 DEF ScanWaits, Phase
<1>. QED
  BY <1>1, <1>2, <1>3, <1>4, <1>5, <1>6, <1>7 DEF TaskMeta, MetaOpen

LEMMA ScanWaitsKept ==
  ASSUME SchedTypeOK, RestInv, MidTurn, OneByOne, ScanWaits, [Next]_vars
  PROVE  ScanWaits'
<1>1. CASE TaskMeta
  BY <1>1, ScanWaitsMeta
<1>2. CASE PowerCycle
  BY <1>2 DEF PowerCycle, ScanWaits, Phase
<1>3. CASE UNCHANGED vars
  BY <1>3 DEF vars, schedVars, ioVars, openVars, ScanWaits, Phase, MetaActs
<1>4. CASE ~TaskMeta /\ ~PowerCycle /\ ~UNCHANGED vars
  <2>1. mt' = mt /\ os' = os
    BY <1>4, OtherSteps
  <2>2. ~MetaActs /\ ~MetaActs'
    <3>1. ASSUME NEW t \in TaskId \ {TID_META}, Turn(t), TurnEnds(t)
          PROVE  ~MetaActs /\ ~MetaActs'
      <4>1. MetaActs => t = TID_META
        BY <3>1, TurnOfCur DEF MetaActs
      <4>. QED
        BY <3>1, <4>1 DEF TurnEnds, MetaActs
    <3>2. CASE TaskReq \/ TaskResp
      <4>1. TID_REQ # TID_META /\ TID_REQ_RESP # TID_META
        BY DEF TID_REQ, TID_REQ_RESP, TID_META
      <4>. QED
        BY <3>1, <3>2, <4>1, ReqRunEnds, TaskIds DEF TaskReq, TaskResp
    <3>3. CASE TaskGc
      <4>1. TID_GC # TID_META
        BY DEF TID_GC, TID_META
      <4>. QED
        BY <3>1, <3>3, <4>1, GcEnds, TaskIds DEF TaskGc
    <3>4. CASE SchedRound
      BY <3>4 DEF SchedRound, RoundWith, Round, MidTurn, MetaActs
    <3>5. CASE Nand
      BY <3>5 DEF Nand, NandDone, TrigAsync, MetaActs
    <3>6. CASE Host
      <4>1. PICK r : Submit(r)
        BY <3>6 DEF Host, HostWrite, HostRead, HostShutdown
      <4>. QED
        BY <4>1 DEF Submit, TrigAsync, MetaActs
    <3>. QED
      BY <1>4, <3>2, <3>3, <3>4, <3>5, <3>6 DEF Next, Task
  <2>. QED
    BY <2>1, <2>2 DEF ScanWaits, Phase
<1>. QED
  BY <1>1, <1>2, <1>3, <1>4

(* The assertion of scheduler.cpp:188 without exception, for any number of *)
(* meta blocks (the code has seven), of all executions in which no turn of *)
(* META finds both reads of the block scan completed.  That hypothesis is  *)
(* about time, which the model of the FTL does not have: the die reads one *)
(* page after the other, and a turn of META follows each completion.       *)
THEOREM AllArmedInTime == Spec /\ []OneByOne => []AllArmed
<1>1. Init => ScanWaits
  BY DEF Init, ScanWaits, Phase
<1>2. IInv /\ SchedTypeOK /\ ArmedInv /\ OneByOne /\ ScanWaits /\ [Next]_vars => ScanWaits'
  BY ScanWaitsKept DEF IInv, ArmedInv
<1>3. ArmedInv /\ ScanWaits /\ IInv => AllArmed
  <2> SUFFICES ASSUME ArmedInv, ScanWaits, IInv, ~mid, NEW t \in TaskId
               PROVE  Armed(t)
    BY DEF AllArmed
  <2>1. StuckScan(t) => os.dn \in Nat /\ os.iss > os.dn /\ os.iss = os.dn
    BY ScanFacts DEF StuckScan, ScanStranded, ScanWaits, MetaActs, IInv
  <2>. QED
    BY <2>1 DEF ArmedInv
<1>. QED
  BY <1>1, <1>2, <1>3, ArmedHolds, IInvHolds, SchedTypeCorrect, PTL DEF Spec
=============================================================================
