------------------------------- MODULE FtlReq -------------------------------
(***************************************************************************)
(* Host requests (ftl/page_req.cpp): the REQ task fetches a request, maps  *)
(* it and issues its NAND command; the REQ_RESP task answers the host when *)
(* the command has completed.  A shutdown stops GC, waits for every NAND   *)
(* command, and for a save of the meta data if it is a safe one.           *)
(***************************************************************************)
EXTENDS FtlGc

VARIABLES
  reqSt,    \* ReqStk.eState
  step,     \* CmdStk.eStep
  req,      \* CmdStk.pReq: the request REQ is working on
  waitAge,  \* CmdStk.nWaitAge
  reqQ,     \* gstReqQ: requests submitted and not fetched
  pend,     \* the request the host waits for
  rsp,      \* the answer to the last request: its page, if it was a read
  pwr       \* the FTL runs

reqVars  == <<reqSt, step, req, waitAge, reqQ>>
hostVars == <<pend, rsp, pwr>>

WriteReq(l, v)   == [cmd |-> "write", lpn |-> l, ver |-> v]
ReadReq(l)       == [cmd |-> "read", lpn |-> l]
ShutdownReq(opt) == [cmd |-> "shutdown", opt |-> opt]

ShutdownOpt == {"SD_Sudden", "SD_Safe"}

ReqInit ==
  /\ reqSt = "WaitOpen"
  /\ step = "Init"
  /\ req = NoReq
  /\ waitAge = 0
  /\ reqQ = <<>>

otherThanReq == <<mapVars, jnlVars, mctx, mt, openVars, gcVars>>

\* gfCbf: the host gets its answer; pg is what the buffer of a read holds.
\* Once a shutdown is answered the host switches the power off, before the
\* next turn of any task and with no event in between.
Respond(r, pg) ==
  /\ pend' = NoReq
  /\ rsp' = [req |-> r, pg |-> pg]
  /\ pwr' = (r.cmd # "shutdown")

-----------------------------------------------------------------------------
(* The REQ task.  It works on the request it fetches in this turn, at step *)
(* Init, or on the one it is in the middle of.                             *)

Handling(r, at) ==
  \/ /\ reqSt = "WaitCmd" /\ reqQ # <<>>
     /\ r = Head(reqQ) /\ at = "Init"
     /\ reqQ' = Tail(reqQ)
  \/ /\ reqSt = "Run"
     /\ r = req /\ at = step
     /\ UNCHANGED reqQ

\* The request is dealt with, as far as REQ is concerned.
Fetched ==
  /\ reqSt' = "WaitCmd" /\ step' = "Init" /\ req' = NoReq /\ waitAge' = 0

\* The request stays, at step s.
Remains(r, s) ==
  /\ reqSt' = "Run" /\ step' = s /\ req' = r

ReqWaitOpen ==
  /\ reqSt = "WaitOpen" /\ ~META_Ready
  /\ WaitFor(TID_REQ, {"OPEN"}, {})
  /\ UNCHANGED <<ioVars, otherThanReq, reqVars, hostVars>>

ReqOpened ==
  /\ reqSt = "WaitOpen" /\ META_Ready
  /\ reqSt' = "WaitCmd"
  /\ Yield(TID_REQ, {})
  /\ UNCHANGED <<ioVars, otherThanReq, step, req, waitAge, reqQ, hostVars>>

ReqIdle ==
  /\ reqSt = "WaitCmd" /\ reqQ = <<>>
  /\ WaitFor(TID_REQ, {"USER_CMD"}, {})
  /\ UNCHANGED <<ioVars, otherThanReq, reqVars, hostVars>>

UserCmd(c, r) == [c EXCEPT !.req = r]

ReqReadMapped(r, at) ==
  /\ r.cmd = "read" /\ META_GetMap(r.lpn) # FF32
  /\ Issue(<<UserCmd(ReadCmd("User", META_GetMap(r.lpn).blk, META_GetMap(r.lpn).wl), r)>>)
  /\ Fetched
  /\ Yield(TID_REQ, {})
  /\ UNCHANGED <<die, done, otherThanReq, hostVars>>

\* Nothing was ever written there: answered at once.
ReqReadUnmapped(r, at) ==
  /\ r.cmd = "read" /\ META_GetMap(r.lpn) = FF32
  /\ Respond(r, Erased)
  /\ Fetched
  /\ Yield(TID_REQ, {})
  /\ UNCHANGED <<ioVars, otherThanReq>>

\* Mutant of UserBlkFull: off by one.
UserBlkFull_Late == opn["USER"].wl > NUM_WL
UserBlkFull == opn["USER"].wl >= NUM_WL

\* GC_ReqFree leaves the last block of the pool to GC.  Mutant: it does not.
ReqMayTake_Last == Len(pool) > 0
ReqMayTake == Len(pool) > 1

\* GC is woken when the pool is low.  Mutant: one block too late.
BlkReqEvt_Late == IF Len(pool) < GC_TRIG_BLK_CNT THEN {"BLK_REQ"} ELSE {}
BlkReqEvt == IF Len(pool) <= GC_TRIG_BLK_CNT THEN {"BLK_REQ"} ELSE {}

\* A new block is needed: GC_ReqFree.
ReqNeedsBlk(r, at) ==
  /\ r.cmd = "write" /\ UserBlkFull /\ at \in {"Init", "Run"}
  /\ IF ReqMayTake
     THEN /\ pool' = Tail(pool)
          /\ ErbStart("USER", Head(pool), BlkReqEvt)
          /\ Remains(r, "BlkErsWait")
     ELSE /\ UNCHANGED <<pool, erb, nq>>
          /\ WaitFor(TID_REQ, {"NEW_BLK"}, BlkReqEvt)
          /\ Remains(r, "Run")
  /\ UNCHANGED <<die, done, mapVars, jnlVars, mctx, mt, openVars, gcSt, mv,
                 waitAge, hostVars>>

ReqErasing(r, at) ==
  /\ r.cmd = "write" /\ UserBlkFull /\ at = "BlkErsWait"
  /\ ErbGoesOn("USER")
  /\ Remains(r, at)
  /\ UNCHANGED <<mapVars, mctx, mt, openVars, gcSt, mv, pool, waitAge, hostVars>>

ReqNewBlk(r, at) ==
  /\ r.cmd = "write" /\ UserBlkFull /\ at = "BlkErsWait"
  /\ ErbOver("USER")
  /\ META_SetOpen("USER", erb["USER"].blk)
  /\ Remains(r, "Run")
  /\ Yield(TID_REQ, {})
  /\ UNCHANGED <<ioVars, map, vpc, jnlVars, mctx, mt, openVars, gcSt, mv, pool,
                 waitAge, hostVars>>

ReqProgram(r, at) ==
  /\ r.cmd = "write" /\ ~UserBlkFull
  /\ MetaUpdate(r.lpn, opn["USER"], "USER")
  /\ Issue(<<UserCmd(PgmCmd("User", opn["USER"].blk, opn["USER"].wl,
                            DataPage(r.lpn, r.ver)), r)>>)
  /\ opn' = [opn EXCEPT !["USER"].wl = @ + 1]
  /\ META_ReqSave(jnl'.busy)
  /\ Fetched
  /\ Yield(TID_REQ, META_ReqEvt(jnl'.busy))
  /\ UNCHANGED <<die, done, bst, mctx, mt, openVars, gcVars, hostVars>>

ReqJnlBusy(r, at) ==
  /\ r.cmd = "write" /\ ~UserBlkFull /\ UpdateBusy(r.lpn)
  /\ Remains(r, "Run")
  /\ WaitFor(TID_REQ, {"META"}, {})
  /\ UNCHANGED <<ioVars, otherThanReq, waitAge, hostVars>>

-----------------------------------------------------------------------------
(* req_Shutdown_SM. *)

\* Mutant of StopGc: GC goes on.
StopGc_Not(at) == UNCHANGED gcSt

\* GC_Stop, in the first call only.
StopGc(at) == IF at = "Init" THEN gcSt' = "Stop" ELSE UNCHANGED gcSt

\* Mutant of AllIoDone: one command may be under way.
AllIoDone_ButOne == IO_CountFree >= NUM_NAND_CMD - 1
AllIoDone == IO_CountFree >= NUM_NAND_CMD

ShutdownWaitIo(r, at) ==
  /\ r.cmd = "shutdown" /\ at \in {"Init", "WaitIoDone"} /\ ~AllIoDone
  /\ StopGc(at)
  /\ Remains(r, "WaitIoDone")
  /\ WaitFor(TID_REQ, {"IO_FREE"}, {})
  /\ UNCHANGED <<ioVars, mapVars, jnlVars, mctx, mt, openVars, mv, pool, erb,
                 waitAge, hostVars>>

ShutdownSudden(r, at) ==
  /\ r.cmd = "shutdown" /\ at \in {"Init", "WaitIoDone"} /\ AllIoDone
  /\ r.opt = "SD_Sudden"
  /\ StopGc(at)
  /\ Respond(r, Erased)
  /\ Fetched
  /\ Yield(TID_REQ, {})
  /\ UNCHANGED <<ioVars, mapVars, jnlVars, mctx, mt, openVars, mv, pool, erb>>

ShutdownSave(r, at) ==
  /\ r.cmd = "shutdown" /\ at \in {"Init", "WaitIoDone"} /\ AllIoDone
  /\ r.opt = "SD_Safe"
  /\ StopGc(at)
  /\ META_ReqSave(TRUE)
  /\ waitAge' = mctx.age
  /\ Remains(r, "WaitMtSave")
  /\ WaitFor(TID_REQ, {"META"}, META_ReqEvt(TRUE))
  /\ UNCHANGED <<ioVars, mapVars, jnl, mctx, mt, openVars, mv, pool, erb, hostVars>>

ShutdownSaving(r, at) ==
  /\ r.cmd = "shutdown" /\ at = "WaitMtSave" /\ mctx.age <= waitAge
  /\ Remains(r, at)
  /\ WaitFor(TID_REQ, {"META"}, {})
  /\ UNCHANGED <<ioVars, otherThanReq, waitAge, hostVars>>

\* Mutant of ShutdownSaved: answers before the save.
ShutdownSaved_Early(r, at) ==
  /\ r.cmd = "shutdown" /\ at = "WaitMtSave"
  /\ Respond(r, Erased)
  /\ Fetched
  /\ Yield(TID_REQ, {})
  /\ UNCHANGED <<ioVars, otherThanReq>>

ShutdownSaved(r, at) ==
  /\ r.cmd = "shutdown" /\ at = "WaitMtSave" /\ mctx.age > waitAge
  /\ Respond(r, Erased)
  /\ Fetched
  /\ Yield(TID_REQ, {})
  /\ UNCHANGED <<ioVars, otherThanReq>>

ReqStep(r, at) ==
  \/ ReqReadMapped(r, at) \/ ReqReadUnmapped(r, at)
  \/ ReqNeedsBlk(r, at) \/ ReqErasing(r, at) \/ ReqNewBlk(r, at)
  \/ ReqProgram(r, at) \/ ReqJnlBusy(r, at)
  \/ ShutdownWaitIo(r, at) \/ ShutdownSudden(r, at)
  \/ ShutdownSave(r, at) \/ ShutdownSaving(r, at) \/ ShutdownSaved(r, at)

Req_Run ==
  \/ ReqWaitOpen \/ ReqOpened \/ ReqIdle
  \/ LET r  == IF reqSt = "Run" THEN req ELSE Head(reqQ)
         at == IF reqSt = "Run" THEN step ELSE "Init"
     IN  Handling(r, at) /\ ReqStep(r, at)

-----------------------------------------------------------------------------
(* The REQ_RESP task. *)

RespWait ==
  /\ ~HasDone("User")
  /\ WaitFor(TID_REQ_RESP, {"NAND_CMD"}, {})
  /\ UNCHANGED <<ioVars, otherThanReq, reqVars, hostVars>>

\* Mutant of RespDone: the block stays open when its last page is programmed.
RespDone_StaysOpen ==
  /\ HasDone("User")
  /\ LET c == DoneHead("User") IN
     Respond(c.req, IF c.op = "READ" THEN c.pg ELSE Erased)
  /\ PopDone("User")
  /\ Yield(TID_REQ_RESP, {"IO_FREE"})
  /\ UNCHANGED <<die, nq, mapVars, jnlVars, mctx, mt, openVars, gcVars, reqVars>>

\* When the last page of a block is programmed the block is closed.
RespDone ==
  /\ HasDone("User")
  /\ LET c == DoneHead("User") IN
     /\ bst' = IF c.op = "PGM" /\ c.wl = NUM_WL - 1
               THEN [bst EXCEPT ![c.blk] = "Closed"] ELSE bst
     /\ Respond(c.req, IF c.op = "READ" THEN c.pg ELSE Erased)
  /\ PopDone("User")
  /\ Yield(TID_REQ_RESP, {"IO_FREE"})
  /\ UNCHANGED <<die, nq, map, vpc, opn, jnlVars, mctx, mt, openVars, gcVars, reqVars>>

ReqResp_Run == RespWait \/ RespDone
=============================================================================
