------------------------------- MODULE SimFtl -------------------------------
(***************************************************************************)
(* The FTL's scheduler loop (com/scheduler.cpp) as the program of CPU_FTL  *)
(* and a host (test/test.cpp) as the program of CPU_WORK, on the simulator *)
(* Sim, with real times.  FtlSched abstracts from this: it knows no CPU,   *)
(* no time and no ticks.  It is shown here that the loop implements it,    *)
(* and that no wake-up of either CPU is lost.                              *)
(*                                                                         *)
(* The tasks do what an open FTL does with reads: REQ takes a request and  *)
(* issues its command or, if the page is not mapped, answers it at once;   *)
(* REQ_RESP answers it when the command has completed; GC and META find    *)
(* nothing to do.  A shutdown is one more request REQ answers.             *)
(***************************************************************************)
EXTENDS Sim

CONSTANTS
  LONG_TIME,      \* timeout of every wait, in ticks
  TASK_TIME,      \* what a turn takes (Sched_Run)
  NandTimes       \* what a read takes, from NFC_Issue to the interrupt

ASSUME SimFtlAssumption ==
  /\ LONG_TIME \in Nat \ {0}
  /\ TASK_TIME \in Nat /\ TASK_TIME > 3
  /\ NandTimes \subseteq Nat \ {0}

VARIABLES
  pcF,       \* CPU_FTL: "boot", "loop" (before or in sched_HandleEvt), "turns"
  pcW,       \* CPU_WORK: "boot", "test", "request" (in FTL_Request), "wait",
             \* "sd request" and "sd wait" for a shutdown, "off"
  waitEvt,   \* bmWaitEvt of each task
  timeOut,   \* nTimeOut of each task
  rdyTask,   \* bmRdyTask
  bmRdy,     \* bmRdy, less the tasks whose turn is over
  curTask,   \* nCurTask
  pendEvt,   \* bmSyncEvt \cup bmAsyncEvt
  nTick,     \* nAsyncTick
  reqQ,      \* gstReqQ
  doneQ,     \* how many commands gaDone[IOCB_User] holds
  gbDone     \* of test.cpp

taskVars  == <<waitEvt, timeOut, rdyTask, bmRdy, curTask>>
schedVars == <<taskVars, pendEvt, nTick>>
vars == <<sim, pcF, pcW, schedVars, reqQ, doneQ, gbDone>>

Sched == INSTANCE FtlSched WITH
  rdy  <- rdyTask, run <- bmRdy, cur <- curTask, mid <- FALSE, evt <- pendEvt,
  wait <- [t \in 0 .. 3 |-> IF t \in bmRdy \cup rdyTask THEN {} ELSE waitEvt[t]]

Task == Sched!TaskId

Init ==
  /\ sim = sim_PowerUp
  /\ pcF = "boot" /\ pcW = "boot"
  /\ waitEvt = [t \in Task |-> {}] /\ timeOut = [t \in Task |-> 0]
  /\ rdyTask = Task /\ bmRdy = {} /\ curTask = 0
  /\ pendEvt = {} /\ nTick = 0
  /\ reqQ = {} /\ doneQ = 0 /\ gbDone = FALSE

-----------------------------------------------------------------------------
(* CPU_FTL.                                                                *)

(* FTL_Main up to Sched_Run.  Sched_Init and Sched_Register leave          *)
(* bmWaitEvt and nTimeOut as they were before the power went.              *)
FTL_Main ==
  /\ sim.cur = "CPU_FTL" /\ pcF = "boot"
  /\ pcF' = "loop"
  /\ sim' = TMR_Add(sim)
  /\ rdyTask' = Task /\ bmRdy' = {} /\ curTask' = 0
  /\ pendEvt' = {"IO_FREE"} /\ nTick' = 0              \* IO_Init frees commands
  /\ reqQ' = {}
  /\ UNCHANGED <<pcW, waitEvt, timeOut, doneQ, gbDone>>

\* sched_HandleEvt: the tasks an event wakes, and those whose time is up.
Woken   == {t \in Task : waitEvt[t] \cap pendEvt # {}}
Expired == {t \in Task \ Woken : nTick > 0 /\ timeOut[t] > 0 /\ timeOut[t] <= nTick}

\* Mutant of Gather: bmRdyTask is not emptied.
X_KeepsReady ==
  /\ sim.cur = "CPU_FTL" /\ pcF = "loop"
  /\ LET ready == rdyTask \cup Woken \cup Expired IN
     /\ bmRdy' = ready
     /\ IF ready = {} THEN sim' = CPU_Sleep(sim) /\ UNCHANGED pcF
                      ELSE pcF' = "turns" /\ UNCHANGED sim
  /\ pendEvt' = {} /\ nTick' = 0
  /\ waitEvt' = [t \in Task |-> IF t \in Woken THEN waitEvt[t] \ pendEvt
                                ELSE IF t \in Expired THEN {} ELSE waitEvt[t]]
  /\ timeOut' = [t \in Task |-> IF t \in Woken \cup Expired THEN 0
                                ELSE IF timeOut[t] > 0 THEN timeOut[t] - nTick ELSE 0]
  /\ UNCHANGED <<pcW, rdyTask, curTask, reqQ, doneQ, gbDone>>

(* The top of the loop of Sched_Run: events and ticks are taken, and if no *)
(* task is ready the CPU sleeps.                                           *)
Gather ==
  /\ sim.cur = "CPU_FTL" /\ pcF = "loop"
  /\ LET ready == rdyTask \cup Woken \cup Expired IN
     /\ bmRdy' = ready
     /\ IF ready = {} THEN sim' = CPU_Sleep(sim) /\ UNCHANGED pcF
                      ELSE pcF' = "turns" /\ UNCHANGED sim
  /\ rdyTask' = {} /\ pendEvt' = {} /\ nTick' = 0
  /\ waitEvt' = [t \in Task |-> IF t \in Woken THEN waitEvt[t] \ pendEvt
                                ELSE IF t \in Expired THEN {} ELSE waitEvt[t]]
  /\ timeOut' = [t \in Task |-> IF t \in Woken \cup Expired THEN 0
                                ELSE IF timeOut[t] > 0 THEN timeOut[t] - nTick ELSE 0]
  /\ UNCHANGED <<pcW, curTask, reqQ, doneQ, gbDone>>

\* Mutant of EndTurn: a turn takes 2 us only.
X_ShortTurn(t, w, s) ==
  /\ waitEvt' = [waitEvt EXCEPT ![t] = w]
  /\ timeOut' = [timeOut EXCEPT ![t] = IF w = {} THEN 0 ELSE LONG_TIME]
  /\ rdyTask' = IF w = {} THEN rdyTask \cup {t} ELSE rdyTask
  /\ sim' = CPU_TimePass(s, 2)
  /\ bmRdy' = bmRdy \ {t}
  /\ curTask' = (t + 1) % 4
  /\ pcF' = IF bmRdy' = {} THEN "loop" ELSE "turns"
  /\ UNCHANGED <<pcW, nTick>>

(* How the turn of task t ends: Sched_Wait(w, LONG_TIME) or Sched_Yield,   *)
(* then CPU_TimePass(50), from a simulator state s.                        *)
EndTurn(t, w, s) ==
  /\ waitEvt' = [waitEvt EXCEPT ![t] = w]
  /\ timeOut' = [timeOut EXCEPT ![t] = IF w = {} THEN 0 ELSE LONG_TIME]
  /\ rdyTask' = IF w = {} THEN rdyTask \cup {t} ELSE rdyTask
  /\ sim' = CPU_TimePass(s, TASK_TIME)
  /\ bmRdy' = bmRdy \ {t}
  /\ curTask' = (t + 1) % 4
  /\ pcF' = IF bmRdy' = {} THEN "loop" ELSE "turns"
  /\ UNCHANGED <<pcW, nTick>>

\* Mutant of Answer: the wrong CPU is woken.
X_WakesSelf(s) == CPU_Wakeup(s, "CPU_FTL", 2)

\* req_Done and _CmdDone: the host is told, and its CPU woken.
Answer(s) == CPU_Wakeup(s, "CPU_WORK", 2)

\* req_Run in WaitCmd.
ReqTurn ==
  /\ Sched!Turn(Sched!TID_REQ)
  /\ \/ /\ reqQ = {}
        /\ EndTurn(Sched!TID_REQ, {"USER_CMD"}, sim)
        /\ UNCHANGED <<pendEvt, reqQ, doneQ, gbDone>>
     \/ /\ "mapped" \in reqQ
        /\ \E n \in NandTimes :
             EndTurn(Sched!TID_REQ, {}, SIM_NewEvt(sim, "NFC", "CPU_FTL", n))
        /\ reqQ' = {}
        /\ UNCHANGED <<pendEvt, doneQ, gbDone>>
     \/ /\ reqQ \cap {"unmapped", "shutdown"} # {}
        /\ EndTurn(Sched!TID_REQ, {}, Answer(sim))
        /\ reqQ' = {} /\ gbDone' = TRUE
        /\ UNCHANGED <<pendEvt, doneQ>>

\* reqResp_Run
RespTurn ==
  /\ Sched!Turn(Sched!TID_REQ_RESP)
  /\ \/ /\ doneQ = 0
        /\ EndTurn(Sched!TID_REQ_RESP, {"NAND_CMD"}, sim)
        /\ UNCHANGED <<pendEvt, doneQ, gbDone>>
     \/ /\ doneQ > 0
        /\ EndTurn(Sched!TID_REQ_RESP, {}, Answer(sim))
        /\ doneQ' = doneQ - 1 /\ gbDone' = TRUE
        /\ pendEvt' = pendEvt \cup {"IO_FREE"}
  /\ UNCHANGED reqQ

\* gc_Run in WaitReq with enough free blocks, meta_Run in Mt_Ready.
GcTurn ==
  /\ Sched!Turn(Sched!TID_GC)
  /\ EndTurn(Sched!TID_GC, {"BLK_REQ"}, sim)
  /\ pendEvt' = pendEvt \cup {"NEW_BLK"}
  /\ UNCHANGED <<reqQ, doneQ, gbDone>>

MetaTurn ==
  /\ Sched!Turn(Sched!TID_META)
  /\ EndTurn(Sched!TID_META, {"META"}, sim)
  /\ UNCHANGED <<pendEvt, reqQ, doneQ, gbDone>>

TurnOfTask ==
  /\ sim.cur = "CPU_FTL" /\ pcF = "turns"
  /\ ReqTurn \/ RespTurn \/ GcTurn \/ MetaTurn

-----------------------------------------------------------------------------
(* CPU_WORK.                                                               *)

\* FTL_Request up to the passing of time.
Request(r) ==
  /\ sim.cur = "CPU_WORK" /\ pcW \in {"boot", "test"}
  /\ gbDone' = FALSE
  /\ reqQ' = reqQ \cup {r}
  /\ pendEvt' = pendEvt \cup {"USER_CMD"}
  /\ sim' = CPU_TimePass(sim, 5)
  /\ pcW' = IF r = "shutdown" THEN "sd request" ELSE "request"
  /\ UNCHANGED <<pcF, taskVars, nTick, doneQ>>

\* The rest of it.
Kick ==
  /\ sim.cur = "CPU_WORK" /\ pcW \in {"request", "sd request"}
  /\ sim' = CPU_Wakeup(sim, "CPU_FTL", 1)
  /\ pcW' = IF pcW = "request" THEN "wait" ELSE "sd wait"
  /\ UNCHANGED <<pcF, schedVars, reqQ, doneQ, gbDone>>

END_RUN == 100000000

\* _BusyWaitDone, and after a shutdown POWER_SwitchOff and END_RUN.
BusyWaitDone ==
  /\ sim.cur = "CPU_WORK" /\ pcW \in {"wait", "sd wait"}
  /\ \/ /\ ~gbDone
        /\ sim' = CPU_Sleep(sim)
        /\ UNCHANGED pcW
     \/ /\ gbDone /\ pcW = "wait"
        /\ pcW' = "test"
        /\ UNCHANGED sim
     \/ /\ gbDone /\ pcW = "sd wait"
        /\ pcW' = "off"
        /\ sim' = CPU_TimePass(SIM_NewEvt(sim, "POWER", SIM, 1), END_RUN)
  /\ UNCHANGED <<pcF, schedVars, reqQ, doneQ, gbDone>>

-----------------------------------------------------------------------------
(* The simulator.                                                          *)

Booting == pcF = "boot" /\ pcW = "boot" /\ sim.cpu["CPU_FTL"] # 0

CpuEvent ==
  /\ \E i \in Slot : /\ Take(i, Booting) /\ sim.evt[i].own = "CPU"
                     /\ cpu_HandleEvt(i)
  /\ UNCHANGED <<pcF, pcW, schedVars, reqQ, doneQ, gbDone>>

\* The timer, with sched_TickISR as its callback.  Ticks are counted up to
\* LONG_TIME: no wait is longer.
TimerEvent ==
  /\ \E i \in Slot : /\ Take(i, Booting) /\ sim.evt[i].own = "TIMER"
                     /\ tmr_HandleEvt(i)
  /\ nTick' = IF nTick < LONG_TIME THEN nTick + 1 ELSE nTick
  /\ UNCHANGED <<pcF, pcW, taskVars, pendEvt, reqQ, doneQ, gbDone>>

\* The last step of a command: io_CbDone, and CPU_FTL is woken.
NfcEvent ==
  /\ \E i \in Slot : /\ Take(i, Booting) /\ sim.evt[i].own = "NFC"
                     /\ sim' = SwitchToSim(CPU_Wakeup(InHand(i), "CPU_FTL", 3))
  /\ doneQ' = doneQ + 1
  /\ pendEvt' = pendEvt \cup {"NAND_CMD"}
  /\ UNCHANGED <<pcF, pcW, taskVars, nTick, reqQ, gbDone>>

\* power_HandleEvt, and SIM_Run powers up again.
PowerEvent ==
  /\ \E i \in Slot : Take(i, Booting) /\ sim.evt[i].own = "POWER"
  /\ sim' = sim_PowerUp
  /\ pcF' = "boot" /\ pcW' = "boot"
  /\ UNCHANGED <<schedVars, reqQ, doneQ, gbDone>>

Next ==
  \/ FTL_Main \/ Gather \/ TurnOfTask
  \/ \E r \in {"mapped", "unmapped", "shutdown"} : Request(r)
  \/ Kick \/ BusyWaitDone
  \/ CpuEvent \/ TimerEvent \/ NfcEvent \/ PowerEvent

\* The simulator runs for ever, and so does a CPU until it switches back.
Spec == Init /\ [][Next]_vars /\ WF_vars(Next)

-----------------------------------------------------------------------------
(* Properties.                                                             *)

Asleep(c) == sim.cur # c /\ sim.cpu[c] = 0

(* Nobody sleeps over what it is to be woken for.  CPU_FTL sleeps after    *)
(* it has found no event (scheduler.cpp:199), CPU_WORK after it has found  *)
(* gbDone unset (test.cpp:38); whatever sets them between the look and the *)
(* sleep, or while the CPU lets time pass, leaves an event behind.  Only   *)
(* FTL_Request triggers first and wakes 5 us later.                        *)
NobodyOversleeps ==
  /\ pcF = "loop" /\ Asleep("CPU_FTL") /\ (pendEvt # {} \/ nTick > 0 \/ rdyTask # {})
       => pcW \in {"request", "sd request"}
  /\ pcW \in {"wait", "sd wait"} /\ Asleep("CPU_WORK") => ~gbDone

(* Between the answer to a shutdown and the power cut no task of the FTL   *)
(* has a turn: the one that answered is still in its 50 us when the host   *)
(* has woken up and switched the power off.                                *)
NoTurnBeforePowerOff ==
  [][gbDone /\ pcW \in {"sd request", "sd wait", "off"} => UNCHANGED taskVars]_vars

(* Every request is answered, also the first after a power on: both CPUs   *)
(* start at time 0, and FTL_Main empties the request queue.                *)
HostGoesOn == pcW \in {"request", "wait"} ~> pcW = "test"

(* The loop takes every event and gives every ready task its turn: the     *)
(* fairness the modules above FtlSched assume of rounds and turns.         *)
LoopGoesOn ==
  /\ pendEvt # {} ~> pendEvt = {}
  /\ \A t \in Task : t \in bmRdy ~> t \notin bmRdy

\* A start of the firmware, as it looks to the tasks.
Restart ==
  /\ rdyTask' = Task /\ bmRdy' = {} /\ curTask' = 0
  /\ pendEvt' = {"IO_FREE"}

(* The loop implements FtlSched: a pass is a Round, with the tasks whose   *)
(* ticks are used up as `expired'; a turn ends in Finish; everything else  *)
(* that triggers an event does so between two turns.                       *)
ImplementsSched ==
  /\ Sched!SchedInit({})
  /\ [][ \/ \E x \in SUBSET Task : Sched!Round(x)
         \/ \E t \in Task : /\ Sched!Turn(t)
                            /\ \E yield \in BOOLEAN, trig \in {{}, {"IO_FREE"}, {"NEW_BLK"}} :
                                 Sched!Finish(t, waitEvt'[t], yield, trig)
         \/ \E e \in {"USER_CMD", "NAND_CMD"} : Sched!TrigAsync(e)
         \/ Restart ]_(Sched!schedVars)
=============================================================================
