------------------------------ MODULE FtlSched ------------------------------
(***************************************************************************)
(* The cooperative scheduler (com/scheduler.cpp): four tasks on one CPU.   *)
(* A round takes the pending events, readies the tasks that wait for one   *)
(* of them, and runs every ready task once, in cyclic order from nCurTask. *)
(* An event triggered during a round is seen by the next round only.       *)
(*                                                                         *)
(* A task's turn is one call of its function.  Most turns are one action.  *)
(* A turn that drains a queue of completed commands takes one action per   *)
(* command and keeps the CPU meanwhile ("mid"): no interrupt, no other     *)
(* task and no host call comes between, as in the code, where simulated    *)
(* time only passes after the task function has returned.                  *)
(***************************************************************************)
EXTENDS Integers, FiniteSets

VARIABLES
  rdy,    \* bmRdyTask: tasks that asked to run again in the next round
  run,    \* bmRdy: tasks of the current round that have not run yet
  wait,   \* bmWaitEvt of every task; a nonempty set also means nTimeOut > 0
  evt,    \* bmSyncEvt \cup bmAsyncEvt: events no round has taken yet
  cur,    \* nCurTask
  mid     \* TRUE inside a turn of task cur

schedVars == <<rdy, run, wait, evt, cur, mid>>

TID_REQ      == 0
TID_REQ_RESP == 1
TID_GC       == 2
TID_META     == 3
NUM_TASK     == 4
TaskId       == 0 .. NUM_TASK - 1

Event == {"OPEN", "META", "IO_FREE", "NAND_CMD", "USER_CMD", "BLK_REQ", "NEW_BLK"}

SchedTypeOK ==
  /\ rdy \subseteq TaskId
  /\ run \subseteq TaskId
  /\ wait \in [TaskId -> SUBSET Event]
  /\ evt \subseteq Event
  /\ cur \in TaskId
  /\ mid \in BOOLEAN

\* Sched_Init and Sched_Register, after which the events `trig' are triggered.
SchedInit(trig) ==
  /\ rdy = TaskId
  /\ run = {}
  /\ wait = [t \in TaskId |-> {}]
  /\ evt = trig
  /\ cur = TID_REQ
  /\ mid = FALSE

(***************************************************************************)
(* One pass of the loop of Sched_Run: the events of sched_HandleEvt, and   *)
(* in `expired' the tasks whose nTimeOut the ticks since the last pass     *)
(* have used up.  An event nobody waits for is dropped.                    *)
(***************************************************************************)
Round(expired) ==
  /\ run = {}
  /\ \A t \in expired : wait[t] # {}
  /\ rdy # {} \/ evt # {} \/ expired # {}
  /\ LET woken == {t \in TaskId : wait[t] \cap evt # {}}
         next  == rdy \cup woken \cup expired
     IN  /\ run' = next
         /\ wait' = [t \in TaskId |-> IF t \in next THEN {} ELSE wait[t]]
  /\ rdy' = {}
  /\ evt' = {}
  /\ UNCHANGED <<cur, mid>>

\* How many steps of nCurTask = (nCurTask + 1) % NUM_TASK lead to task t.
Dist(t) == (t - cur) % NUM_TASK

\* It is task t's turn: t is the first task of the round from nCurTask on.
Turn(t) == t \in run /\ \A u \in run : Dist(t) <= Dist(u)

\* The turn goes on: the task function has not returned yet.
Stay(t, trig) ==
  /\ mid' = TRUE
  /\ cur' = t
  /\ evt' = evt \cup trig
  /\ UNCHANGED <<rdy, run, wait>>

(***************************************************************************)
(* The task function returns, having triggered the events `trig'.  Its     *)
(* last Sched_Wait asked for the events w; `yield' says that it called     *)
(* Sched_Yield, which marks the task ready for the next round.             *)
(***************************************************************************)
Finish(t, w, yield, trig) ==
  /\ mid' = FALSE
  /\ cur' = (t + 1) % NUM_TASK
  /\ run' = run \ {t}
  /\ rdy' = IF yield THEN rdy \cup {t} ELSE rdy
  /\ wait' = [wait EXCEPT ![t] = w]
  /\ evt' = evt \cup trig

WaitFor(t, w, trig) == Finish(t, w, FALSE, trig)
Yield(t, trig)      == Finish(t, {}, TRUE, trig)

\* An interrupt or another CPU triggers an event between two turns.
TrigAsync(e) ==
  /\ ~mid
  /\ evt' = evt \cup {e}
  /\ UNCHANGED <<rdy, run, wait, cur, mid>>

\* A task that can run again: now, in the next round, on an event, or on a
\* timeout (scheduler.cpp:188 asserts it of every task that has just run).
Armed(t) == t \in run \/ t \in rdy \/ wait[t] # {}
=============================================================================
