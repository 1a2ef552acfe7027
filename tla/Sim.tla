-------------------------------- MODULE Sim --------------------------------
(***************************************************************************)
(* The simulator: events in simulated time (hw/sim.cpp), CPUs that run as  *)
(* coroutines of it (hw/cpu.cpp, hw/coroutine.cpp), the tick timer         *)
(* (hw/timer.cpp) and the power switch (hw/power.cpp).                     *)
(*                                                                         *)
(* One program runs at a time: a CPU, until it lets time pass or sleeps,   *)
(* or the simulator, which takes the earliest event and calls the handler  *)
(* of its owner.  The state of all this is the record `sim'; an operation  *)
(* is an operator from one such record to the next, so that a handler that *)
(* calls several is one step.                                              *)
(***************************************************************************)
EXTENDS Integers, FiniteSets

CONSTANTS
  NUM_EVENT,     \* size of the event pool
  TICK           \* period of the tick timer (MS_PER_TICK)

ASSUME SimAssumption == NUM_EVENT \in Nat \ {0} /\ TICK \in Nat \ {0}

VARIABLE
  sim   \* [evt:  what each event of gaEvts is,
        \*  hand: the event whose handler runs, 0 if none,
        \*  cpu:  pEvt of each CPU, 0 if null,
        \*  cur:  gnCurCpu, or SIM,
        \*  dry:  an event was wanted and the pool was empty]

CpuId == {"CPU_FTL", "CPU_WORK"}
SIM   == "SIM"
Slot  == 1 .. NUM_EVENT

\* An event in the queue, due in `in' units of time, or one of the pool.
Owner == {"CPU", "TIMER", "NFC", "POWER"}
Evt(own, arg, in) == [own |-> own, arg |-> arg, in |-> in]
Free == Evt("POOL", SIM, 0)

Queued(s) == {i \in Slot : s.evt[i] # Free}
Pool(s)   == {i \in Slot : s.evt[i] = Free /\ i # s.hand}
NextSlot(s) == CHOOSE i \in Pool(s) : TRUE

\* SIM_NewEvt.  Which event of the pool it takes does not matter.
SIM_NewEvt(s, own, arg, in) ==
  IF Pool(s) = {} THEN [s EXCEPT !.dry = TRUE]
                  ELSE [s EXCEPT !.evt[NextSlot(s)] = Evt(own, arg, in)]

\* cpu_NewEvent, with the event remembered in pEvt.
NewCpuEvt(s, c, in) ==
  [SIM_NewEvt(s, "CPU", c, in) EXCEPT !.cpu[c] = IF Pool(s) = {} THEN 0 ELSE NextSlot(s)]

\* Time goes on by n.
Advance(s, n) ==
  [s EXCEPT !.evt = [i \in Slot |-> IF s.evt[i] = Free THEN Free
                                    ELSE [s.evt[i] EXCEPT !.in = @ - n]]]

\* SwitchToFiber: back to SIM_Run, which returns the event in hand.
SwitchToSim(s) == [s EXCEPT !.cur = SIM, !.hand = 0]

\* SIM_PeekTick: nothing is due before n has passed.
PeekTick(s, n) == \A i \in Queued(s) : n < s.evt[i].in

\* Mutant of CPU_TimePass: the event is made before PeekTick is asked.
X_EventFirst(s, n) ==
  IF PeekTick(s, n) THEN Advance(NewCpuEvt(s, s.cur, n), n)
                    ELSE SwitchToSim(NewCpuEvt(s, s.cur, n))

(* CPU_TimePass: the running CPU goes on at once if nothing is due in the  *)
(* meantime, otherwise it leaves an event that will bring it back.         *)
CPU_TimePass(s, n) ==
  IF PeekTick(s, n) THEN Advance(s, n) ELSE SwitchToSim(NewCpuEvt(s, s.cur, n))

CPU_Sleep(s) == SwitchToSim(s)

\* Mutant of CPU_Wakeup: every call makes an event.
X_AlwaysWakes(s, c, n) == NewCpuEvt(s, c, n)

\* CPU_Wakeup; nAddTick of an event that is already there is never used.
CPU_Wakeup(s, c, n) == IF s.cpu[c] = 0 THEN NewCpuEvt(s, c, n) ELSE s

(* sim_PowerUp and CPU_Start: an empty queue, and an event at time 0 for   *)
(* each CPU, CPU_FTL's first.                                              *)
sim_PowerUp ==
  NewCpuEvt(NewCpuEvt([evt  |-> [i \in Slot |-> Free], hand |-> 0,
                       cpu  |-> [c \in CpuId |-> 0], cur  |-> SIM,
                       dry  |-> FALSE],
                      "CPU_FTL", 0), "CPU_WORK", 0)

Earliest(s) == {i \in Queued(s) : \A j \in Queued(s) : s.evt[i].in <= s.evt[j].in}

\* Mutant of Take: the events of a power on come out in any order.
X_AnyOrder(i, booting) == sim.cur = SIM /\ i \in Earliest(sim)

(* SIM_Run takes event i of those due first, in no particular order: the   *)
(* priority queue compares ticks only.  At power on its two events come    *)
(* out as they went in (sim.cpp:30, cpu.cpp:119).                          *)
Take(i, booting) ==
  /\ sim.cur = SIM /\ i \in Earliest(sim)
  /\ booting => sim.evt[i].arg = "CPU_FTL"

\* The state in which the handler of event i runs.
InHand(i) == [Advance(sim, sim.evt[i].in) EXCEPT !.evt[i] = Free, !.hand = i]

\* Mutant of cpu_HandleEvt: pEvt is not cleared.
X_KeepsEvt(i) == sim' = [InHand(i) EXCEPT !.cur = sim.evt[i].arg]

\* cpu_HandleEvt: the CPU goes on where it stopped.
cpu_HandleEvt(i) ==
  sim' = [InHand(i) EXCEPT !.cur = sim.evt[i].arg, !.cpu[sim.evt[i].arg] = 0]

(* tmr_HandleEvt for the repeating tick timer: the next event first, then  *)
(* the callback (the caller's), then the CPU is woken.                     *)
tmr_HandleEvt(i) ==
  sim' = SwitchToSim(CPU_Wakeup(SIM_NewEvt(InHand(i), "TIMER", "CPU_FTL", TICK), "CPU_FTL", 1))

\* TMR_Add, after TMR_Init, by the running CPU.
TMR_Add(s) == SIM_NewEvt(s, "TIMER", s.cur, TICK)

-----------------------------------------------------------------------------
(* Properties.                                                             *)

EventsOf(own, arg) == {i \in Queued(sim) : sim.evt[i].own = own /\ sim.evt[i].arg = arg}

(* A CPU has at most one event, the one it remembers, and none while it    *)
(* runs (assertions of cpu.cpp:43 and :87): wake-ups, sleeps and passing   *)
(* time never leave a second one behind, which would resume a CPU that is  *)
(* not waiting for it.                                                     *)
OneCpuEvent ==
  /\ \A c \in CpuId : EventsOf("CPU", c) = {sim.cpu[c]} \ {0}
  /\ sim.cur # SIM => sim.cpu[sim.cur] = 0

(* The event queue works: the pool is never empty when an event is wanted *)
(* (assertion of PopHead, templ.h:119), though NUM_EVENT counts two per    *)
(* hardware only and a handler makes its new events before its own is      *)
(* returned (sim.cpp:59,137); the queue is never empty when the simulator  *)
(* needs an event (sim.cpp:132; top() in SIM_PeekTick has no check); and   *)
(* no event is passed over.                                                *)
QueueSound ==
  /\ ~sim.dry
  /\ Queued(sim) # {}
  /\ \A i \in Queued(sim) : sim.evt[i].in >= 0
=============================================================================
