------------------------------ MODULE SimProofs ------------------------------
(***************************************************************************)
(* The simulator and the loop of the scheduler on it.  Whatever the times, *)
(* the ticks and the size of the event pool, a CPU has one event and none  *)
(* while it runs (OneCpuEvent), and the loop implements FtlSched.  With    *)
(* five events the pool lasts (QueueSound) and no CPU oversleeps; with     *)
(* turns of more than 6 us none comes between the answer to a shutdown and *)
(* the power cut.                                                          *)
(***************************************************************************)
EXTENDS SimFtl, FiniteSetTheorems, TLAPS

EvtSet == [own : Owner \cup {"POOL"}, arg : CpuId \cup {SIM}, in : Int]

SimType ==
  [evt : [Slot -> EvtSet], hand : Slot \cup {0}, cpu : [CpuId -> Slot \cup {0}],
   cur : CpuId \cup {SIM}, dry : BOOLEAN]

\* Every CPU event is the one its CPU remembers, and the other way round.
Remembered(s) ==
  \A i \in Slot, c \in CpuId : (s.evt[i].own = "CPU" /\ s.evt[i].arg = c) <=> s.cpu[c] = i

\* The inductive invariant, of a simulator state.
SimOk(s) ==
  /\ s \in SimType /\ Remembered(s)
  /\ \A i \in Slot : s.evt[i].own = "CPU" => s.evt[i].arg \in CpuId
  /\ s.cur # SIM => s.cpu[s.cur] = 0

LEMMA Constants == SIM \notin CpuId /\ "CPU_FTL" \in CpuId /\ "CPU_WORK" \in CpuId /\ 0 \notin Slot
                   /\ Free \in EvtSet /\ Free.own # "CPU"
BY DEF SIM, CpuId, Slot, Free, Evt, EvtSet

LEMMA SimOkSuffices == SimOk(sim) => OneCpuEvent
<1> SUFFICES ASSUME SimOk(sim), NEW c \in CpuId PROVE EventsOf("CPU", c) = {sim.cpu[c]} \ {0}
  BY DEF SimOk, OneCpuEvent
<1>1. \A i \in Slot : sim.evt[i].own = "CPU" => sim.evt[i] # Free
  BY Constants
<1>2. sim.cpu[c] \in Slot \cup {0}
  BY DEF SimOk, SimType
<1> QED BY <1>1, <1>2, Constants DEF EventsOf, Queued, SimOk, Remembered

\* An event of the pool is free, and not the one in hand.
LEMMA FromPool ==
  ASSUME NEW s \in SimType, Pool(s) # {}
  PROVE  NextSlot(s) \in Slot /\ s.evt[NextSlot(s)] = Free
BY DEF Pool, NextSlot

LEMMA NewEvtOk ==
  ASSUME NEW s, SimOk(s), NEW own \in Owner \ {"CPU"}, NEW arg \in CpuId \cup {SIM}, NEW n \in Int
  PROVE  SimOk(SIM_NewEvt(s, own, arg, n)) /\ SIM_NewEvt(s, own, arg, n).cur = s.cur
<1> DEFINE r == SIM_NewEvt(s, own, arg, n)
           j == NextSlot(s)
<1>1. CASE Pool(s) = {}
  <2>1. r = [s EXCEPT !.dry = TRUE]
    BY <1>1 DEF SIM_NewEvt
  <2> HIDE DEF r
  <2>2. r \in SimType /\ r.cur = s.cur /\ r.cpu = s.cpu /\ r.evt = s.evt
    BY <2>1 DEF SimOk, SimType
  <2>3. SimOk(r)
    BY <2>2 DEF SimOk, Remembered
  <2> QED BY <2>2, <2>3 DEF r
<1>2. CASE Pool(s) # {}
  <2>1. j \in Slot /\ s.evt[j] = Free
    BY <1>2, FromPool DEF SimOk
  <2>2. Evt(own, arg, n) \in EvtSet /\ Evt(own, arg, n).own # "CPU"
    BY DEF Evt, EvtSet
  <2>3. r = [s EXCEPT !.evt[j] = Evt(own, arg, n)]
    BY <1>2 DEF SIM_NewEvt
  <2> HIDE DEF r, j
  <2>4. r \in SimType /\ r.cur = s.cur /\ r.cpu = s.cpu
        /\ r.evt = [s.evt EXCEPT ![j] = Evt(own, arg, n)]
    BY <2>1, <2>2, <2>3 DEF SimOk, SimType
  <2>5. \A i \in Slot : IF i = j THEN r.evt[i].own # "CPU" /\ s.evt[i].own # "CPU"
                                 ELSE r.evt[i] = s.evt[i]
    BY <2>1, <2>2, <2>4, Constants DEF SimOk, SimType
  <2>6. SimOk(r)
    BY <2>4, <2>5 DEF SimOk, Remembered
  <2> QED BY <2>4, <2>6 DEF r
<1> QED BY <1>1, <1>2

\* The event of a CPU that has none; the CPU may be the one that runs, if it
\* switches back to the simulator afterwards.
LEMMA NewCpuEvtOk ==
  ASSUME NEW s, SimOk(s), NEW c \in CpuId, s.cpu[c] = 0, NEW n \in Int
  PROVE  /\ s.cur # c => SimOk(NewCpuEvt(s, c, n)) /\ NewCpuEvt(s, c, n).cur = s.cur
         /\ SimOk(SwitchToSim(NewCpuEvt(s, c, n)))
<1> DEFINE r == NewCpuEvt(s, c, n)
           j == NextSlot(s)
           e == Evt("CPU", c, n)
<1>1. CASE Pool(s) = {}
  <2>1. r = [[s EXCEPT !.dry = TRUE] EXCEPT !.cpu[c] = 0]
    BY <1>1 DEF NewCpuEvt, SIM_NewEvt
  <2> HIDE DEF r
  <2>2. /\ r \in SimType /\ r.cur = s.cur /\ r.cpu = s.cpu /\ r.evt = s.evt
        /\ SwitchToSim(r) \in SimType /\ SwitchToSim(r).cur = SIM
        /\ SwitchToSim(r).cpu = s.cpu /\ SwitchToSim(r).evt = s.evt
    BY <2>1 DEF SimOk, SimType, SwitchToSim
  <2>3. SimOk(r) /\ SimOk(SwitchToSim(r))
    BY <2>2 DEF SimOk, Remembered
  <2> QED BY <2>2, <2>3 DEF r
<1>2. CASE Pool(s) # {}
  <2>1. j \in Slot /\ s.evt[j] = Free
    BY <1>2, FromPool DEF SimOk
  <2>2. e \in EvtSet /\ e.own = "CPU" /\ e.arg = c
    BY DEF Evt, EvtSet, Owner
  <2>3. r = [[s EXCEPT !.evt[j] = e] EXCEPT !.cpu[c] = j]
    BY <1>2 DEF NewCpuEvt, SIM_NewEvt
  <2> HIDE DEF r, j, e
  <2>4. /\ r \in SimType /\ r.cur = s.cur /\ r.cpu = [s.cpu EXCEPT ![c] = j]
        /\ r.evt = [s.evt EXCEPT ![j] = e]
        /\ SwitchToSim(r) \in SimType /\ SwitchToSim(r).cur = SIM
        /\ SwitchToSim(r).cpu = r.cpu /\ SwitchToSim(r).evt = r.evt
    BY <2>1, <2>2, <2>3 DEF SimOk, SimType, SwitchToSim
  <2>5. \A i \in Slot : IF i = j THEN r.evt[i] = e /\ s.evt[i].own # "CPU"
                                 ELSE r.evt[i] = s.evt[i]
    BY <2>1, <2>4, Constants DEF SimOk, SimType
  <2>6. \A d \in CpuId : r.cpu[d] = IF d = c THEN j ELSE s.cpu[d]
    BY <2>4 DEF SimOk, SimType
  <2>7. Remembered(r) /\ \A i \in Slot : r.evt[i].own = "CPU" => r.evt[i].arg \in CpuId
    BY <2>1, <2>2, <2>5, <2>6, Constants DEF SimOk, Remembered
  <2>8. SimOk(SwitchToSim(r))
    BY <2>4, <2>7 DEF SimOk, Remembered
  <2>9. s.cur # c => SimOk(r)
    BY <2>4, <2>6, <2>7 DEF SimOk, SimType
  <2> QED BY <2>4, <2>8, <2>9 DEF r
<1> QED BY <1>1, <1>2

LEMMA AdvanceOk ==
  ASSUME NEW s, SimOk(s), NEW n \in Int
  PROVE  /\ SimOk(Advance(s, n)) /\ Advance(s, n).cur = s.cur /\ Advance(s, n).cpu = s.cpu
         /\ \A i \in Slot : Advance(s, n).evt[i].own = s.evt[i].own
                            /\ Advance(s, n).evt[i].arg = s.evt[i].arg
<1> DEFINE r == Advance(s, n)
<1>1. s.evt \in [Slot -> EvtSet]
  BY DEF SimOk, SimType
<1>2. \A i \in Slot : /\ r.evt[i] \in EvtSet
                      /\ r.evt[i].own = s.evt[i].own /\ r.evt[i].arg = s.evt[i].arg
  <2> TAKE i \in Slot
  <2>1. s.evt[i] \in EvtSet
    BY <1>1
  <2>2. r.evt[i] = IF s.evt[i] = Free THEN Free ELSE [s.evt[i] EXCEPT !.in = @ - n]
    BY DEF Advance, SimOk, SimType
  <2> HIDE DEF r
  <2> QED BY <2>1, <2>2 DEF EvtSet
<1>3. r \in SimType /\ r.cur = s.cur /\ r.cpu = s.cpu
  <2>1. r.evt \in [Slot -> EvtSet]
    BY <1>2 DEF Advance, SimOk, SimType
  <2>2. r = [s EXCEPT !.evt = r.evt]
    BY DEF Advance, SimOk, SimType
  <2> HIDE DEF r
  <2> QED BY <2>1, <2>2 DEF SimOk, SimType
<1> HIDE DEF r
<1>4. SimOk(r)
  BY <1>2, <1>3 DEF SimOk, Remembered
<1> QED BY <1>2, <1>3, <1>4 DEF r

LEMMA SwitchOk == ASSUME NEW s, SimOk(s) PROVE SimOk(SwitchToSim(s))
<1> DEFINE r == SwitchToSim(s)
<1>1. r \in SimType /\ r.cur = SIM /\ r.evt = s.evt /\ r.cpu = s.cpu
  BY DEF SimOk, SimType, SwitchToSim
<1> HIDE DEF r
<1>2. SimOk(r)
  BY <1>1 DEF SimOk, Remembered
<1> QED BY <1>2 DEF r

LEMMA TimePassOk ==
  ASSUME NEW s, SimOk(s), s.cur # SIM, NEW n \in Int
  PROVE  SimOk(CPU_TimePass(s, n))
<1>1. s.cur \in CpuId /\ s.cpu[s.cur] = 0
  BY DEF SimOk, SimType
<1> QED BY <1>1, AdvanceOk, NewCpuEvtOk DEF CPU_TimePass

\* A CPU that runs is not the one that is woken.
LEMMA WakeupOk ==
  ASSUME NEW s, SimOk(s), NEW c \in CpuId, s.cur # c, NEW n \in Int
  PROVE  SimOk(CPU_Wakeup(s, c, n)) /\ CPU_Wakeup(s, c, n).cur = s.cur
BY NewCpuEvtOk DEF CPU_Wakeup

LEMMA PowerUpOk == SimOk(sim_PowerUp)
<1> DEFINE z == [evt |-> [i \in Slot |-> Free], hand |-> 0, cpu |-> [c \in CpuId |-> 0],
                 cur |-> SIM, dry |-> FALSE]
           r == NewCpuEvt(z, "CPU_FTL", 0)
<1>1. z \in SimType /\ z.cur = SIM /\ z.cpu["CPU_FTL"] = 0
  BY Constants DEF SimType
<1>2. SimOk(z)
  BY <1>1, Constants DEF SimOk, Remembered
<1>3. SimOk(r) /\ r.cur = SIM
  <2> HIDE DEF z
  <2>1. z.cur # "CPU_FTL"
    BY <1>1, Constants
  <2> QED BY <1>1, <1>2, <2>1, NewCpuEvtOk, Constants
<1>4. r.cpu["CPU_WORK"] = 0
  <2>1. z.cpu["CPU_WORK"] = 0 /\ "CPU_WORK" # "CPU_FTL"
    BY Constants
  <2> HIDE DEF z
  <2>2. SIM_NewEvt(z, "CPU", "CPU_FTL", 0).cpu = z.cpu /\ SIM_NewEvt(z, "CPU", "CPU_FTL", 0) \in
          [evt : {SIM_NewEvt(z, "CPU", "CPU_FTL", 0).evt}, hand : Slot \cup {0},
           cpu : [CpuId -> Slot \cup {0}], cur : CpuId \cup {SIM}, dry : BOOLEAN]
    BY <1>1 DEF SIM_NewEvt, SimType
  <2> QED BY <2>1, <2>2, Constants DEF NewCpuEvt
<1> HIDE DEF r, z
<1>5. SimOk(NewCpuEvt(r, "CPU_WORK", 0))
  <2>1. r.cur # "CPU_WORK"
    BY <1>3, Constants
  <2> QED BY <1>3, <1>4, <2>1, NewCpuEvtOk, Constants
<1> QED BY <1>5 DEF sim_PowerUp, r, z

\* The handler of an event that is no CPU's starts in a good state.
LEMMA InHandOk ==
  ASSUME SimOk(sim), NEW i \in Slot, sim.cur = SIM
  PROVE  /\ InHand(i) \in SimType /\ InHand(i).cur = SIM /\ InHand(i).cpu = sim.cpu
         /\ InHand(i).evt[i] = Free
         /\ \A j \in Slot \ {i} : InHand(i).evt[j].own = sim.evt[j].own
                                  /\ InHand(i).evt[j].arg = sim.evt[j].arg
         /\ sim.evt[i].own # "CPU" => SimOk(InHand(i))
<1> DEFINE a == Advance(sim, sim.evt[i].in)
           r == InHand(i)
<1>1. sim.evt[i].in \in Int
  BY DEF SimOk, SimType, EvtSet
<1>2. /\ a \in SimType /\ a.cur = SIM /\ a.cpu = sim.cpu
      /\ \A j \in Slot : a.evt[j].own = sim.evt[j].own /\ a.evt[j].arg = sim.evt[j].arg
  BY <1>1, AdvanceOk DEF SimOk
<1>3. r = [a EXCEPT !.evt[i] = Free, !.hand = i]
  BY DEF InHand
<1> HIDE DEF a, r
<1>4. r \in SimType /\ r.cur = SIM /\ r.cpu = sim.cpu /\ r.evt = [a.evt EXCEPT ![i] = Free]
  BY <1>2, <1>3, Constants DEF SimType
<1>5. r.evt[i] = Free /\ \A j \in Slot \ {i} : r.evt[j] = a.evt[j]
  BY <1>2, <1>4 DEF SimType
<1>6. ASSUME sim.evt[i].own # "CPU" PROVE SimOk(r)
  <2>1. \A j \in Slot : IF j = i THEN r.evt[j].own # "CPU" /\ sim.evt[j].own # "CPU"
                        ELSE r.evt[j].own = sim.evt[j].own /\ r.evt[j].arg = sim.evt[j].arg
    BY <1>2, <1>5, <1>6, Constants
  <2> QED BY <1>4, <2>1 DEF SimOk, Remembered
<1> QED BY <1>2, <1>4, <1>5, <1>6 DEF r

LEMMA CpuEventOk ==
  ASSUME SimOk(sim), NEW i \in Slot, sim.cur = SIM, sim.evt[i].own = "CPU", cpu_HandleEvt(i)
  PROVE  SimOk(sim')
<1> DEFINE c == sim.evt[i].arg
           a == InHand(i)
<1>1. c \in CpuId /\ sim.cpu[c] = i
  BY DEF SimOk, Remembered
<1>2. /\ a \in SimType /\ a.cpu = sim.cpu /\ a.evt[i] = Free
      /\ \A j \in Slot \ {i} : a.evt[j].own = sim.evt[j].own /\ a.evt[j].arg = sim.evt[j].arg
  BY InHandOk
<1>3. sim' = [a EXCEPT !.cur = c, !.cpu[c] = 0]
  BY DEF cpu_HandleEvt
<1> HIDE DEF c, a
<1>4. sim' \in SimType /\ sim'.cur = c /\ sim'.evt = a.evt /\ sim'.cpu = [sim.cpu EXCEPT ![c] = 0]
  BY <1>1, <1>2, <1>3 DEF SimType
<1>5. \A d \in CpuId : sim'.cpu[d] = IF d = c THEN 0 ELSE sim.cpu[d]
  BY <1>4 DEF SimOk, SimType
<1>6. \A j \in Slot : IF j = i THEN sim'.evt[j].own # "CPU"
                      ELSE sim'.evt[j].own = sim.evt[j].own /\ sim'.evt[j].arg = sim.evt[j].arg
  BY <1>2, <1>4, Constants
<1>7. Remembered(sim') /\ \A j \in Slot : sim'.evt[j].own = "CPU" => sim'.evt[j].arg \in CpuId
  BY <1>1, <1>5, <1>6, Constants DEF SimOk, Remembered
<1> QED BY <1>1, <1>4, <1>5, <1>7 DEF SimOk

-----------------------------------------------------------------------------
(* The steps of SimFtl.                                                    *)

LEMMA EndTurnOk ==
  ASSUME NEW s, SimOk(s), s.cur = "CPU_FTL", NEW t, NEW w, EndTurn(t, w, s)
  PROVE  SimOk(sim')
<1>1. sim' = CPU_TimePass(s, TASK_TIME) /\ TASK_TIME \in Int /\ s.cur # SIM
  BY SimFtlAssumption, Constants DEF EndTurn
<1> QED BY <1>1, TimePassOk

LEMMA NextOk == SimOk(sim) /\ [Next]_vars => SimOk(sim')
<1> SUFFICES ASSUME SimOk(sim), [Next]_vars PROVE SimOk(sim')
  OBVIOUS
<1>1. "CPU_FTL" # SIM /\ "CPU_WORK" # SIM /\ "CPU_FTL" # "CPU_WORK" /\ TICK \in Int
      /\ \A n \in NandTimes : n \in Int
  BY SimAssumption, SimFtlAssumption DEF SIM
<1>13. END_RUN \in Int
  BY SMT DEF END_RUN
<1>2. CASE UNCHANGED vars
  BY <1>2 DEF vars
<1>3. CASE FTL_Main
  BY <1>1, <1>3, NewEvtOk, Constants DEF FTL_Main, TMR_Add, Owner
<1>4. CASE Gather
  BY <1>4, SwitchOk DEF Gather, CPU_Sleep
<1>5. CASE TurnOfTask
  <2>1. sim.cur = "CPU_FTL" /\ SimOk(Answer(sim)) /\ Answer(sim).cur = sim.cur
    BY <1>1, <1>5, WakeupOk, Constants DEF TurnOfTask, Answer
  <2>2. \A n \in NandTimes : SimOk(SIM_NewEvt(sim, "NFC", "CPU_FTL", n))
                             /\ SIM_NewEvt(sim, "NFC", "CPU_FTL", n).cur = sim.cur
    BY <1>1, NewEvtOk, Constants DEF Owner
  <2>3. \E t, w : \/ EndTurn(t, w, sim) \/ EndTurn(t, w, Answer(sim))
                  \/ \E n \in NandTimes : EndTurn(t, w, SIM_NewEvt(sim, "NFC", "CPU_FTL", n))
    BY <1>5 DEF TurnOfTask, ReqTurn, RespTurn, GcTurn, MetaTurn
  <2> QED BY <2>1, <2>2, <2>3, EndTurnOk
<1>6. ASSUME NEW r, Request(r) PROVE SimOk(sim')
  <2>1. sim' = CPU_TimePass(sim, 5) /\ sim.cur = "CPU_WORK"
    BY <1>6 DEF Request
  <2>2. 5 \in Int /\ sim.cur # SIM
    BY <1>1, <2>1
  <2> QED BY <2>1, <2>2, TimePassOk
<1>7. CASE Kick
  <2>1. sim' = CPU_Wakeup(sim, "CPU_FTL", 1) /\ sim.cur = "CPU_WORK"
    BY <1>7 DEF Kick
  <2>2. 1 \in Int /\ sim.cur # "CPU_FTL"
    BY <1>1, <2>1
  <2> QED BY <2>1, <2>2, WakeupOk, Constants
<1>8. CASE BusyWaitDone
  <2>1. CASE sim' = CPU_Sleep(sim) \/ UNCHANGED sim
    BY <2>1, SwitchOk DEF CPU_Sleep
  <2>2. CASE sim' = CPU_TimePass(SIM_NewEvt(sim, "POWER", SIM, 1), END_RUN) /\ sim.cur = "CPU_WORK"
    BY <1>1, <1>13, <2>2, NewEvtOk, TimePassOk DEF Owner
  <2> QED BY <1>8, <2>1, <2>2 DEF BusyWaitDone
<1>9. CASE CpuEvent
  BY <1>9, CpuEventOk DEF CpuEvent, Take
<1>10. CASE TimerEvent
  <2>1. PICK i \in Slot : Take(i, Booting) /\ sim.evt[i].own = "TIMER" /\ tmr_HandleEvt(i)
    BY <1>10 DEF TimerEvent
  <2>2. SimOk(InHand(i)) /\ InHand(i).cur = SIM
    BY <2>1, InHandOk DEF Take
  <2>3. SimOk(SIM_NewEvt(InHand(i), "TIMER", "CPU_FTL", TICK))
        /\ SIM_NewEvt(InHand(i), "TIMER", "CPU_FTL", TICK).cur = SIM
    BY <1>1, <2>2, NewEvtOk, Constants DEF Owner
  <2> QED BY <1>1, <2>1, <2>3, WakeupOk, SwitchOk, Constants DEF tmr_HandleEvt
<1>11. CASE NfcEvent
  <2>1. PICK i \in Slot : Take(i, Booting) /\ sim.evt[i].own = "NFC"
                          /\ sim' = SwitchToSim(CPU_Wakeup(InHand(i), "CPU_FTL", 3))
    BY <1>11 DEF NfcEvent
  <2>2. SimOk(InHand(i)) /\ InHand(i).cur = SIM
    BY <2>1, InHandOk DEF Take
  <2> QED BY <1>1, <2>1, <2>2, WakeupOk, SwitchOk, Constants
<1>12. CASE PowerEvent
  BY <1>12, PowerUpOk DEF PowerEvent
<1> QED BY <1>2, <1>3, <1>4, <1>5, <1>6, <1>7, <1>8, <1>9, <1>10, <1>11, <1>12 DEF Next

\* A CPU has at most one event, the one it remembers, and none while it runs:
\* no wake-up, sleep or passing of time leaves a second one behind.
THEOREM OneCpuEventAlways == Spec => []OneCpuEvent
<1>1. Init => SimOk(sim)
  BY PowerUpOk DEF Init
<1>2. SimOk(sim) /\ [Next]_vars => SimOk(sim)'
  BY NextOk DEF SimOk, SimType, Remembered, Slot, CpuId, EvtSet
<1>3. Spec => []SimOk(sim)
  BY <1>1, <1>2, PTL DEF Spec
<1> QED BY <1>3, SimOkSuffices, PTL

-----------------------------------------------------------------------------
(* The pool of events lasts.  What an event is for: a CPU by name, or its  *)
(* owner.  There is at most one event of each kind.                        *)

Kind(e) == IF e.own = "CPU" THEN e.arg ELSE e.own
Kinds == {"CPU_FTL", "CPU_WORK", "TIMER", "NFC", "POWER"}
Present(s) == {Kind(s.evt[i]) : i \in Queued(s)}

EventsOk(s) ==
  /\ s \in SimType /\ ~s.dry
  /\ \A i \in Slot : /\ s.evt[i].in >= 0
                     /\ s.evt[i] # Free => Kind(s.evt[i]) \in Kinds
  /\ \A i, j \in Queued(s) : Kind(s.evt[i]) = Kind(s.evt[j]) => i = j

GoodSim(s) == SimOk(s) /\ EventsOk(s)

LEMMA CpuPresent ==
  ASSUME NEW s, GoodSim(s), NEW c \in CpuId
  PROVE  c \in Present(s) <=> s.cpu[c] # 0
<1>1. s.cpu[c] \in Slot \cup {0}
  BY DEF GoodSim, SimOk, SimType
<1>2. \A i \in Slot : Kind(s.evt[i]) = c <=> s.evt[i].own = "CPU" /\ s.evt[i].arg = c
  <2> TAKE i \in Slot
  <2>1. s.evt[i].own \in Owner \cup {"POOL"}
    BY DEF GoodSim, SimOk, SimType, EvtSet
  <2> QED BY <2>1 DEF Kind, CpuId, Owner
<1>3. \A i \in Slot : s.evt[i].own = "CPU" => i \in Queued(s)
  BY Constants DEF Queued
<1> QED BY <1>1, <1>2, <1>3, Constants DEF Present, Queued, GoodSim, SimOk, Remembered

LEMMA AddOne ==
  ASSUME NEW S, IsFiniteSet(S), NEW x, x \notin S
  PROVE  IsFiniteSet(S \cup {x}) /\ Cardinality(S \cup {x}) = Cardinality(S) + 1
BY FS_AddElement

LEMMA FiveKinds == IsFiniteSet(Kinds) /\ Cardinality(Kinds) = 5
<1> DEFINE A == {"CPU_FTL"}
           B == A \cup {"CPU_WORK"}
           C == B \cup {"TIMER"}
           D == C \cup {"NFC"}
           E == D \cup {"POWER"}
<1>1. "CPU_WORK" \notin A /\ "TIMER" \notin B /\ "NFC" \notin C /\ "POWER" \notin D /\ E = Kinds
  BY DEF Kinds
<1>2. IsFiniteSet(A) /\ Cardinality(A) = 1
  BY FS_Singleton
<1> HIDE DEF A
<1>3. IsFiniteSet(B) /\ Cardinality(B) = 2
  BY <1>1, <1>2, AddOne
<1> HIDE DEF B
<1>4. IsFiniteSet(C) /\ Cardinality(C) = 3
  BY <1>1, <1>3, AddOne
<1> HIDE DEF C
<1>5. IsFiniteSet(D) /\ Cardinality(D) = 4
  BY <1>1, <1>4, AddOne
<1> HIDE DEF D
<1>6. IsFiniteSet(E) /\ Cardinality(E) = 5
  BY <1>1, <1>5, AddOne
<1> QED BY <1>1, <1>6

\* With five events the pool is not empty as long as two of the five kinds are
\* missing: a sixth place is that of the event in hand.
LEMMA Room ==
  ASSUME NUM_EVENT >= 5, NEW s, EventsOk(s),
         NEW k \in Kinds \ Present(s), NEW l \in Kinds \ Present(s), k # l
  PROVE  Pool(s) # {}
<1> DEFINE T == (Kinds \ {k}) \ {l}
           H == T \cup {"HAND"}
           f == [i \in Slot |-> IF i \in Queued(s) THEN Kind(s.evt[i]) ELSE "HAND"]
<1> HIDE DEF f
<1>1. IsFiniteSet(Kinds) /\ Cardinality(Kinds) = 5
  BY FiveKinds
<1>2. IsFiniteSet(T) /\ Cardinality(T) = 3
  <2> DEFINE K == Kinds \ {k}
  <2>1. k \in Kinds /\ l \in K
    OBVIOUS
  <2>2. IsFiniteSet(K) /\ Cardinality(K) = 4
    BY <1>1, <2>1, FS_RemoveElement
  <2> HIDE DEF K
  <2>3. IsFiniteSet(K \ {l}) /\ Cardinality(K \ {l}) = 3
    BY <2>1, <2>2, FS_RemoveElement
  <2> QED BY <2>3 DEF K
<1>3. IsFiniteSet(H) /\ Cardinality(H) = 4
  <2>1. "HAND" \notin T
    BY DEF Kinds
  <2> HIDE DEF T
  <2> QED BY <1>2, <2>1, AddOne
<1>4. IsFiniteSet(Slot) /\ Cardinality(Slot) = NUM_EVENT
  BY SimAssumption, FS_Interval DEF Slot
<1>5. f \in [Slot -> H]
  <2>1. \A i \in Queued(s) : Kind(s.evt[i]) \in Present(s) /\ Kind(s.evt[i]) \in Kinds
    BY DEF Present, EventsOk, Queued
  <2> QED BY <2>1 DEF f
<1>6. 4 < NUM_EVENT
  BY SimAssumption
<1> HIDE DEF H, T
<1>7. PICK x \in Slot, y \in Slot : x # y /\ f[x] = f[y]
  BY <1>3, <1>4, <1>5, <1>6, FS_PigeonHole
<1>8. x \in Queued(s) <=> y \in Queued(s)
  BY <1>7 DEF f, EventsOk, Queued, Kinds
<1>9. x \notin Queued(s)
  BY <1>7, <1>8 DEF f, EventsOk
<1>10. x # s.hand \/ y # s.hand
  BY <1>7
<1> QED BY <1>8, <1>9, <1>10 DEF Pool, Queued

\* What a new event of a kind that is missing leaves behind.
Added(s, r, own, arg, n) ==
  \E j \in Slot : /\ s.evt[j] = Free /\ r.evt = [s.evt EXCEPT ![j] = Evt(own, arg, n)]
                  /\ r.cpu = IF own = "CPU" THEN [s.cpu EXCEPT ![arg] = j] ELSE s.cpu

LEMMA AddedOk ==
  ASSUME NEW s, EventsOk(s), NEW r \in SimType, ~r.dry,
         NEW own \in Owner, NEW arg \in CpuId \cup {SIM}, NEW n \in Nat,
         Kind(Evt(own, arg, n)) \in Kinds \ Present(s), Added(s, r, own, arg, n)
  PROVE  EventsOk(r) /\ Present(r) = Present(s) \cup {Kind(Evt(own, arg, n))}
<1> DEFINE e == Evt(own, arg, n)
<1>1. PICK j \in Slot : s.evt[j] = Free /\ r.evt = [s.evt EXCEPT ![j] = e]
  BY DEF Added
<1>2. e.in = n /\ e # Free
  BY DEF Evt, Free, Owner
<1> HIDE DEF e
<1>3. \A i \in Slot : r.evt[i] = IF i = j THEN e ELSE s.evt[i]
  BY <1>1 DEF EventsOk, SimType
<1>4. Queued(r) = Queued(s) \cup {j} /\ j \notin Queued(s)
  BY <1>1, <1>2, <1>3 DEF Queued
<1>5. \A i \in Queued(s) : Kind(s.evt[i]) # Kind(e)
  BY DEF Present, e
<1>6. Present(r) = Present(s) \cup {Kind(e)}
  BY <1>3, <1>4 DEF Present, Queued
<1>7. EventsOk(r)
  BY <1>2, <1>3, <1>4, <1>5 DEF EventsOk, e, Queued
<1> QED BY <1>6, <1>7 DEF e

LEMMA Make ==
  ASSUME NUM_EVENT >= 5, NEW s, GoodSim(s), NEW own \in {"TIMER", "NFC", "POWER"},
         NEW arg \in CpuId \cup {SIM}, NEW n \in Nat,
         own \notin Present(s), NEW l \in Kinds \ Present(s), own # l
  PROVE  LET r == SIM_NewEvt(s, own, arg, n) IN
         /\ GoodSim(r) /\ Present(r) = Present(s) \cup {own} /\ r.cur = s.cur
         /\ Added(s, r, own, arg, n)
<1> DEFINE r == SIM_NewEvt(s, own, arg, n)
           j == NextSlot(s)
<1>1. own \in Kinds /\ own \in Owner \ {"CPU"} /\ Kind(Evt(own, arg, n)) = own /\ n \in Int
  BY DEF Kinds, Owner, Kind, Evt
<1>2. SimOk(r) /\ r.cur = s.cur
  BY <1>1, NewEvtOk DEF GoodSim
<1>3. Pool(s) # {}
  BY <1>1, Room DEF GoodSim
<1>4. j \in Slot /\ s.evt[j] = Free
  BY <1>3, FromPool DEF GoodSim, SimOk
<1>5. r = [s EXCEPT !.evt[j] = Evt(own, arg, n)]
  BY <1>3 DEF SIM_NewEvt
<1> HIDE DEF r, j
<1>6. r.evt = [s.evt EXCEPT ![j] = Evt(own, arg, n)] /\ r.cpu = s.cpu /\ r.dry = s.dry
  BY <1>5 DEF GoodSim, SimOk, SimType
<1>7. Added(s, r, own, arg, n)
  BY <1>1, <1>4, <1>6 DEF Added
<1>8. EventsOk(r) /\ Present(r) = Present(s) \cup {own}
  <2>1. EventsOk(s) /\ r \in SimType /\ ~r.dry
    BY <1>2, <1>6 DEF GoodSim, EventsOk, SimOk
  <2> QED BY <1>1, <1>7, <2>1, AddedOk
<1> QED BY <1>2, <1>7, <1>8 DEF GoodSim, r

\* The same for a CPU, and for the CPU that runs and then switches back.
LEMMA MakeCpu ==
  ASSUME NUM_EVENT >= 5, NEW s, GoodSim(s), NEW c \in CpuId, NEW n \in Nat,
         s.cpu[c] = 0, NEW l \in Kinds \ Present(s), c # l
  PROVE  LET r == NewCpuEvt(s, c, n) IN
         /\ s.cur # c => GoodSim(r) /\ r.cur = s.cur
         /\ GoodSim(SwitchToSim(r)) /\ SwitchToSim(r).cur = SIM
         /\ Present(r) = Present(s) \cup {c}
         /\ Present(SwitchToSim(r)) = Present(s) \cup {c}
         /\ Added(s, r, "CPU", c, n) /\ Added(s, SwitchToSim(r), "CPU", c, n)
<1> DEFINE r == NewCpuEvt(s, c, n)
           q == SwitchToSim(r)
           j == NextSlot(s)
<1>1. c \in Kinds /\ "CPU" \in Owner /\ Kind(Evt("CPU", c, n)) = c /\ c \notin Present(s)
      /\ n \in Int
  BY CpuPresent DEF Kinds, CpuId, Owner, Kind, Evt
<1>2. (s.cur # c => SimOk(r) /\ r.cur = s.cur) /\ SimOk(q)
  BY <1>1, NewCpuEvtOk DEF GoodSim
<1>3. Pool(s) # {}
  BY <1>1, Room DEF GoodSim
<1>4. j \in Slot /\ s.evt[j] = Free
  BY <1>3, FromPool DEF GoodSim, SimOk
<1>5. r = [[s EXCEPT !.evt[j] = Evt("CPU", c, n)] EXCEPT !.cpu[c] = j]
  BY <1>3 DEF NewCpuEvt, SIM_NewEvt
<1> HIDE DEF r, j
<1>6. /\ r.evt = [s.evt EXCEPT ![j] = Evt("CPU", c, n)]
      /\ r.cpu = [s.cpu EXCEPT ![c] = j] /\ r.dry = s.dry
  BY <1>5 DEF GoodSim, SimOk, SimType
<1>7. r \in SimType
  <2>1. Evt("CPU", c, n) \in EvtSet
    BY DEF Evt, EvtSet, Owner
  <2> QED BY <1>4, <1>5, <2>1 DEF GoodSim, SimOk, SimType
<1>8. q \in SimType /\ q.cur = SIM /\ q.evt = r.evt /\ q.cpu = r.cpu /\ q.dry = r.dry
  BY <1>7 DEF SwitchToSim, SimType
<1> HIDE DEF q
<1>9. Added(s, r, "CPU", c, n) /\ Added(s, q, "CPU", c, n)
  BY <1>4, <1>6, <1>8 DEF Added
<1>10. ~r.dry /\ ~q.dry
  BY <1>6, <1>8 DEF GoodSim, EventsOk
<1>11. /\ EventsOk(r) /\ Present(r) = Present(s) \cup {c}
       /\ EventsOk(q) /\ Present(q) = Present(s) \cup {c}
  BY <1>1, <1>7, <1>8, <1>9, <1>10, AddedOk DEF GoodSim
<1> QED BY <1>2, <1>8, <1>9, <1>11 DEF GoodSim, r, q

-----------------------------------------------------------------------------
(* What the operations of the simulator do to the kinds of events present  *)
(* and to the time left to each.                                           *)

Due(s, k) == s.evt[CHOOSE i \in Queued(s) : Kind(s.evt[i]) = k].in

More(s, r, k, n) == /\ Present(r) = Present(s) \cup {k} /\ Due(r, k) = n
                    /\ \A l \in Present(s) : Due(r, l) = Due(s, l)
Later(s, r, n)   == /\ Present(r) = Present(s)
                    /\ \A l \in Present(s) : Due(r, l) = Due(s, l) - n
Less(s, r, k)    == /\ Present(r) = Present(s) \ {k}
                    /\ \A l \in Present(r) : Due(r, l) = Due(s, l) - Due(s, k)

LEMMA DueOf ==
  ASSUME NEW s, EventsOk(s)
  PROVE  /\ \A i \in Queued(s) : Due(s, Kind(s.evt[i])) = s.evt[i].in
         /\ \A k \in Present(s) : /\ k \in Kinds /\ Due(s, k) \in Nat
                                  /\ \E i \in Queued(s) : Kind(s.evt[i]) = k
<1>1. \A i \in Queued(s) : Due(s, Kind(s.evt[i])) = s.evt[i].in
  BY DEF Due, EventsOk
<1>2. \A i \in Queued(s) : s.evt[i].in \in Nat /\ Kind(s.evt[i]) \in Kinds
  BY DEF EventsOk, SimType, EvtSet, Queued
<1> QED BY <1>1, <1>2 DEF Present

LEMMA AddedMore ==
  ASSUME NEW s, EventsOk(s), NEW r, EventsOk(r), NEW own \in Owner, NEW arg, NEW n \in Nat,
         Kind(Evt(own, arg, n)) \notin Present(s), Added(s, r, own, arg, n),
         Present(r) = Present(s) \cup {Kind(Evt(own, arg, n))}
  PROVE  More(s, r, Kind(Evt(own, arg, n)), n)
<1> DEFINE e == Evt(own, arg, n)
<1>1. PICK j \in Slot : s.evt[j] = Free /\ r.evt = [s.evt EXCEPT ![j] = e]
  BY DEF Added
<1>2. e.in = n /\ e # Free
  BY DEF Evt, Free, Owner
<1> HIDE DEF e
<1>3. \A i \in Slot : r.evt[i] = IF i = j THEN e ELSE s.evt[i]
  BY <1>1 DEF EventsOk, SimType
<1>4. j \in Queued(r) /\ r.evt[j] = e /\ \A i \in Queued(s) : i \in Queued(r) /\ r.evt[i] = s.evt[i]
  BY <1>1, <1>2, <1>3 DEF Queued
<1>5. Due(r, Kind(e)) = n
  BY <1>2, <1>4, DueOf
<1>6. ASSUME NEW l \in Present(s) PROVE Due(r, l) = Due(s, l)
  <2>1. PICK i \in Queued(s) : Kind(s.evt[i]) = l
    BY <1>6, DueOf
  <2>2. Due(s, l) = s.evt[i].in /\ Due(r, l) = r.evt[i].in
    BY <1>4, <2>1, DueOf
  <2> QED BY <1>4, <2>1, <2>2
<1> QED BY <1>5, <1>6 DEF More, e

LEMMA MakeMore ==
  ASSUME NUM_EVENT >= 5, NEW s, GoodSim(s), NEW own \in {"TIMER", "NFC", "POWER"},
         NEW arg \in CpuId \cup {SIM}, NEW n \in Nat,
         own \notin Present(s), NEW l \in Kinds \ Present(s), own # l
  PROVE  LET r == SIM_NewEvt(s, own, arg, n) IN
         GoodSim(r) /\ r.cur = s.cur /\ More(s, r, own, n)
<1> DEFINE r == SIM_NewEvt(s, own, arg, n)
<1>1. /\ GoodSim(r) /\ Present(r) = Present(s) \cup {own} /\ r.cur = s.cur
      /\ Added(s, r, own, arg, n)
  BY Make
<1>2. own \in Owner /\ Kind(Evt(own, arg, n)) = own
  BY DEF Owner, Kind, Evt
<1> HIDE DEF r
<1>3. More(s, r, own, n)
  BY <1>1, <1>2, AddedMore DEF GoodSim
<1> QED BY <1>1, <1>3 DEF r

LEMMA MakeCpuMore ==
  ASSUME NUM_EVENT >= 5, NEW s, GoodSim(s), NEW c \in CpuId, NEW n \in Nat,
         s.cpu[c] = 0, NEW l \in Kinds \ Present(s), c # l
  PROVE  LET r == NewCpuEvt(s, c, n) IN
         /\ s.cur # c => GoodSim(r) /\ r.cur = s.cur /\ More(s, r, c, n)
         /\ GoodSim(SwitchToSim(r)) /\ SwitchToSim(r).cur = SIM /\ More(s, SwitchToSim(r), c, n)
<1> DEFINE r == NewCpuEvt(s, c, n)
           q == SwitchToSim(r)
<1>1. /\ s.cur # c => GoodSim(r) /\ r.cur = s.cur
      /\ GoodSim(q) /\ q.cur = SIM
      /\ Present(r) = Present(s) \cup {c} /\ Present(q) = Present(s) \cup {c}
      /\ Added(s, r, "CPU", c, n) /\ Added(s, q, "CPU", c, n)
  BY MakeCpu
<1>2. "CPU" \in Owner /\ Kind(Evt("CPU", c, n)) = c /\ c \notin Present(s)
  BY CpuPresent DEF Owner, Kind, Evt
<1> HIDE DEF r, q
<1>3. s.cur # c => More(s, r, c, n)
  BY <1>1, <1>2, AddedMore DEF GoodSim
<1>4. More(s, q, c, n)
  BY <1>1, <1>2, AddedMore DEF GoodSim
<1> QED BY <1>1, <1>3, <1>4 DEF r, q

LEMMA SwitchGood ==
  ASSUME NEW s, GoodSim(s)
  PROVE  LET r == SwitchToSim(s) IN
         /\ GoodSim(r) /\ r.cur = SIM /\ Present(r) = Present(s)
         /\ \A l \in Present(s) : Due(r, l) = Due(s, l)
<1> DEFINE r == SwitchToSim(s)
<1>1. SimOk(r)
  BY SwitchOk DEF GoodSim
<1>2. r \in SimType /\ r.cur = SIM /\ r.evt = s.evt /\ r.dry = s.dry
  BY DEF GoodSim, SimOk, SimType, SwitchToSim
<1> HIDE DEF r
<1>3. Queued(r) = Queued(s)
  BY <1>2 DEF Queued
<1>4. Present(r) = Present(s) /\ \A l \in Present(s) : Due(r, l) = Due(s, l)
  BY <1>2, <1>3 DEF Present, Due
<1>5. EventsOk(r)
  BY <1>2, <1>3 DEF EventsOk, GoodSim
<1> QED BY <1>1, <1>2, <1>4, <1>5 DEF GoodSim, r

LEMMA AdvanceGood ==
  ASSUME NEW s, GoodSim(s), NEW n \in Int, \A l \in Present(s) : Due(s, l) >= n
  PROVE  LET r == Advance(s, n) IN GoodSim(r) /\ r.cur = s.cur /\ r.cpu = s.cpu /\ Later(s, r, n)
<1> DEFINE r == Advance(s, n)
<1>1. SimOk(r) /\ r.cur = s.cur /\ r.cpu = s.cpu
  BY AdvanceOk DEF GoodSim
<1>2. r.dry = s.dry
        /\ r.evt = [i \in Slot |-> IF s.evt[i] = Free THEN Free ELSE [s.evt[i] EXCEPT !.in = @ - n]]
  BY DEF Advance, GoodSim, SimOk, SimType
<1>3. ASSUME NEW i \in Slot
      PROVE  /\ r.evt[i] = Free <=> s.evt[i] = Free
             /\ Kind(r.evt[i]) = Kind(s.evt[i])
             /\ r.evt[i].in >= 0
             /\ s.evt[i] # Free => r.evt[i].in = s.evt[i].in - n
  <2>1. r.evt[i] = IF s.evt[i] = Free THEN Free ELSE [s.evt[i] EXCEPT !.in = @ - n]
    BY <1>2
  <2> HIDE DEF r
  <2>2. CASE s.evt[i] = Free
    BY <2>1, <2>2 DEF Free, Evt
  <2>3. CASE s.evt[i] # Free
    <3>1. s.evt[i] \in EvtSet
      BY DEF GoodSim, SimOk, SimType
    <3>2. /\ r.evt[i].own = s.evt[i].own /\ r.evt[i].arg = s.evt[i].arg
          /\ r.evt[i].in = s.evt[i].in - n /\ s.evt[i].in \in Int
      BY <2>1, <2>3, <3>1 DEF EvtSet
    <3>3. Kind(s.evt[i]) \in Kinds /\ i \in Queued(s) /\ Kind(s.evt[i]) \in Present(s)
      BY <2>3 DEF GoodSim, EventsOk, Queued, Present
    <3>4. s.evt[i].own # "POOL"
      BY <3>3 DEF Kind, Kinds
    <3>5. s.evt[i].in >= n
      BY <3>3, DueOf DEF GoodSim
    <3>6. r.evt[i] # Free /\ Kind(r.evt[i]) = Kind(s.evt[i])
      BY <3>2, <3>4 DEF Free, Evt, Kind
    <3> QED BY <2>3, <3>2, <3>5, <3>6
  <2> QED BY <2>2, <2>3
<1> HIDE DEF r
<1>4. Queued(r) = Queued(s)
  BY <1>3 DEF Queued
<1>5. EventsOk(r)
  BY <1>1, <1>2, <1>3, <1>4 DEF EventsOk, GoodSim, SimOk, Queued
<1>6. Present(r) = Present(s)
  BY <1>3, <1>4 DEF Present, Queued
<1>7. ASSUME NEW l \in Present(s) PROVE Due(r, l) = Due(s, l) - n
  <2>1. PICK i \in Queued(s) : Kind(s.evt[i]) = l
    BY <1>7, DueOf DEF GoodSim
  <2>2. Due(s, l) = s.evt[i].in /\ Due(r, l) = r.evt[i].in
    BY <1>3, <1>4, <1>5, <2>1, DueOf DEF GoodSim, Queued
  <2> QED BY <1>3, <2>1, <2>2 DEF Queued
<1> QED BY <1>1, <1>5, <1>6, <1>7 DEF GoodSim, Later, r

LEMMA TimePassGood ==
  ASSUME NUM_EVENT >= 5, NEW s, GoodSim(s), NEW c \in CpuId, s.cur = c, NEW n \in Nat,
         NEW l \in Kinds \ Present(s), l # c
  PROVE  LET r == CPU_TimePass(s, n) IN
         /\ GoodSim(r)
         /\ \/ r.cur = c /\ Later(s, r, n) /\ \A k \in Present(s) : Due(s, k) > n
            \/ r.cur = SIM /\ More(s, r, c, n) /\ \E k \in Present(s) : Due(s, k) <= n
<1>1. s.cpu[c] = 0 /\ c # SIM
  BY Constants DEF GoodSim, SimOk
<1>2. PeekTick(s, n) <=> \A k \in Present(s) : Due(s, k) > n
  <2>1. \A i \in Queued(s) : Kind(s.evt[i]) \in Present(s) /\ Due(s, Kind(s.evt[i])) = s.evt[i].in
                             /\ s.evt[i].in \in Int
    BY DueOf DEF Present, GoodSim, SimOk, SimType, EvtSet, Queued
  <2>2. \A k \in Present(s) : \E i \in Queued(s) : Kind(s.evt[i]) = k
    BY DEF Present
  <2> QED BY <2>1, <2>2 DEF PeekTick
<1>3. \A k \in Present(s) : Due(s, k) \in Nat
  BY DueOf DEF GoodSim
<1>4. CASE PeekTick(s, n)
  <2>1. \A k \in Present(s) : Due(s, k) >= n
    BY <1>2, <1>3, <1>4
  <2>2. n \in Int
    OBVIOUS
  <2> QED BY <1>2, <1>4, <2>1, <2>2, AdvanceGood DEF CPU_TimePass
<1>5. CASE ~PeekTick(s, n)
  <2>1. \E k \in Present(s) : Due(s, k) <= n
    BY <1>2, <1>3, <1>5
  <2> QED BY <1>1, <1>5, <2>1, MakeCpuMore DEF CPU_TimePass
<1> QED BY <1>4, <1>5

LEMMA WakeupGood ==
  ASSUME NUM_EVENT >= 5, NEW s, GoodSim(s), NEW c \in CpuId, s.cur # c, NEW n \in Nat,
         NEW l \in Kinds \ Present(s), l # c
  PROVE  LET r == CPU_Wakeup(s, c, n) IN
         /\ GoodSim(r) /\ r.cur = s.cur
         /\ IF c \in Present(s) THEN r = s ELSE More(s, r, c, n)
<1>1. c \in Present(s) <=> s.cpu[c] # 0
  BY CpuPresent
<1> QED BY <1>1, MakeCpuMore DEF CPU_Wakeup

LEMMA CurNotPresent ==
  ASSUME NEW s, GoodSim(s), s.cur # SIM
  PROVE  s.cur \in CpuId /\ s.cur \notin Present(s)
<1>1. s.cur \in CpuId /\ s.cpu[s.cur] = 0
  BY DEF GoodSim, SimOk, SimType
<1> QED BY <1>1, CpuPresent

\* The event taken is the earliest; the others move closer.
LEMMA InHandGood ==
  ASSUME GoodSim(sim), NEW i \in Slot, NEW b, Take(i, b)
  PROVE  LET k == Kind(sim.evt[i])
             r == InHand(i) IN
         /\ sim.cur = SIM /\ k \in Present(sim) /\ \A l \in Present(sim) : Due(sim, k) <= Due(sim, l)
         /\ EventsOk(r) /\ r.cur = SIM /\ Less(sim, r, k) /\ r.cpu = sim.cpu
         /\ sim.evt[i].own # "CPU" => GoodSim(r)
<1> DEFINE k == Kind(sim.evt[i])
           a == Advance(sim, sim.evt[i].in)
           r == InHand(i)
<1>1. sim.cur = SIM /\ i \in Queued(sim) /\ \A j \in Queued(sim) : sim.evt[i].in <= sim.evt[j].in
  BY DEF Take, Earliest
<1>2. k \in Present(sim) /\ Due(sim, k) = sim.evt[i].in
  BY <1>1, DueOf DEF GoodSim, Present
<1>3. ASSUME NEW l \in Present(sim) PROVE Due(sim, k) <= Due(sim, l)
  <2>1. PICK j \in Queued(sim) : Kind(sim.evt[j]) = l
    BY <1>3, DueOf DEF GoodSim
  <2> QED BY <1>1, <1>2, <2>1, DueOf DEF GoodSim
<1>4. GoodSim(a) /\ a.cur = SIM /\ a.cpu = sim.cpu /\ Later(sim, a, Due(sim, k))
  <2>1. \A l \in Present(sim) : Due(sim, l) \in Nat
    BY DueOf DEF GoodSim
  <2>2. sim.evt[i].in \in Int /\ \A l \in Present(sim) : Due(sim, l) >= sim.evt[i].in
    BY <1>2, <1>3, <2>1
  <2> HIDE DEF a, k
  <2> QED BY <1>1, <1>2, <2>2, AdvanceGood DEF a
<1>5. r = [a EXCEPT !.evt[i] = Free, !.hand = i]
  BY DEF InHand
<1>6. r \in SimType /\ (sim.evt[i].own # "CPU" => SimOk(r))
  BY <1>1, InHandOk DEF GoodSim
<1>7. a.evt[i] # Free /\ Kind(a.evt[i]) = k
  <2>1. sim.evt[i] \in EvtSet /\ sim.evt[i] # Free /\ k \in Kinds
    BY <1>1 DEF GoodSim, SimOk, SimType, EventsOk, Queued
  <2>2. a.evt[i] = [sim.evt[i] EXCEPT !.in = @ - sim.evt[i].in]
    BY <2>1 DEF Advance, GoodSim, SimOk, SimType
  <2>3. a.evt[i].own = sim.evt[i].own /\ a.evt[i].arg = sim.evt[i].arg
    BY <2>1, <2>2 DEF EvtSet
  <2>4. sim.evt[i].own # "POOL"
    BY <2>1 DEF Kind, Kinds
  <2> QED BY <2>3, <2>4 DEF Kind, Free, Evt
<1> HIDE DEF a, r, k
<1>8. r.evt = [a.evt EXCEPT ![i] = Free] /\ r.cur = SIM /\ r.cpu = sim.cpu /\ r.dry = a.dry
  BY <1>4, <1>5 DEF GoodSim, SimOk, SimType
<1>9. \A j \in Slot : r.evt[j] = IF j = i THEN Free ELSE a.evt[j]
  BY <1>4, <1>8 DEF GoodSim, SimOk, SimType
<1>10. Queued(r) = Queued(a) \ {i} /\ i \in Queued(a)
  BY <1>7, <1>9 DEF Queued
<1>11. EventsOk(r)
  BY <1>4, <1>6, <1>8, <1>9, <1>10, Constants DEF GoodSim, EventsOk, Free, Evt
<1>12. Present(r) = Present(sim) \ {k}
  <2>1. \A j \in Queued(a) \ {i} : Kind(a.evt[j]) # k
    BY <1>4, <1>7, <1>10 DEF GoodSim, EventsOk
  <2>2. Present(r) = Present(a) \ {k}
    BY <1>7, <1>9, <1>10, <2>1 DEF Present, Queued
  <2> QED BY <1>4, <2>2 DEF Later
<1>13. ASSUME NEW l \in Present(r) PROVE Due(r, l) = Due(sim, l) - Due(sim, k)
  <2>1. PICK j \in Queued(r) : Kind(r.evt[j]) = l
    BY <1>11, <1>13, DueOf
  <2>2. r.evt[j] = a.evt[j] /\ j \in Queued(a)
    BY <1>9, <1>10, <2>1 DEF Queued
  <2>3. Due(r, l) = Due(a, l)
    BY <1>4, <1>11, <2>1, <2>2, DueOf DEF GoodSim
  <2> QED BY <1>4, <1>12, <2>3 DEF Later
<1>14. Less(sim, r, k)
  BY <1>12, <1>13 DEF Less
<1> QED BY <1>1, <1>2, <1>3, <1>6, <1>8, <1>11, <1>14 DEF GoodSim, r, k

LEMMA CpuEventGood ==
  ASSUME GoodSim(sim), NEW i \in Slot, NEW b, Take(i, b), sim.evt[i].own = "CPU", cpu_HandleEvt(i)
  PROVE  /\ sim.evt[i].arg \in Present(sim) \cap CpuId
         /\ \A l \in Present(sim) : Due(sim, sim.evt[i].arg) <= Due(sim, l)
         /\ GoodSim(sim') /\ sim'.cur = sim.evt[i].arg /\ Less(sim, sim', sim.evt[i].arg)
<1> DEFINE c == sim.evt[i].arg
           r == InHand(i)
<1>1. Kind(sim.evt[i]) = c /\ c \in CpuId /\ sim.cur = SIM
  BY DEF Kind, GoodSim, SimOk, Take
<1>2. /\ c \in Present(sim) /\ \A l \in Present(sim) : Due(sim, c) <= Due(sim, l)
      /\ EventsOk(r) /\ Less(sim, r, c)
  BY <1>1, InHandGood
<1>3. SimOk(sim')
  BY <1>1, CpuEventOk DEF GoodSim
<1>4. sim' = [r EXCEPT !.cur = c, !.cpu[c] = 0]
  BY DEF cpu_HandleEvt
<1> HIDE DEF r, c
<1>5. sim'.evt = r.evt /\ sim'.dry = r.dry /\ sim'.cur = c
  BY <1>2, <1>4 DEF EventsOk, SimType
<1>6. Queued(sim') = Queued(r)
  BY <1>5 DEF Queued
<1>7. EventsOk(sim')
  BY <1>2, <1>3, <1>5, <1>6 DEF EventsOk, SimOk
<1>8. Present(sim') = Present(r) /\ \A l \in Present(r) : Due(sim', l) = Due(r, l)
  BY <1>5, <1>6 DEF Present, Due
<1> QED BY <1>1, <1>2, <1>3, <1>5, <1>7, <1>8 DEF GoodSim, Less, c

LEMMA PowerUpGood ==
  ASSUME NUM_EVENT >= 5
  PROVE  /\ GoodSim(sim_PowerUp) /\ sim_PowerUp.cur = SIM /\ Present(sim_PowerUp) = CpuId
<1> DEFINE z == [evt |-> [i \in Slot |-> Free], hand |-> 0, cpu |-> [c \in CpuId |-> 0],
                 cur |-> SIM, dry |-> FALSE]
           r == NewCpuEvt(z, "CPU_FTL", 0)
<1>1. z \in SimType /\ z.cur = SIM /\ ~z.dry /\ \A i \in Slot : z.evt[i] = Free
  BY Constants DEF SimType
<1>2. /\ \A i \in Slot : z.evt[i].own # "CPU"
      /\ \A c \in CpuId : z.cpu[c] = 0 /\ z.cpu[c] \notin Slot
  BY <1>1, Constants
<1> HIDE DEF z
<1>3. Queued(z) = {} /\ Present(z) = {} /\ Free.in = 0
  BY <1>1 DEF Queued, Present, Free, Evt
<1>4. GoodSim(z)
  <2>1. SimOk(z)
    BY <1>1, <1>2 DEF SimOk, Remembered
  <2>2. EventsOk(z)
    BY <1>1, <1>3 DEF EventsOk
  <2> QED BY <2>1, <2>2 DEF GoodSim
<1>5. "CPU_FTL" \in CpuId /\ "CPU_WORK" \in CpuId /\ "CPU_FTL" # SIM /\ "CPU_WORK" # SIM
      /\ "POWER" \in Kinds /\ 0 \in Nat
  BY DEF CpuId, SIM, Kinds
<1>6. GoodSim(r) /\ r.cur = SIM /\ Present(r) = {"CPU_FTL"}
  <2>1. GoodSim(r) /\ r.cur = z.cur /\ More(z, r, "CPU_FTL", 0)
    BY <1>1, <1>2, <1>3, <1>4, <1>5, MakeCpuMore
  <2> QED BY <1>1, <1>3, <2>1 DEF More
<1> HIDE DEF r
<1>7. r.cpu["CPU_WORK"] = 0
  BY <1>5, <1>6, CpuPresent
<1>8. LET q == NewCpuEvt(r, "CPU_WORK", 0) IN
      GoodSim(q) /\ q.cur = SIM /\ More(r, q, "CPU_WORK", 0)
  BY <1>5, <1>6, <1>7, MakeCpuMore
<1>9. sim_PowerUp = NewCpuEvt(r, "CPU_WORK", 0)
  BY DEF sim_PowerUp, r, z
<1> QED BY <1>6, <1>8, <1>9 DEF More, CpuId

-----------------------------------------------------------------------------
(* The invariant of the loop and the host on the simulator.                *)

PcW == {"boot", "test", "request", "wait", "sd request", "sd wait", "off"}
PcF == {"boot", "loop", "turns"}
Down == {"sd request", "sd wait"}

\* Nothing of a request is left in the FTL.
Idle == reqQ = {} /\ "NFC" \notin Present(sim) /\ doneQ = 0

(* The one request of the host is in the queue, with the controller, in    *)
(* the done queue or answered.  The events of a power on come out in       *)
(* order, and from then on there is a tick to come.                        *)
HostInv ==
  /\ pcW \in PcW /\ pcF \in PcF /\ gbDone \in BOOLEAN /\ doneQ \in {0, 1}
  /\ gbDone \/ pcW \in {"boot", "test", "off"} => Idle
  /\ pcW \in Down => reqQ \subseteq {"shutdown"} /\ "NFC" \notin Present(sim) /\ doneQ = 0
  /\ reqQ # {} => "NFC" \notin Present(sim) /\ doneQ = 0
  /\ "NFC" \in Present(sim) => doneQ = 0
  /\ "POWER" \in Present(sim) => pcW = "off"
  /\ pcF = "boot" => /\ pcW = "boot" /\ sim.cur # "CPU_WORK"
                     /\ Present(sim) = IF sim.cur = SIM THEN CpuId ELSE {"CPU_WORK"}
  /\ pcF # "boot" => "TIMER" \in Present(sim)

\* A CPU that has something to see runs or has an event.
WakeInv ==
  /\ pcF = "loop" /\ (pendEvt # {} \/ nTick > 0 \/ rdyTask # {})
       => sim.cur = "CPU_FTL" \/ "CPU_FTL" \in Present(sim) \/ pcW \in {"request", "sd request"}
  /\ pcW \in {"wait", "sd wait"} /\ gbDone => sim.cur = "CPU_WORK" \/ "CPU_WORK" \in Present(sim)
  /\ pcW \in {"request", "sd request"} => sim.cur = "CPU_WORK" \/ "CPU_WORK" \in Present(sim)

LoopInv == GoodSim(sim) /\ HostInv /\ WakeInv

(* Once a shutdown is answered the event of CPU_FTL is more than 1 us      *)
(* behind that of CPU_WORK, which switches the power off 1 us later.       *)
TimeInv ==
  /\ pcW \in {"request", "wait"} \cup Down /\ "CPU_WORK" \in Present(sim)
       => Due(sim, "CPU_WORK") <= 5
  /\ gbDone /\ pcW \in Down \cup {"off"} =>
       /\ sim.cur # "CPU_FTL" /\ "CPU_FTL" \in Present(sim)
       /\ pcW = "off" => "POWER" \in Present(sim) /\ Due(sim, "POWER") < Due(sim, "CPU_FTL")
       /\ pcW # "off" => IF sim.cur = "CPU_WORK" THEN Due(sim, "CPU_FTL") > 1
                         ELSE Due(sim, "CPU_FTL") > Due(sim, "CPU_WORK") + 1

LEMMA Names == /\ CpuId \subseteq Kinds /\ SIM \notin CpuId /\ SIM \notin Kinds
               /\ "CPU_FTL" \in CpuId /\ "CPU_WORK" \in CpuId
               /\ "NFC" \in Kinds /\ "POWER" \in Kinds /\ "TIMER" \in Kinds
               /\ "NFC" \notin CpuId /\ "POWER" \notin CpuId /\ "TIMER" \notin CpuId
BY DEF CpuId, SIM, Kinds

\* What is known of any state of the invariant.
LEMMA LoopFacts ==
  ASSUME LoopInv
  PROVE  /\ sim.cur \in CpuId \cup {SIM} /\ sim.cur \notin Present(sim)
         /\ \A k \in Present(sim) : k \in Kinds /\ Due(sim, k) \in Nat
         /\ "NFC" \notin Present(sim) \/ "POWER" \notin Present(sim)
<1>1. GoodSim(sim) /\ sim.cur \in CpuId \cup {SIM}
  BY DEF LoopInv, GoodSim, SimOk, SimType
<1>2. \A k \in Present(sim) : k \in Kinds /\ Due(sim, k) \in Nat
  BY <1>1, DueOf DEF GoodSim
<1>3. sim.cur \notin Present(sim)
  BY <1>1, <1>2, CurNotPresent, Names
<1>4. "NFC" \notin Present(sim) \/ "POWER" \notin Present(sim)
  BY DEF LoopInv, HostInv, Idle
<1> QED BY <1>1, <1>2, <1>3, <1>4

\* The end of a turn, from a simulator state s.
LEMMA EndTurnView ==
  ASSUME NUM_EVENT >= 5, NEW s, GoodSim(s), s.cur = "CPU_FTL",
         "NFC" \notin Present(s) \/ "POWER" \notin Present(s), NEW t, NEW w, EndTurn(t, w, s)
  PROVE  /\ GoodSim(sim') /\ pcF' \in {"loop", "turns"} /\ pcW' = pcW
         /\ \/ /\ sim'.cur = "CPU_FTL" /\ Later(s, sim', TASK_TIME)
               /\ \A k \in Present(s) : Due(s, k) > TASK_TIME
            \/ /\ sim'.cur = SIM /\ More(s, sim', "CPU_FTL", TASK_TIME)
<1>1. sim' = CPU_TimePass(s, TASK_TIME) /\ pcF' \in {"loop", "turns"} /\ pcW' = pcW
  BY DEF EndTurn
<1>2. TASK_TIME \in Nat
  BY SimFtlAssumption
<1>3. CASE "NFC" \notin Present(s)
  BY <1>1, <1>2, <1>3, TimePassGood, Names
<1>4. CASE "POWER" \notin Present(s)
  BY <1>1, <1>2, <1>4, TimePassGood, Names
<1> QED BY <1>3, <1>4

\* Priming the state is priming the simulator's.
LEMMA Primes ==
  /\ Present(sim)' = Present(sim')
  /\ GoodSim(sim)' <=> GoodSim(sim')
  /\ \A k : Due(sim, k)' = Due(sim', k)
<1>1. Present(sim)' = Present(sim')
  BY DEF Present, Kind, Queued
<1>2. \A k : Due(sim, k)' = Due(sim', k)
  BY DEF Due, Kind, Queued
<1>3. SimOk(sim)' <=> SimOk(sim')
  BY DEF SimOk, Remembered
<1>4. EventsOk(sim)' <=> EventsOk(sim')
  BY DEF EventsOk, Kind, Queued
<1> QED BY <1>1, <1>2, <1>3, <1>4 DEF GoodSim

LEMMA GatherKeeps ==
  ASSUME LoopInv, Gather
  PROVE  LoopInv' /\ (TimeInv => TimeInv')
<1>1. /\ GoodSim(sim') /\ sim'.cur \in {sim.cur, SIM} /\ Present(sim') = Present(sim)
      /\ \A l \in Present(sim) : Due(sim', l) = Due(sim, l)
  BY SwitchGood DEF Gather, CPU_Sleep, LoopInv
<1>2. /\ sim.cur = "CPU_FTL" /\ pcF = "loop" /\ pcF' \in {"loop", "turns"}
      /\ pendEvt' = {} /\ nTick' = 0 /\ rdyTask' = {}
      /\ pcW' = pcW /\ reqQ' = reqQ /\ doneQ' = doneQ /\ gbDone' = gbDone
  BY DEF Gather
<1>3. HostInv'
  BY <1>1, <1>2, Primes DEF LoopInv, HostInv, Idle, PcF
<1>4. WakeInv'
  <2>1. ~(nTick' > 0)
    BY <1>2
  <2>2. ~(pendEvt' # {} \/ nTick' > 0 \/ rdyTask' # {})
    BY <1>2, <2>1
  <2>3. sim.cur # "CPU_WORK" /\ Present(sim)' = Present(sim)
    BY <1>1, <1>2, Primes
  <2> QED BY <1>2, <2>2, <2>3 DEF LoopInv, WakeInv
<1>5. TimeInv => TimeInv'
  BY <1>1, <1>2, Primes DEF TimeInv
<1> QED BY <1>1, <1>3, <1>4, <1>5, Primes DEF LoopInv

LEMMA FtlMainKeeps ==
  ASSUME NUM_EVENT >= 5, LoopInv, FTL_Main
  PROVE  LoopInv' /\ (TimeInv => TimeInv')
<1>1. /\ sim.cur = "CPU_FTL" /\ pcF = "boot" /\ pcF' = "loop" /\ reqQ' = {}
      /\ sim' = SIM_NewEvt(sim, "TIMER", "CPU_FTL", TICK)
      /\ pcW' = pcW /\ doneQ' = doneQ /\ gbDone' = gbDone
  BY DEF FTL_Main, TMR_Add
<1>2. pcW = "boot" /\ Present(sim) = {"CPU_WORK"} /\ Idle
  BY <1>1, Names DEF LoopInv, HostInv
<1>3. GoodSim(sim') /\ sim'.cur = "CPU_FTL" /\ Present(sim') = {"CPU_WORK", "TIMER"}
  <2>1. TICK \in Nat /\ "TIMER" \notin Present(sim) /\ "NFC" \in Kinds \ Present(sim)
    BY <1>2, SimAssumption, Names
  <2>2. GoodSim(sim') /\ sim'.cur = sim.cur /\ More(sim, sim', "TIMER", TICK)
    BY <1>1, <2>1, Names, MakeMore DEF LoopInv
  <2> QED BY <1>1, <1>2, <2>2 DEF More
<1>4. HostInv'
  BY <1>1, <1>2, <1>3, Primes DEF LoopInv, HostInv, Idle, PcF, Down
<1>5. WakeInv' /\ TimeInv'
  BY <1>1, <1>2, <1>3, Primes DEF WakeInv, TimeInv, Down
<1> QED BY <1>3, <1>4, <1>5, Primes DEF LoopInv

(* The turn of a task: s is the state of the simulator when its function   *)
(* returns.  CPU_WORK may have got an event, or the controller.            *)
LEMMA TurnView ==
  ASSUME NUM_EVENT >= 5, LoopInv, sim.cur = "CPU_FTL", pcF = "turns",
         NEW s, GoodSim(s), s.cur = "CPU_FTL", Present(sim) \subseteq Present(s),
         Present(s) \subseteq Present(sim) \cup {"CPU_WORK", "NFC"},
         \A k \in Present(sim) : Due(s, k) = Due(sim, k),
         "NFC" \notin Present(s) \/ "POWER" \notin Present(s), NEW t, NEW w, EndTurn(t, w, s)
  PROVE  /\ GoodSim(sim') /\ pcF' \in {"loop", "turns"} /\ pcW' = pcW
         /\ Present(s) \subseteq Present(sim') /\ Present(sim') \subseteq Present(s) \cup {"CPU_FTL"}
         /\ "CPU_FTL" \notin Present(s)
         /\ \A k \in Present(s) : Due(sim', k) <= Due(s, k)
         /\ \/ sim'.cur = "CPU_FTL" /\ \A k \in Present(s) : Due(s, k) > TASK_TIME
            \/ sim'.cur = SIM /\ "CPU_FTL" \in Present(sim') /\ Due(sim', "CPU_FTL") = TASK_TIME
         /\ WakeInv /\ (gbDone' /\ ~gbDone => "CPU_WORK" \in Present(s)) => WakeInv'
<1>1. /\ GoodSim(sim') /\ pcF' \in {"loop", "turns"} /\ pcW' = pcW
      /\ \/ /\ sim'.cur = "CPU_FTL" /\ Later(s, sim', TASK_TIME)
            /\ \A k \in Present(s) : Due(s, k) > TASK_TIME
         \/ sim'.cur = SIM /\ More(s, sim', "CPU_FTL", TASK_TIME)
  BY EndTurnView
<1>2. /\ \A k \in Present(s) : Due(s, k) \in Nat
      /\ "CPU_FTL" \notin Present(s) /\ TASK_TIME \in Nat
  BY DueOf, CurNotPresent, Names, SimFtlAssumption DEF GoodSim
<1>3. /\ Present(s) \subseteq Present(sim') /\ Present(sim') \subseteq Present(s) \cup {"CPU_FTL"}
      /\ \A k \in Present(s) : Due(sim', k) <= Due(s, k)
      /\ \/ sim'.cur = "CPU_FTL" /\ \A k \in Present(s) : Due(s, k) > TASK_TIME
         \/ sim'.cur = SIM /\ "CPU_FTL" \in Present(sim') /\ Due(sim', "CPU_FTL") = TASK_TIME
  <2>1. CASE sim'.cur = "CPU_FTL" /\ Later(s, sim', TASK_TIME)
             /\ \A k \in Present(s) : Due(s, k) > TASK_TIME
    BY <1>2, <2>1 DEF Later
  <2>2. CASE sim'.cur = SIM /\ More(s, sim', "CPU_FTL", TASK_TIME)
    BY <1>2, <2>2 DEF More
  <2> QED BY <1>1, <2>1, <2>2
<1>4. ASSUME WakeInv, gbDone' /\ ~gbDone => "CPU_WORK" \in Present(s) PROVE WakeInv'
  <2>1. sim'.cur = "CPU_FTL" \/ "CPU_FTL" \in Present(sim)'
    BY <1>3, Primes
  <2>2. "CPU_WORK" \in Present(s) => "CPU_WORK" \in Present(sim)'
    BY <1>3, Primes
  <2>3. "CPU_WORK" \in Present(sim) => "CPU_WORK" \in Present(s)
    OBVIOUS
  <2>4. gbDone \in BOOLEAN /\ sim.cur # "CPU_WORK"
    BY DEF LoopInv, HostInv
  <2>5. pcW' \in {"wait", "sd wait"} /\ gbDone' => "CPU_WORK" \in Present(sim)'
    BY <1>1, <1>4, <2>2, <2>3, <2>4 DEF WakeInv
  <2>6. pcW' \in {"request", "sd request"} => "CPU_WORK" \in Present(sim)'
    BY <1>1, <1>4, <2>2, <2>3, <2>4 DEF WakeInv
  <2> QED BY <2>1, <2>5, <2>6 DEF WakeInv
<1> QED BY <1>1, <1>2, <1>3, <1>4

LEMMA TurnKeeps ==
  ASSUME NUM_EVENT >= 5, LoopInv, TurnOfTask
  PROVE  LoopInv' /\ (TASK_TIME > 6 /\ TimeInv => TimeInv')
<1>1. sim.cur = "CPU_FTL" /\ pcF = "turns" /\ GoodSim(sim)
  BY DEF TurnOfTask, LoopInv
<1>2. /\ \A k \in Present(sim) : k \in Kinds /\ Due(sim, k) \in Nat
      /\ "CPU_FTL" \in Kinds \ Present(sim)
      /\ "NFC" \notin Present(sim) \/ "POWER" \notin Present(sim)
  BY <1>1, LoopFacts, Names
\* The four ways a turn leaves the requests.
<1>3. \/ /\ \E t, w : EndTurn(t, w, sim)
         /\ reqQ' = reqQ /\ doneQ' = doneQ /\ gbDone' = gbDone
      \/ /\ "mapped" \in reqQ
         /\ \E n \in NandTimes : \E t, w : EndTurn(t, w, SIM_NewEvt(sim, "NFC", "CPU_FTL", n))
         /\ reqQ' = {} /\ doneQ' = doneQ /\ gbDone' = gbDone
      \/ /\ \/ reqQ # {} /\ reqQ' = {} /\ doneQ' = doneQ
            \/ doneQ > 0 /\ doneQ' = doneQ - 1 /\ reqQ' = reqQ
         /\ \E t, w : EndTurn(t, w, Answer(sim))
         /\ gbDone' = TRUE
  BY DEF TurnOfTask, ReqTurn, RespTurn, GcTurn, MetaTurn
<1>4. ASSUME NEW t, NEW w, EndTurn(t, w, sim), reqQ' = reqQ, doneQ' = doneQ, gbDone' = gbDone
      PROVE  LoopInv' /\ (TASK_TIME > 6 /\ TimeInv => TimeInv')
  <2>1. /\ GoodSim(sim') /\ pcF' \in {"loop", "turns"} /\ pcW' = pcW
        /\ Present(sim) \subseteq Present(sim') /\ Present(sim') \subseteq Present(sim) \cup {"CPU_FTL"}
        /\ \A k \in Present(sim) : Due(sim', k) <= Due(sim, k)
        /\ WakeInv'
    BY <1>1, <1>2, <1>4, TurnView DEF LoopInv
  <2>2. HostInv'
    BY <1>1, <1>4, <2>1, Primes DEF LoopInv, HostInv, Idle, PcF
  <2>3. ASSUME TimeInv PROVE TimeInv'
    <3>1. ~(gbDone' /\ pcW' \in Down \cup {"off"})
      BY <1>1, <1>4, <2>1, <2>3 DEF TimeInv
    <3>2. ASSUME pcW' \in {"request", "wait"} \cup Down, "CPU_WORK" \in Present(sim)'
          PROVE  Due(sim, "CPU_WORK")' <= 5
      <4>1. "CPU_WORK" \in Present(sim)
        BY <2>1, <3>2, Primes
      <4>2. Due(sim', "CPU_WORK") <= Due(sim, "CPU_WORK") /\ Due(sim, "CPU_WORK") <= 5
        BY <2>1, <2>3, <3>2, <4>1 DEF TimeInv
      <4>3. Due(sim, "CPU_WORK") \in Nat /\ Due(sim', "CPU_WORK") \in Nat
        BY <1>2, <2>1, <4>1, DueOf DEF GoodSim
      <4> QED BY <4>2, <4>3, Primes
    <3> QED BY <3>1, <3>2 DEF TimeInv
  <2> QED BY <2>1, <2>2, <2>3, Primes DEF LoopInv
<1>5. ASSUME "mapped" \in reqQ, NEW n \in NandTimes, NEW t, NEW w,
             EndTurn(t, w, SIM_NewEvt(sim, "NFC", "CPU_FTL", n)),
             reqQ' = {}, doneQ' = doneQ, gbDone' = gbDone
      PROVE  LoopInv' /\ (TASK_TIME > 6 /\ TimeInv => TimeInv')
  <2> DEFINE s == SIM_NewEvt(sim, "NFC", "CPU_FTL", n)
  <2>1. /\ ~gbDone /\ pcW \notin Down /\ "NFC" \notin Present(sim) /\ "POWER" \notin Present(sim)
        /\ doneQ = 0 /\ pcW \notin {"boot", "test", "off"}
    BY <1>5 DEF LoopInv, HostInv, Idle
  <2>2. GoodSim(s) /\ s.cur = "CPU_FTL" /\ More(sim, s, "NFC", n)
    BY <1>1, <1>2, <2>1, SimFtlAssumption, MakeMore, Names
  <2> HIDE DEF s
  <2>3. /\ Present(s) = Present(sim) \cup {"NFC"} /\ "POWER" \notin Present(s)
        /\ \A k \in Present(sim) : Due(s, k) = Due(sim, k)
    BY <2>1, <2>2 DEF More
  <2>4. EndTurn(t, w, s)
    BY <1>5 DEF s
  <2>5. /\ GoodSim(sim') /\ pcF' \in {"loop", "turns"} /\ pcW' = pcW
        /\ Present(s) \subseteq Present(sim') /\ Present(sim') \subseteq Present(s) \cup {"CPU_FTL"}
        /\ \A k \in Present(s) : Due(sim', k) <= Due(s, k)
        /\ WakeInv'
    BY <1>1, <1>5, <2>2, <2>3, <2>4, TurnView DEF LoopInv
  <2>6. HostInv'
    BY <1>1, <1>5, <2>1, <2>3, <2>5, Primes DEF LoopInv, HostInv, Idle, PcF
  <2>7. ASSUME TimeInv PROVE TimeInv'
    <3>1. ~(gbDone' /\ pcW' \in Down \cup {"off"})
      BY <1>5, <2>1
    <3>2. ASSUME pcW' \in {"request", "wait"} \cup Down, "CPU_WORK" \in Present(sim)'
          PROVE  Due(sim, "CPU_WORK")' <= 5
      <4>1. "CPU_WORK" \in Present(sim) /\ "CPU_WORK" \in Present(s)
        BY <2>3, <2>5, <3>2, Primes
      <4>2. Due(sim', "CPU_WORK") <= Due(sim, "CPU_WORK") /\ Due(sim, "CPU_WORK") <= 5
        BY <2>3, <2>5, <2>7, <3>2, <4>1 DEF TimeInv
      <4>3. Due(sim, "CPU_WORK") \in Nat /\ Due(sim', "CPU_WORK") \in Nat
        BY <1>2, <2>5, <4>1, DueOf DEF GoodSim
      <4> QED BY <4>2, <4>3, Primes
    <3> QED BY <3>1, <3>2 DEF TimeInv
  <2> QED BY <2>5, <2>6, <2>7, Primes DEF LoopInv
<1>6. ASSUME NEW t, NEW w, EndTurn(t, w, Answer(sim)), gbDone' = TRUE,
             \/ reqQ # {} /\ reqQ' = {} /\ doneQ' = doneQ
             \/ doneQ > 0 /\ doneQ' = doneQ - 1 /\ reqQ' = reqQ
      PROVE  LoopInv' /\ (TASK_TIME > 6 /\ TimeInv => TimeInv')
  <2> DEFINE s == Answer(sim)
  <2>1. /\ ~gbDone /\ pcW \in {"request", "wait"} \cup Down /\ "NFC" \notin Present(sim)
        /\ "POWER" \notin Present(sim) /\ reqQ' = {} /\ doneQ' = 0
    <3>1. doneQ \in {0, 1} /\ (reqQ # {} => doneQ = 0)
      BY DEF LoopInv, HostInv
    <3>2. (reqQ # {} \/ doneQ # 0) /\ reqQ' = {} /\ doneQ' = 0
      BY <1>6, <3>1
    <3> QED BY <3>2 DEF LoopInv, HostInv, Idle, PcW, Down
  <2>2. /\ GoodSim(s) /\ s.cur = "CPU_FTL"
        /\ IF "CPU_WORK" \in Present(sim) THEN s = sim ELSE More(sim, s, "CPU_WORK", 2)
    BY <1>1, <1>2, WakeupGood, Names DEF Answer
  <2> HIDE DEF s
  <2>3. /\ Present(s) = Present(sim) \cup {"CPU_WORK"}
        /\ \A k \in Present(sim) : Due(s, k) = Due(sim, k)
        /\ "CPU_WORK" \notin Present(sim) => Due(s, "CPU_WORK") = 2
        /\ "NFC" \notin Present(s) /\ "POWER" \notin Present(s)
    BY <2>1, <2>2 DEF More
  <2>4. EndTurn(t, w, s)
    BY <1>6 DEF s
  <2>5. /\ GoodSim(sim') /\ pcF' \in {"loop", "turns"} /\ pcW' = pcW
        /\ Present(s) \subseteq Present(sim') /\ Present(sim') \subseteq Present(s) \cup {"CPU_FTL"}
        /\ \A k \in Present(s) : Due(sim', k) <= Due(s, k)
        /\ \/ sim'.cur = "CPU_FTL" /\ \A k \in Present(s) : Due(s, k) > TASK_TIME
           \/ sim'.cur = SIM /\ "CPU_FTL" \in Present(sim') /\ Due(sim', "CPU_FTL") = TASK_TIME
        /\ WakeInv'
    BY <1>1, <2>2, <2>3, <2>4, TurnView DEF LoopInv
  <2>6. HostInv'
    BY <1>1, <1>6, <2>1, <2>3, <2>5, Primes DEF LoopInv, HostInv, Idle, PcF
  <2>7. ASSUME TASK_TIME > 6, TimeInv PROVE TimeInv'
    <3>1. "CPU_WORK" \in Present(s) /\ Due(s, "CPU_WORK") <= 5
      BY <2>1, <2>3, <2>7 DEF TimeInv
    <3>2. /\ Due(s, "CPU_WORK") \in Nat /\ TASK_TIME \in Nat
          /\ "CPU_WORK" \in Present(sim') /\ Due(sim', "CPU_WORK") \in Nat
          /\ Due(sim', "CPU_WORK") <= Due(s, "CPU_WORK")
      BY <2>2, <2>5, <3>1, DueOf, SimFtlAssumption DEF GoodSim
    <3>3. Due(sim', "CPU_WORK") <= 5
      BY <3>1, <3>2
    <3>4. ~(Due(s, "CPU_WORK") > TASK_TIME)
      BY <2>7, <3>1, <3>2
    <3>5. sim'.cur = SIM /\ "CPU_FTL" \in Present(sim') /\ Due(sim', "CPU_FTL") = TASK_TIME
      BY <2>5, <3>1, <3>4
    <3>6. Due(sim', "CPU_FTL") > Due(sim', "CPU_WORK") + 1
      BY <2>7, <3>2, <3>3, <3>5
    <3>7. sim'.cur # "CPU_FTL" /\ sim'.cur # "CPU_WORK" /\ pcW' # "off"
      BY <2>1, <2>5, <3>5, Names DEF Down
    <3> QED BY <3>3, <3>5, <3>6, <3>7, Primes DEF TimeInv
  <2> QED BY <2>5, <2>6, <2>7, Primes DEF LoopInv
<1> QED BY <1>3, <1>4, <1>5, <1>6

LEMMA RequestKeeps ==
  ASSUME NUM_EVENT >= 5, LoopInv, NEW r \in {"mapped", "unmapped", "shutdown"}, Request(r)
  PROVE  LoopInv' /\ TimeInv'
<1>1. /\ sim.cur = "CPU_WORK" /\ pcW \in {"boot", "test"} /\ gbDone' = FALSE
      /\ reqQ' = reqQ \cup {r} /\ sim' = CPU_TimePass(sim, 5)
      /\ pcW' = IF r = "shutdown" THEN "sd request" ELSE "request"
      /\ pcF' = pcF /\ doneQ' = doneQ
  BY DEF Request
<1>2. Idle /\ pcF # "boot" /\ "POWER" \notin Present(sim) /\ pcF \in PcF
  BY <1>1 DEF LoopInv, HostInv
<1>3. "CPU_WORK" \notin Present(sim) /\ "NFC" \in Kinds \ Present(sim)
  BY <1>1, <1>2, LoopFacts, Names DEF Idle
<1>4. /\ GoodSim(sim')
      /\ \/ sim'.cur = "CPU_WORK" /\ Present(sim') = Present(sim)
         \/ /\ Present(sim') = Present(sim) \cup {"CPU_WORK"}
            /\ Due(sim', "CPU_WORK") = 5
  <2>1. "NFC" # "CPU_WORK" /\ 5 \in Nat
    OBVIOUS
  <2>2. /\ GoodSim(sim')
        /\ \/ sim'.cur = "CPU_WORK" /\ Later(sim, sim', 5)
           \/ More(sim, sim', "CPU_WORK", 5)
    BY <1>1, <1>3, <2>1, TimePassGood, Names DEF LoopInv
  <2> QED BY <2>2 DEF Later, More
<1>5. HostInv'
  BY <1>1, <1>2, <1>4, Primes DEF LoopInv, HostInv, Idle, PcW, Down
<1>6. WakeInv'
  BY <1>1, <1>4, Primes DEF WakeInv
<1>7. TimeInv'
  <2>1. "CPU_WORK" \in Present(sim)' => Due(sim, "CPU_WORK")' = 5
    BY <1>3, <1>4, Primes
  <2>2. "CPU_WORK" \in Present(sim)' => Due(sim, "CPU_WORK")' <= 5
    BY <2>1
  <2> QED BY <1>1, <2>2 DEF TimeInv
<1> QED BY <1>4, <1>5, <1>6, <1>7, Primes DEF LoopInv

LEMMA KickKeeps ==
  ASSUME NUM_EVENT >= 5, LoopInv, Kick
  PROVE  LoopInv' /\ (TimeInv => TimeInv')
<1>1. /\ sim.cur = "CPU_WORK" /\ pcW \in {"request", "sd request"}
      /\ sim' = CPU_Wakeup(sim, "CPU_FTL", 1)
      /\ pcW' = IF pcW = "request" THEN "wait" ELSE "sd wait"
      /\ pcF' = pcF /\ reqQ' = reqQ /\ doneQ' = doneQ /\ gbDone' = gbDone
  BY DEF Kick
<1>2. "CPU_WORK" \in Kinds \ Present(sim) /\ "CPU_WORK" # "CPU_FTL"
  BY <1>1, LoopFacts, Names
<1>3. /\ GoodSim(sim') /\ sim'.cur = "CPU_WORK"
      /\ IF "CPU_FTL" \in Present(sim) THEN sim' = sim ELSE More(sim, sim', "CPU_FTL", 1)
  BY <1>1, <1>2, WakeupGood, Names DEF LoopInv
<1>4. Present(sim') = Present(sim) \cup {"CPU_FTL"}
  BY <1>3 DEF More
<1>5. HostInv'
  BY <1>1, <1>3, <1>4, Primes DEF LoopInv, HostInv, Idle, PcW, Down
<1>6. WakeInv'
  BY <1>1, <1>3, <1>4, Primes DEF WakeInv
<1>7. ASSUME TimeInv PROVE TimeInv'
  <2>1. "CPU_WORK" \notin Present(sim)'
    BY <1>2, <1>4, Primes
  <2>2. ASSUME gbDone' /\ pcW' \in Down \cup {"off"}
        PROVE  "CPU_FTL" \in Present(sim) /\ Due(sim, "CPU_FTL") > 1
    BY <1>1, <1>7, <2>2 DEF TimeInv, Down
  <2>3. pcW' # "off" /\ sim'.cur = "CPU_WORK"
    BY <1>1, <1>3
  <2> QED BY <1>3, <1>4, <2>1, <2>2, <2>3, Primes DEF TimeInv
<1> QED BY <1>3, <1>5, <1>6, <1>7, Primes DEF LoopInv

LEMMA BusyWaitKeeps ==
  ASSUME NUM_EVENT >= 5, LoopInv, BusyWaitDone
  PROVE  LoopInv' /\ (TimeInv => TimeInv')
<1>1. /\ sim.cur = "CPU_WORK" /\ pcW \in {"wait", "sd wait"} /\ pcF \in PcF /\ pcF # "boot"
      /\ pcF' = pcF /\ reqQ' = reqQ /\ doneQ' = doneQ /\ gbDone' = gbDone
      /\ rdyTask' = rdyTask /\ pendEvt' = pendEvt /\ nTick' = nTick
  BY DEF BusyWaitDone, schedVars, taskVars, LoopInv, HostInv
<1>2. "CPU_WORK" \in Kinds \ Present(sim) /\ \A k \in Present(sim) : Due(sim, k) \in Nat
  BY <1>1, LoopFacts, Names
<1>3. CASE ~gbDone /\ sim' = CPU_Sleep(sim) /\ pcW' = pcW
  <2>1. /\ GoodSim(sim') /\ sim'.cur = SIM /\ Present(sim') = Present(sim)
        /\ \A l \in Present(sim) : Due(sim', l) = Due(sim, l)
    BY <1>3, SwitchGood DEF CPU_Sleep, LoopInv
  <2>2. HostInv'
    BY <1>1, <1>3, <2>1, Primes DEF LoopInv, HostInv, Idle
  <2>3. WakeInv'
    BY <1>1, <1>3, <2>1, Primes DEF LoopInv, WakeInv
  <2>4. TimeInv'
    BY <1>1, <1>2, <1>3, <2>1, Primes DEF TimeInv
  <2> QED BY <2>1, <2>2, <2>3, <2>4, Primes DEF LoopInv
<1>4. CASE gbDone /\ pcW = "wait" /\ pcW' = "test" /\ sim' = sim
  <2>1. GoodSim(sim') /\ Present(sim') = Present(sim)
    BY <1>4 DEF LoopInv
  <2>2. HostInv'
    BY <1>1, <1>4, <2>1, Primes DEF LoopInv, HostInv, Idle, PcW, Down
  <2>3. WakeInv'
    BY <1>1, <1>4, <2>1, Primes DEF LoopInv, WakeInv
  <2>4. TimeInv'
    BY <1>4 DEF TimeInv, Down
  <2> QED BY <2>1, <2>2, <2>3, <2>4, Primes DEF LoopInv
<1>5. CASE /\ gbDone /\ pcW = "sd wait" /\ pcW' = "off"
           /\ sim' = CPU_TimePass(SIM_NewEvt(sim, "POWER", SIM, 1), END_RUN)
  <2> DEFINE s == SIM_NewEvt(sim, "POWER", SIM, 1)
  <2>1. Idle /\ "POWER" \notin Present(sim)
    BY <1>5 DEF LoopInv, HostInv
  <2>2. GoodSim(s) /\ s.cur = "CPU_WORK" /\ More(sim, s, "POWER", 1)
    <3>1. 1 \in Nat /\ SIM \in CpuId \cup {SIM} /\ "POWER" # "CPU_WORK"
      OBVIOUS
    <3> QED BY <1>1, <1>2, <2>1, <3>1, MakeMore DEF LoopInv
  <2> HIDE DEF s
  <2>3. /\ Present(s) = Present(sim) \cup {"POWER"} /\ Due(s, "POWER") = 1
        /\ \A l \in Present(sim) : Due(s, l) = Due(sim, l)
    BY <2>2 DEF More
  <2>4. END_RUN \in Nat /\ ~(1 > END_RUN) /\ "NFC" \in Kinds \ Present(s)
    BY <2>1, <2>3, Names, SMT DEF END_RUN, Idle
  <2>5. /\ GoodSim(sim')
        /\ \/ sim'.cur = "CPU_WORK" /\ Later(s, sim', END_RUN)
              /\ \A k \in Present(s) : Due(s, k) > END_RUN
           \/ sim'.cur = SIM /\ More(s, sim', "CPU_WORK", END_RUN)
    BY <1>5, <2>2, <2>4, TimePassGood, Names DEF s
  <2>6. sim'.cur = SIM /\ More(s, sim', "CPU_WORK", END_RUN)
    BY <2>3, <2>4, <2>5
  <2>7. /\ Present(sim') = Present(sim) \cup {"POWER", "CPU_WORK"} /\ Due(sim', "POWER") = 1
        /\ \A l \in Present(sim) : Due(sim', l) = Due(sim, l)
    BY <2>3, <2>6 DEF More
  <2>8. HostInv'
    BY <1>1, <1>5, <2>1, <2>7, Primes DEF LoopInv, HostInv, Idle, PcW, Down
  <2>9. WakeInv'
    BY <1>1, <1>5, <2>7, Primes DEF LoopInv, WakeInv
  <2>10. ASSUME TimeInv PROVE TimeInv'
    <3>1. "CPU_FTL" \in Present(sim) /\ Due(sim, "CPU_FTL") > 1
      BY <1>1, <1>5, <2>10 DEF TimeInv, Down
    <3>2. sim'.cur # "CPU_FTL" /\ pcW' \notin Down /\ pcW' \notin {"request", "wait"}
      BY <1>5, <2>6, Names DEF Down
    <3> QED BY <1>5, <2>7, <3>1, <3>2, Primes DEF TimeInv
  <2> QED BY <2>5, <2>8, <2>9, <2>10, Primes DEF LoopInv
<1> QED BY <1>3, <1>4, <1>5 DEF BusyWaitDone

LEMMA CpuEventKeeps ==
  ASSUME LoopInv, CpuEvent
  PROVE  LoopInv' /\ (TimeInv => TimeInv')
<1>1. PICK i \in Slot : Take(i, Booting) /\ sim.evt[i].own = "CPU" /\ cpu_HandleEvt(i)
  BY DEF CpuEvent
<1>2. /\ pcF' = pcF /\ pcW' = pcW /\ reqQ' = reqQ /\ doneQ' = doneQ /\ gbDone' = gbDone
      /\ rdyTask' = rdyTask /\ pendEvt' = pendEvt /\ nTick' = nTick
  BY DEF CpuEvent, schedVars, taskVars
<1> DEFINE c == sim.evt[i].arg
<1>3. /\ c \in Present(sim) \cap CpuId /\ \A l \in Present(sim) : Due(sim, c) <= Due(sim, l)
      /\ GoodSim(sim') /\ sim'.cur = c /\ Less(sim, sim', c)
  BY <1>1, CpuEventGood DEF LoopInv
<1>4. sim.cur = SIM /\ (Booting => c = "CPU_FTL")
  BY <1>1 DEF Take
<1> HIDE DEF c
<1>5. \A k \in Present(sim) : Due(sim, k) \in Nat
  BY LoopFacts
<1>6. /\ Present(sim') = Present(sim) \ {c}
      /\ \A l \in Present(sim') : Due(sim', l) = Due(sim, l) - Due(sim, c)
  BY <1>3 DEF Less
<1>7. HostInv'
  <2>1. ASSUME pcF = "boot" PROVE c = "CPU_FTL" /\ Present(sim') = {"CPU_WORK"} /\ pcW = "boot"
    <3>1. pcW = "boot" /\ Present(sim) = CpuId
      BY <1>4, <2>1 DEF LoopInv, HostInv
    <3>2. sim.cpu["CPU_FTL"] # 0
      BY <3>1, CpuPresent, Names DEF LoopInv
    <3>3. c = "CPU_FTL"
      BY <1>4, <2>1, <3>1, <3>2 DEF Booting
    <3> QED BY <1>6, <3>1, <3>3 DEF CpuId
  <2>2. pcF # "boot" => "TIMER" \in Present(sim')
    BY <1>3, <1>6, Names DEF LoopInv, HostInv
  <2> QED BY <1>2, <1>3, <1>6, <2>1, <2>2, Primes, Names DEF LoopInv, HostInv, Idle
<1>8. WakeInv'
  BY <1>2, <1>3, <1>4, <1>6, Primes, Names DEF LoopInv, WakeInv
<1>9. ASSUME TimeInv PROVE TimeInv'
  <2>1. ASSUME pcW' \in {"request", "wait"} \cup Down, "CPU_WORK" \in Present(sim)'
        PROVE  Due(sim, "CPU_WORK")' <= 5
    <3>1. "CPU_WORK" \in Present(sim) /\ Due(sim, "CPU_WORK") <= 5
      BY <1>2, <1>6, <1>9, <2>1, Primes DEF TimeInv
    <3>2. Due(sim', "CPU_WORK") = Due(sim, "CPU_WORK") - Due(sim, c)
      BY <1>6, <2>1, Primes
    <3> QED BY <1>3, <1>5, <3>1, <3>2, Primes
  <2>2. ASSUME gbDone', pcW' = "off"
        PROVE  /\ c # "CPU_FTL" /\ "CPU_FTL" \in Present(sim')
               /\ "POWER" \in Present(sim') /\ Due(sim', "POWER") < Due(sim', "CPU_FTL")
    <3>1. /\ "CPU_FTL" \in Present(sim) /\ "POWER" \in Present(sim)
          /\ Due(sim, "POWER") < Due(sim, "CPU_FTL")
      BY <1>2, <1>9, <2>2 DEF TimeInv
    <3>2. c # "CPU_FTL"
      BY <1>3, <1>5, <3>1
    <3>3. "CPU_FTL" \in Present(sim') /\ "POWER" \in Present(sim')
      BY <1>3, <1>6, <3>1, <3>2, Names
    <3> QED BY <1>3, <1>5, <1>6, <3>1, <3>2, <3>3
  <2>3. ASSUME gbDone', pcW' \in Down
        PROVE  c = "CPU_WORK" /\ "CPU_FTL" \in Present(sim') /\ Due(sim', "CPU_FTL") > 1
    <3>1. sim.cur # "CPU_WORK" /\ pcW # "off"
      BY <1>2, <1>4, <2>3, Names DEF Down
    <3>2. "CPU_FTL" \in Present(sim) /\ Due(sim, "CPU_FTL") > Due(sim, "CPU_WORK") + 1
      BY <1>2, <1>9, <2>3, <3>1 DEF TimeInv
    <3>3. "CPU_WORK" \in Present(sim)
      BY <1>2, <2>3, <3>1 DEF LoopInv, WakeInv, Down
    <3>4. c # "CPU_FTL"
      BY <1>3, <1>5, <3>2, <3>3
    <3>5. c = "CPU_WORK"
      BY <1>3, <3>4 DEF CpuId
    <3>6. "CPU_FTL" \in Present(sim')
      BY <1>6, <3>2, <3>4
    <3>7. Due(sim', "CPU_FTL") = Due(sim, "CPU_FTL") - Due(sim, "CPU_WORK")
      BY <1>6, <3>5, <3>6
    <3>8. Due(sim, "CPU_FTL") \in Nat /\ Due(sim, "CPU_WORK") \in Nat
      BY <1>5, <3>2, <3>3
    <3> QED BY <3>2, <3>5, <3>6, <3>7, <3>8
  <2>4. ASSUME gbDone', pcW' \in Down \cup {"off"}
        PROVE  /\ sim'.cur # "CPU_FTL" /\ "CPU_FTL" \in Present(sim')
               /\ pcW' = "off" => "POWER" \in Present(sim')
                                  /\ Due(sim', "POWER") < Due(sim', "CPU_FTL")
               /\ pcW' # "off" => sim'.cur = "CPU_WORK" /\ Due(sim', "CPU_FTL") > 1
    BY <1>3, <2>2, <2>3, <2>4
  <2> QED BY <2>1, <2>4, Primes DEF TimeInv
<1> QED BY <1>3, <1>7, <1>8, <1>9, Primes DEF LoopInv

(* An event of the timer or the controller: the others come closer, and    *)
(* CPU_FTL has an event afterwards.                                        *)
LEMMA WokenView ==
  ASSUME NUM_EVENT >= 5, LoopInv, NEW s, GoodSim(s), s.cur = SIM, NEW n \in Nat, NEW d \in Nat,
         "NFC" \notin Present(s) \/ "POWER" \notin Present(s), Present(s) \subseteq Kinds,
         \A l \in Present(sim) \cap (CpuId \cup {"POWER"}) :
            l \in Present(s) /\ Due(s, l) = Due(sim, l) - d /\ Due(sim, l) \in Nat,
         sim.cur = SIM, sim' = SwitchToSim(CPU_Wakeup(s, "CPU_FTL", n)),
         CpuId \cap Present(s) \subseteq Present(sim),
         pcW' = pcW, gbDone' = gbDone, pcF' = pcF
  PROVE  /\ GoodSim(sim') /\ sim'.cur = SIM /\ Present(sim') = Present(s) \cup {"CPU_FTL"}
         /\ WakeInv => WakeInv'
         /\ TimeInv => TimeInv'
<1> DEFINE r == CPU_Wakeup(s, "CPU_FTL", n)
<1>1. PICK l \in Kinds : l \notin Present(s) /\ l # "CPU_FTL"
  BY Names
<1>2. /\ GoodSim(r) /\ r.cur = SIM
      /\ IF "CPU_FTL" \in Present(s) THEN r = s ELSE More(s, r, "CPU_FTL", n)
  BY <1>1, WakeupGood, Names
<1> HIDE DEF r
<1>3. /\ GoodSim(sim') /\ sim'.cur = SIM /\ Present(sim') = Present(r)
      /\ \A k \in Present(r) : Due(sim', k) = Due(r, k)
  BY <1>2, SwitchGood DEF r
<1>4. /\ Present(sim') = Present(s) \cup {"CPU_FTL"}
      /\ \A k \in Present(s) : Due(sim', k) = Due(s, k)
  BY <1>2, <1>3 DEF More
<1>5. "CPU_WORK" \in Present(sim') <=> "CPU_WORK" \in Present(sim)
  BY <1>4, Names
<1>6. WakeInv => WakeInv'
  BY <1>4, <1>5, Primes, Names DEF WakeInv
<1>7. \A k \in Present(sim) \cap (CpuId \cup {"POWER"}) :
         k \in Present(s) /\ Due(sim', k) = Due(sim, k) - d /\ Due(sim, k) \in Nat
  BY <1>4
<1>8. ASSUME TimeInv PROVE TimeInv'
  <2>1. ASSUME pcW' \in {"request", "wait"} \cup Down, "CPU_WORK" \in Present(sim)'
        PROVE  Due(sim, "CPU_WORK")' <= 5
    <3>1. "CPU_WORK" \in Present(sim) /\ Due(sim, "CPU_WORK") <= 5
      BY <1>4, <1>5, <1>8, <2>1, Primes, Names DEF TimeInv
    <3> QED BY <1>7, <3>1, Primes, Names
  <2>2. ASSUME gbDone', pcW' \in Down \cup {"off"}
        PROVE  /\ sim'.cur # "CPU_FTL" /\ "CPU_FTL" \in Present(sim')
               /\ pcW' = "off" => "POWER" \in Present(sim')
                                  /\ Due(sim', "POWER") < Due(sim', "CPU_FTL")
               /\ pcW' # "off" => /\ sim'.cur # "CPU_WORK"
                                  /\ Due(sim', "CPU_FTL") > Due(sim', "CPU_WORK") + 1
    <3>1. sim'.cur # "CPU_FTL" /\ sim'.cur # "CPU_WORK" /\ sim.cur # "CPU_WORK"
      BY <1>3, Names
    <3>2. "CPU_FTL" \in Present(sim) /\ "CPU_FTL" \in Present(sim')
      BY <1>4, <1>8, <2>2, Names DEF TimeInv
    <3>3. ASSUME pcW' = "off"
          PROVE  "POWER" \in Present(sim') /\ Due(sim', "POWER") < Due(sim', "CPU_FTL")
      <4>1. "POWER" \in Present(sim) /\ Due(sim, "POWER") < Due(sim, "CPU_FTL")
        BY <1>8, <2>2, <3>3 DEF TimeInv
      <4> QED BY <1>4, <1>7, <3>2, <4>1, Names
    <3>4. ASSUME pcW' # "off" PROVE Due(sim', "CPU_FTL") > Due(sim', "CPU_WORK") + 1
      <4>1. Due(sim, "CPU_FTL") > Due(sim, "CPU_WORK") + 1
        BY <1>8, <2>2, <3>1, <3>4 DEF TimeInv
      <4>2. "CPU_WORK" \in Present(sim)
        BY <2>2, <3>1, <3>4, Names DEF LoopInv, WakeInv, Down
      <4>3. /\ Due(sim', "CPU_FTL") = Due(sim, "CPU_FTL") - d /\ Due(sim, "CPU_FTL") \in Nat
            /\ Due(sim', "CPU_WORK") = Due(sim, "CPU_WORK") - d /\ Due(sim, "CPU_WORK") \in Nat
        BY <1>7, <3>2, <4>2, Names
      <4> QED BY <4>1, <4>3
    <3> QED BY <3>1, <3>2, <3>3, <3>4
  <2> QED BY <2>1, <2>2, Primes DEF TimeInv
<1> QED BY <1>3, <1>4, <1>6, <1>8

LEMMA TimerKeeps ==
  ASSUME NUM_EVENT >= 5, LoopInv, TimerEvent
  PROVE  LoopInv' /\ (TimeInv => TimeInv')
<1>1. PICK i \in Slot : Take(i, Booting) /\ sim.evt[i].own = "TIMER" /\ tmr_HandleEvt(i)
  BY DEF TimerEvent
<1>2. /\ pcF' = pcF /\ pcW' = pcW /\ reqQ' = reqQ /\ doneQ' = doneQ /\ gbDone' = gbDone
  BY DEF TimerEvent
<1> DEFINE a == InHand(i)
           s == SIM_NewEvt(a, "TIMER", "CPU_FTL", TICK)
           d == Due(sim, "TIMER")
<1>3. Kind(sim.evt[i]) = "TIMER" /\ TICK \in Nat /\ "TIMER" # "NFC" /\ "TIMER" # "POWER"
  BY <1>1, SimAssumption DEF Kind
<1>4. /\ sim.cur = SIM /\ "TIMER" \in Present(sim)
      /\ GoodSim(a) /\ a.cur = SIM /\ Less(sim, a, "TIMER")
  BY <1>1, <1>3, InHandGood DEF LoopInv
<1>5. sim' = SwitchToSim(CPU_Wakeup(s, "CPU_FTL", 1))
  BY <1>1 DEF tmr_HandleEvt
<1> HIDE DEF a
<1>6. /\ Present(a) = Present(sim) \ {"TIMER"}
      /\ \A l \in Present(a) : Due(a, l) = Due(sim, l) - d
  BY <1>4 DEF Less
<1>7. /\ \A k \in Present(sim) : k \in Kinds /\ Due(sim, k) \in Nat
      /\ "NFC" \notin Present(sim) \/ "POWER" \notin Present(sim)
  BY LoopFacts
<1>8. PICK l \in Kinds : l \notin Present(a) /\ l # "TIMER"
  BY <1>6, <1>7, Names
<1>9. GoodSim(s) /\ s.cur = SIM /\ More(a, s, "TIMER", TICK)
  BY <1>3, <1>4, <1>6, <1>8, MakeMore, Names
<1> HIDE DEF s, d
<1>10. /\ Present(s) = Present(sim)
       /\ \A k \in Present(sim) \ {"TIMER"} : Due(s, k) = Due(sim, k) - d /\ Due(sim, k) \in Nat
  BY <1>4, <1>6, <1>7, <1>9 DEF More
<1>11. d \in Nat
  BY <1>4, <1>7 DEF d
<1>12. /\ GoodSim(sim') /\ sim'.cur = SIM /\ Present(sim') = Present(sim) \cup {"CPU_FTL"}
       /\ WakeInv => WakeInv'
       /\ TimeInv => TimeInv'
  <2>1. \A k \in Present(sim) \cap (CpuId \cup {"POWER"}) :
           k \in Present(s) /\ Due(s, k) = Due(sim, k) - d /\ Due(sim, k) \in Nat
    BY <1>10, Names
  <2>2. gbDone' = gbDone /\ Present(s) \subseteq Kinds /\ 1 \in Nat
        /\ ("NFC" \notin Present(s) \/ "POWER" \notin Present(s))
        /\ CpuId \cap Present(s) \subseteq Present(sim)
    BY <1>2, <1>7, <1>10
  <2> QED BY <1>2, <1>4, <1>5, <1>9, <1>10, <1>11, <2>1, <2>2, WokenView
<1>13. pcF # "boot"
  BY <1>4, Names DEF LoopInv, HostInv
<1>14. HostInv'
  BY <1>2, <1>12, <1>13, Primes, Names DEF LoopInv, HostInv, Idle
<1> QED BY <1>12, <1>14, Primes DEF LoopInv

LEMMA NfcKeeps ==
  ASSUME NUM_EVENT >= 5, LoopInv, NfcEvent
  PROVE  LoopInv' /\ (TimeInv => TimeInv')
<1> DEFINE d == Due(sim, "NFC")
<1>1. PICK i \in Slot : /\ Take(i, Booting) /\ sim.evt[i].own = "NFC"
                        /\ sim' = SwitchToSim(CPU_Wakeup(InHand(i), "CPU_FTL", 3))
  BY DEF NfcEvent
<1>2. /\ pcF' = pcF /\ pcW' = pcW /\ reqQ' = reqQ /\ doneQ' = doneQ + 1 /\ gbDone' = gbDone
  BY DEF NfcEvent
<1> DEFINE s == InHand(i)
<1>3. Kind(sim.evt[i]) = "NFC"
  BY <1>1 DEF Kind
<1>4. /\ sim.cur = SIM /\ "NFC" \in Present(sim)
      /\ GoodSim(s) /\ s.cur = SIM /\ Less(sim, s, "NFC")
  BY <1>1, <1>3, InHandGood DEF LoopInv
<1> HIDE DEF s, d
<1>5. /\ Present(s) = Present(sim) \ {"NFC"}
      /\ \A l \in Present(s) : Due(s, l) = Due(sim, l) - d
  BY <1>4 DEF Less, d
<1>6. \A k \in Present(sim) : k \in Kinds /\ Due(sim, k) \in Nat
  BY LoopFacts
<1>7. d \in Nat
  BY <1>4, <1>6 DEF d
<1>8. /\ GoodSim(sim') /\ sim'.cur = SIM /\ Present(sim') = Present(s) \cup {"CPU_FTL"}
      /\ WakeInv => WakeInv'
      /\ TimeInv => TimeInv'
  <2>1. \A k \in Present(sim) \cap (CpuId \cup {"POWER"}) :
           k \in Present(s) /\ Due(s, k) = Due(sim, k) - d /\ Due(sim, k) \in Nat
    BY <1>5, <1>6, Names
  <2>2. Present(s) \subseteq Kinds /\ 3 \in Nat /\ "NFC" \notin Present(s)
        /\ CpuId \cap Present(s) \subseteq Present(sim)
    BY <1>5, <1>6
  <2>3. sim' = SwitchToSim(CPU_Wakeup(s, "CPU_FTL", 3))
    BY <1>1 DEF s
  <2> QED BY <1>2, <1>4, <1>7, <2>1, <2>2, <2>3, WokenView
<1>9. /\ pcF # "boot" /\ reqQ = {} /\ doneQ = 0 /\ ~gbDone /\ pcW \notin Down
      /\ pcW \notin {"boot", "test", "off"}
  BY <1>4, Names DEF LoopInv, HostInv, Idle
<1>10. doneQ' = 1
  BY <1>2, <1>9
<1>11. HostInv'
  BY <1>2, <1>5, <1>8, <1>9, <1>10, Primes, Names DEF LoopInv, HostInv, Idle
<1> QED BY <1>8, <1>11, Primes DEF LoopInv

LEMMA PowerKeeps ==
  ASSUME NUM_EVENT >= 5, LoopInv, PowerEvent
  PROVE  LoopInv' /\ TimeInv'
<1>1. PICK i \in Slot : Take(i, Booting) /\ sim.evt[i].own = "POWER"
  BY DEF PowerEvent
<1>2. "POWER" \in Present(sim)
  BY <1>1, InHandGood DEF LoopInv, Kind
<1>3. Idle
  BY <1>2 DEF LoopInv, HostInv
<1>4. /\ sim' = sim_PowerUp /\ pcF' = "boot" /\ pcW' = "boot"
      /\ reqQ' = reqQ /\ doneQ' = doneQ /\ gbDone' = gbDone
  BY DEF PowerEvent
<1>5. GoodSim(sim') /\ sim'.cur = SIM /\ Present(sim') = CpuId
  BY <1>4, PowerUpGood
<1>6. HostInv'
  BY <1>3, <1>4, <1>5, Primes, Names DEF LoopInv, HostInv, Idle, PcW, PcF, Down
<1>7. WakeInv' /\ TimeInv'
  BY <1>4 DEF WakeInv, TimeInv, Down
<1> QED BY <1>5, <1>6, <1>7, Primes DEF LoopInv

LEMMA LoopInit == ASSUME NUM_EVENT >= 5, Init PROVE LoopInv /\ TimeInv
<1>1. GoodSim(sim) /\ sim.cur = SIM /\ Present(sim) = CpuId
  BY PowerUpGood DEF Init
<1>2. HostInv
  BY <1>1, Names DEF Init, HostInv, Idle, PcW, PcF, Down
<1>3. WakeInv /\ TimeInv
  BY DEF Init, WakeInv, TimeInv, Down
<1> QED BY <1>1, <1>2, <1>3 DEF LoopInv

LEMMA LoopNext ==
  ASSUME NUM_EVENT >= 5, LoopInv, [Next]_vars
  PROVE  LoopInv' /\ (TASK_TIME > 6 /\ TimeInv => TimeInv')
<1>1. CASE UNCHANGED vars
  <2>1. /\ sim' = sim /\ pcF' = pcF /\ pcW' = pcW /\ reqQ' = reqQ /\ doneQ' = doneQ
        /\ gbDone' = gbDone /\ rdyTask' = rdyTask /\ pendEvt' = pendEvt /\ nTick' = nTick
    BY <1>1 DEF vars, schedVars, taskVars
  <2>2. GoodSim(sim') /\ Present(sim)' = Present(sim) /\ \A k : Due(sim, k)' = Due(sim, k)
    BY <2>1, Primes DEF LoopInv
  <2>3. HostInv' /\ WakeInv'
    BY <2>1, <2>2 DEF LoopInv, HostInv, WakeInv, Idle
  <2>4. TimeInv => TimeInv'
    BY <2>1, <2>2 DEF TimeInv
  <2> QED BY <2>2, <2>3, <2>4, Primes DEF LoopInv
<1>2. CASE FTL_Main
  BY <1>2, FtlMainKeeps
<1>3. CASE Gather
  BY <1>3, GatherKeeps
<1>4. CASE TurnOfTask
  BY <1>4, TurnKeeps
<1>5. CASE \E r \in {"mapped", "unmapped", "shutdown"} : Request(r)
  BY <1>5, RequestKeeps
<1>6. CASE Kick
  BY <1>6, KickKeeps
<1>7. CASE BusyWaitDone
  BY <1>7, BusyWaitKeeps
<1>8. CASE CpuEvent
  BY <1>8, CpuEventKeeps
<1>9. CASE TimerEvent
  BY <1>9, TimerKeeps
<1>10. CASE NfcEvent
  BY <1>10, NfcKeeps
<1>11. CASE PowerEvent
  BY <1>11, PowerKeeps
<1> QED BY <1>1, <1>2, <1>3, <1>4, <1>5, <1>6, <1>7, <1>8, <1>9, <1>10, <1>11 DEF Next

LEMMA LoopAlways == ASSUME NUM_EVENT >= 5 PROVE Spec => []LoopInv
<1>1. Init => LoopInv
  BY LoopInit
<1>2. LoopInv /\ [Next]_vars => LoopInv'
  BY LoopNext
<1> QED BY <1>1, <1>2, PTL DEF Spec

\* Five events suffice (the code has fourteen): the pool is never empty when an
\* event is wanted, there is always an event to come, and none is passed over.
THEOREM QueueSoundAlways == ASSUME NUM_EVENT >= 5 PROVE Spec => []QueueSound
<1>1. ASSUME LoopInv PROVE QueueSound
  <2>1. ~sim.dry /\ \A i \in Queued(sim) : sim.evt[i].in >= 0
    BY <1>1 DEF LoopInv, GoodSim, EventsOk, Queued
  <2>2. Present(sim) # {}
    BY <1>1, Names DEF LoopInv, HostInv
  <2>3. Queued(sim) # {}
    BY <2>2 DEF Present
  <2> QED BY <2>1, <2>3 DEF QueueSound
<1> QED BY <1>1, LoopAlways, PTL

\* Neither CPU sleeps while there is something it would be woken for.
THEOREM NobodyOversleepsAlways == ASSUME NUM_EVENT >= 5 PROVE Spec => []NobodyOversleeps
<1>1. ASSUME LoopInv PROVE NobodyOversleeps
  <2>1. \A c \in CpuId : Asleep(c) => sim.cur # c /\ c \notin Present(sim)
    BY <1>1, CpuPresent DEF Asleep, LoopInv
  <2> QED BY <1>1, <2>1, Names DEF NobodyOversleeps, LoopInv, WakeInv
<1> QED BY <1>1, LoopAlways, PTL

\* Between the answer to a shutdown and the power cut no task has a turn, if a
\* turn is longer than the 5 us of FTL_Request and the 1 us of the power switch:
\* the code has 50.
THEOREM NoTurnBeforePowerOffAlways ==
  ASSUME NUM_EVENT >= 5, TASK_TIME > 6 PROVE Spec => NoTurnBeforePowerOff
<1> DEFINE A == [gbDone /\ pcW \in {"sd request", "sd wait", "off"} => UNCHANGED taskVars]_vars
<1>1. Init => LoopInv /\ TimeInv
  BY LoopInit
<1>2. LoopInv /\ TimeInv /\ [Next]_vars => LoopInv' /\ TimeInv'
  BY LoopNext
<1>3. ASSUME TimeInv, [Next]_vars PROVE A
  <2>1. ASSUME gbDone, pcW \in {"sd request", "sd wait", "off"}, Next PROVE UNCHANGED taskVars
    <3>1. sim.cur # "CPU_FTL"
      BY <1>3, <2>1 DEF TimeInv, Down
    <3>2. ~FTL_Main /\ ~Gather /\ ~TurnOfTask
      BY <3>1 DEF FTL_Main, Gather, TurnOfTask
    <3>3. CASE \E r \in {"mapped", "unmapped", "shutdown"} : Request(r)
      BY <3>3 DEF Request, taskVars
    <3>4. CASE Kick \/ BusyWaitDone \/ CpuEvent \/ TimerEvent \/ NfcEvent \/ PowerEvent
      BY <3>4 DEF Kick, BusyWaitDone, CpuEvent, TimerEvent, NfcEvent, PowerEvent, schedVars, taskVars
    <3> QED BY <2>1, <3>2, <3>3, <3>4 DEF Next
  <2> QED BY <1>3, <2>1
<1> QED BY <1>1, <1>2, <1>3, PTL DEF Spec, NoTurnBeforePowerOff

-----------------------------------------------------------------------------
(* The loop implements FtlSched.                                           *)

(* A task is ready, or to run in this round, or waits for something; and   *)
(* only one of the first two.                                              *)
LinkInv ==
  /\ rdyTask \subseteq Task /\ bmRdy \subseteq Task /\ rdyTask \cap bmRdy = {}
  /\ DOMAIN waitEvt = Task /\ waitEvt = [t \in Task |-> waitEvt[t]]
  /\ \A t \in Task : waitEvt[t] # {} \/ t \in rdyTask \cup bmRdy
  /\ pcF = "loop" => bmRdy = {}

\* The sets a task waits for, as FtlSched sees them.
WaitOf == [t \in 0 .. 3 |-> IF t \in bmRdy \cup rdyTask THEN {} ELSE waitEvt[t]]

LEMMA TaskIs == Task = 0 .. 3 /\ Sched!TID_REQ \in Task /\ Sched!TID_REQ_RESP \in Task
                /\ Sched!TID_GC \in Task /\ Sched!TID_META \in Task
BY DEF Task, Sched!TaskId, Sched!NUM_TASK, Sched!TID_REQ, Sched!TID_REQ_RESP, Sched!TID_GC,
       Sched!TID_META

LEMMA FinishView ==
  ASSUME LinkInv, NEW t \in Task, Sched!Turn(t), NEW w, NEW s, EndTurn(t, w, s),
         NEW trig, pendEvt' = pendEvt \cup trig
  PROVE  LinkInv' /\ \E yield \in BOOLEAN : Sched!Finish(t, waitEvt'[t], yield, trig)
<1>1. t \in bmRdy
  BY DEF Sched!Turn
<1>2. /\ waitEvt' = [waitEvt EXCEPT ![t] = w]
      /\ rdyTask' = IF w = {} THEN rdyTask \cup {t} ELSE rdyTask
      /\ bmRdy' = bmRdy \ {t} /\ curTask' = (t + 1) % 4
      /\ pcF' = IF bmRdy' = {} THEN "loop" ELSE "turns"
  BY DEF EndTurn
<1>3. /\ DOMAIN waitEvt' = Task /\ waitEvt' = [u \in Task |-> waitEvt'[u]]
      /\ \A u \in Task : waitEvt'[u] = IF u = t THEN w ELSE waitEvt[u]
  BY <1>2 DEF LinkInv
<1>4. LinkInv'
  BY <1>1, <1>2, <1>3 DEF LinkInv
<1>5. WaitOf' = [WaitOf EXCEPT ![t] = waitEvt'[t]]
  <2>1. \A u \in 0 .. 3 : WaitOf'[u] = IF u = t THEN waitEvt'[t] ELSE WaitOf[u]
    BY <1>1, <1>2, <1>3, TaskIs DEF LinkInv, WaitOf
  <2> QED BY <2>1, TaskIs DEF WaitOf
<1>6. PICK yield \in BOOLEAN : yield <=> w = {}
  OBVIOUS
<1>7. rdyTask' = IF yield THEN rdyTask \cup {t} ELSE rdyTask
  BY <1>2, <1>6
<1>8. Sched!Finish(t, waitEvt'[t], yield, trig)
  BY <1>2, <1>5, <1>7 DEF Sched!Finish, Sched!NUM_TASK, WaitOf
<1> QED BY <1>4, <1>8

\* The pass of the loop: the tasks whose time is up and that are not ready.
LEMMA GatherView ==
  ASSUME LinkInv, Gather
  PROVE  LinkInv' /\ (UNCHANGED Sched!schedVars \/ \E x \in SUBSET Task : Sched!Round(x))
<1> DEFINE late == Expired \ rdyTask
           ready == rdyTask \cup Woken \cup Expired
<1>1. /\ pcF = "loop" /\ bmRdy = {}
      /\ bmRdy' = ready /\ rdyTask' = {} /\ pendEvt' = {} /\ curTask' = curTask
      /\ pcF' = IF ready = {} THEN "loop" ELSE "turns"
      /\ waitEvt' = [t \in Task |-> IF t \in Woken THEN waitEvt[t] \ pendEvt
                                    ELSE IF t \in Expired THEN {} ELSE waitEvt[t]]
  BY DEF Gather, LinkInv
<1>2. Woken = {t \in Task : waitEvt[t] \cap pendEvt # {}} /\ Expired \subseteq Task
      /\ rdyTask \subseteq Task
  BY DEF Woken, Expired, LinkInv
<1> HIDE DEF late
<1>3. LinkInv'
  <2>1. ready \subseteq Task /\ \A t \in Task \ ready : waitEvt'[t] = waitEvt[t] /\ waitEvt[t] # {}
    BY <1>1, <1>2 DEF LinkInv
  <2>2. DOMAIN waitEvt' = Task /\ waitEvt' = [t \in Task |-> waitEvt'[t]]
    BY <1>1
  <2>3. pcF' = "loop" => bmRdy' = {}
    BY <1>1
  <2> QED BY <1>1, <2>1, <2>2, <2>3 DEF LinkInv
<1>4. \A t \in 0 .. 3 : WaitOf[t] = (IF t \in rdyTask THEN {} ELSE waitEvt[t])
                        /\ WaitOf'[t] = IF t \in ready THEN {} ELSE waitEvt'[t]
  BY <1>1 DEF WaitOf
<1>5. {t \in Task : WaitOf[t] \cap pendEvt # {}} = Woken \ rdyTask
  BY <1>2, <1>4, TaskIs
<1>6. rdyTask \cup (Woken \ rdyTask) \cup late = ready
  BY DEF late
<1>7. WaitOf' = [t \in 0 .. 3 |-> IF t \in ready THEN {} ELSE WaitOf[t]]
  <2>1. \A t \in 0 .. 3 : WaitOf'[t] = IF t \in ready THEN {} ELSE WaitOf[t]
    BY <1>1, <1>4, TaskIs
  <2> HIDE DEF ready
  <2> QED BY <2>1 DEF WaitOf
<1>8. \A t \in late : WaitOf[t] # {}
  BY <1>1, <1>2, <1>4, TaskIs DEF late, LinkInv
<1>9. CASE rdyTask # {} \/ pendEvt # {} \/ late # {}
  <2>1. PICK x \in SUBSET Task : x = late
    BY <1>2 DEF late
  <2>2. Sched!Round(x)
    BY <1>1, <1>5, <1>6, <1>7, <1>8, <1>9, <2>1, TaskIs DEF Sched!Round, WaitOf, Task
  <2> QED BY <1>3, <2>2
<1>10. CASE rdyTask = {} /\ pendEvt = {} /\ late = {}
  <2>1. ready = {}
    BY <1>2, <1>10 DEF late
  <2>2. WaitOf' = WaitOf
    BY <1>7, <2>1 DEF WaitOf
  <2> QED BY <1>1, <1>3, <1>10, <2>1, <2>2 DEF Sched!schedVars, WaitOf
<1> QED BY <1>9, <1>10

\* What a step may do to the scheduler.
SchedStep ==
  \/ \E x \in SUBSET Task : Sched!Round(x)
  \/ \E t \in Task : /\ Sched!Turn(t)
                     /\ \E yield \in BOOLEAN, trig \in {{}, {"IO_FREE"}, {"NEW_BLK"}} :
                          Sched!Finish(t, waitEvt'[t], yield, trig)
  \/ \E e \in {"USER_CMD", "NAND_CMD"} : Sched!TrigAsync(e)
  \/ Restart

LEMMA LinkTurn == ASSUME LinkInv, TurnOfTask PROVE LinkInv' /\ SchedStep
<1>1. PICK t \in Task, trig \in {{}, {"IO_FREE"}, {"NEW_BLK"}} :
         /\ Sched!Turn(t) /\ pendEvt' = pendEvt \cup trig
         /\ \E w, s : EndTurn(t, w, s)
  <2>1. CASE ReqTurn
    <3>1. Sched!Turn(Sched!TID_REQ) /\ pendEvt' = pendEvt \cup {}
          /\ \E w, s : EndTurn(Sched!TID_REQ, w, s)
      BY <2>1 DEF ReqTurn
    <3> QED BY <3>1, TaskIs
  <2>2. CASE RespTurn
    <3>1. Sched!Turn(Sched!TID_REQ_RESP)
          /\ (pendEvt' = pendEvt \cup {} \/ pendEvt' = pendEvt \cup {"IO_FREE"})
          /\ \E w, s : EndTurn(Sched!TID_REQ_RESP, w, s)
      BY <2>2 DEF RespTurn
    <3> QED BY <3>1, TaskIs
  <2>3. CASE GcTurn
    <3>1. Sched!Turn(Sched!TID_GC) /\ pendEvt' = pendEvt \cup {"NEW_BLK"}
          /\ \E w, s : EndTurn(Sched!TID_GC, w, s)
      BY <2>3 DEF GcTurn
    <3> QED BY <3>1, TaskIs
  <2>4. CASE MetaTurn
    <3>1. Sched!Turn(Sched!TID_META) /\ pendEvt' = pendEvt \cup {}
          /\ \E w, s : EndTurn(Sched!TID_META, w, s)
      BY <2>4 DEF MetaTurn
    <3> QED BY <3>1, TaskIs
  <2> QED BY <2>1, <2>2, <2>3, <2>4 DEF TurnOfTask
<1>2. PICK w, s : EndTurn(t, w, s)
  BY <1>1
<1>3. LinkInv' /\ \E yield \in BOOLEAN : Sched!Finish(t, waitEvt'[t], yield, trig)
  BY <1>1, <1>2, FinishView
<1> QED BY <1>1, <1>3 DEF SchedStep

LEMMA LinkStep ==
  ASSUME LinkInv, [Next]_vars PROVE LinkInv' /\ [SchedStep]_(Sched!schedVars)
<1>1. ASSUME UNCHANGED taskVars, pendEvt' = pendEvt \/ \E e \in {"USER_CMD", "NAND_CMD"} :
                                   pendEvt' = pendEvt \cup {e}
      PROVE  /\ pcF' = "boot" \/ pcF' = pcF => LinkInv'
             /\ [SchedStep]_(Sched!schedVars)
  <2>1. /\ rdyTask' = rdyTask /\ bmRdy' = bmRdy /\ curTask' = curTask /\ waitEvt' = waitEvt
    BY <1>1 DEF taskVars
  <2>2. pcF' = "boot" \/ pcF' = pcF => LinkInv'
    BY <2>1 DEF LinkInv
  <2>3. CASE pendEvt' = pendEvt
    BY <2>1, <2>2, <2>3 DEF Sched!schedVars
  <2>4. ASSUME NEW e \in {"USER_CMD", "NAND_CMD"}, pendEvt' = pendEvt \cup {e}
        PROVE  Sched!TrigAsync(e)
    BY <2>1, <2>4 DEF Sched!TrigAsync
  <2>5. SchedStep \/ UNCHANGED Sched!schedVars
    BY <1>1, <2>3, <2>4 DEF SchedStep
  <2> QED BY <2>2, <2>5
<1>2. CASE UNCHANGED vars
  BY <1>1, <1>2 DEF vars, schedVars
<1>3. CASE FTL_Main
  <2>1. Restart /\ waitEvt' = waitEvt /\ pcF' = "loop"
    BY <1>3 DEF FTL_Main, Restart
  <2>2. LinkInv'
    BY <2>1 DEF LinkInv, Restart
  <2> QED BY <2>1, <2>2 DEF SchedStep
<1>4. CASE Gather
  BY <1>4, GatherView DEF SchedStep
<1>5. CASE TurnOfTask
  BY <1>5, LinkTurn
<1>6. CASE \E r \in {"mapped", "unmapped", "shutdown"} : Request(r)
  <2>1. UNCHANGED taskVars /\ pendEvt' = pendEvt \cup {"USER_CMD"} /\ pcF' = pcF
    BY <1>6 DEF Request
  <2> QED BY <1>1, <2>1
<1>7. CASE Kick \/ BusyWaitDone \/ CpuEvent \/ PowerEvent
  <2>1. UNCHANGED taskVars /\ pendEvt' = pendEvt /\ (pcF' = "boot" \/ pcF' = pcF)
    BY <1>7 DEF Kick, BusyWaitDone, CpuEvent, PowerEvent, schedVars
  <2> QED BY <1>1, <2>1
<1>8. CASE TimerEvent
  <2>1. UNCHANGED taskVars /\ pendEvt' = pendEvt /\ pcF' = pcF
    BY <1>8 DEF TimerEvent
  <2> QED BY <1>1, <2>1
<1>9. CASE NfcEvent
  <2>1. UNCHANGED taskVars /\ pendEvt' = pendEvt \cup {"NAND_CMD"} /\ pcF' = pcF
    BY <1>9 DEF NfcEvent
  <2> QED BY <1>1, <2>1
<1> QED BY <1>2, <1>3, <1>4, <1>5, <1>6, <1>7, <1>8, <1>9 DEF Next

\* The loop of Sched_Run on the simulator, with its ticks and its sleeping CPU,
\* implements the scheduler the FTL modules assume.
THEOREM ImplementsSchedHolds == Spec => ImplementsSched
<1>1. Init => LinkInv /\ Sched!SchedInit({})
  <2> SUFFICES ASSUME Init PROVE LinkInv /\ Sched!SchedInit({})
    OBVIOUS
  <2>1. /\ rdyTask = Task /\ bmRdy = {} /\ curTask = 0 /\ pendEvt = {}
        /\ waitEvt = [t \in Task |-> {}]
    BY DEF Init
  <2>2. LinkInv
    BY <2>1 DEF LinkInv
  <2>3. Sched!SchedInit({})
    BY <2>1, TaskIs DEF Sched!SchedInit, Sched!TaskId, Sched!NUM_TASK, Sched!TID_REQ
  <2> QED BY <2>2, <2>3
<1>2. LinkInv /\ [Next]_vars => LinkInv' /\ [SchedStep]_(Sched!schedVars)
  BY LinkStep
<1> QED BY <1>1, <1>2, PTL DEF Spec, ImplementsSched, SchedStep
=============================================================================
