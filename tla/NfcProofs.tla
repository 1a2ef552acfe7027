------------------------------ MODULE NfcProofs ------------------------------
(***************************************************************************)
(* What holds of the controller and of the firmware's use of it, for any   *)
(* blocks, buffers, masks, issuers and number of commands.                 *)
(*                                                                         *)
(*   OneEvent      the controller always has exactly one event to go on    *)
(*                 with (IInv)                                             *)
(*   BuffersOwned  every buffer belongs to one command at most             *)
(*   DataWait      the data of a program are where it will find them       *)
(*   ImplementsIo  every step is one of the die of FtlIo, or none          *)
(*                                                                         *)
(* The last three from BufInv: who owns which buffer (OwnInv), and what    *)
(* the buffers, the latch of the die and the flash hold for the commands   *)
(* that own them (DataInv).                                                *)
(***************************************************************************)
EXTENDS Nfc, WellFoundedInduction, SequenceTheorems, TLAPS

\* BIT_SCAN_LSB of a set that is not empty is its least member.
LEMMA LeastChunk ==
  ASSUME NEW S \in SUBSET Chunk, S # {}
  PROVE  Lsb(S) \in S /\ \A x \in S : Lsb(S) <= x
<1>1. S \subseteq Nat
  BY DEF Chunk
<1>2. PICK m \in S : \A y \in S : ~(<<y, m>> \in OpToRel(<, Nat))
  BY <1>1, WFMin, NatLessThanWellFounded
<1>3. \A y \in S : m <= y
  <2> TAKE y \in S
  <2>1. y \in Nat /\ m \in Nat
    BY <1>1
  <2>2. ~(y < m)
    BY <1>2, <2>1 DEF OpToRel
  <2> QED BY <2>1, <2>2
<1> QED BY <1>3 DEF Lsb

Ops  == {"READ", "PGM", "ERB"}
Keys == {"User", "Meta", "Mig", "UErs"}

\* What matters of a command: where it goes, and that a transfer has chunks to
\* transfer, the first of the page among them.
GoodCmd(c) ==
  /\ c.op \in Ops /\ c.cb \in Keys /\ c.blk \in AnyBlk
  /\ c.op = "ERB" => c.bm = {}
  /\ c.op # "ERB" => /\ c.bm \in SUBSET Chunk /\ 0 \in c.bm /\ c.wl \in AnyWL
                     /\ \A x, y \in c.bm : x # y => c.buf[x] # c.buf[y]

\* What the inductive invariant adds to OneEvent: the commands, of a set S of
\* good ones, are where they should be.
CmdsIn(S) ==
  /\ \A c \in S : GoodCmd(c)
  /\ dieQ \in Seq(S) /\ done \in [Keys -> Seq(S)]
  /\ cr \in [step : Step, cmd : S \cup {NoCmd}, rest : SUBSET Chunk]
  /\ IF cr.step = "WAIT_NEW_CMD" THEN cr.cmd = NoCmd ELSE cr.cmd \in S
  /\ nextIss \in [AnyBlk -> Nat]

IInv == OneEvent /\ \E S : CmdsIn(S)

LEMMA NewCmdIsNoStep ==
  /\ NewCmdEvt \in NfcEvt /\ StepEvt \in NfcEvt /\ StepEvt = DmaEvt(0) /\ 0 \in Chunk
  /\ \A c \in Chunk : DmaEvt(c) \in NfcEvt /\ DmaEvt(c) # NewCmdEvt
BY NfcAssumption DEF NewCmdEvt, StepEvt, DmaEvt, NfcEvt, Chunk

LEMMA InitIInv == Init => IInv
<1> SUFFICES ASSUME Init PROVE IInv
  OBVIOUS
<1>1. OneEvent
  BY DEF Init, OneEvent, Trigger, Idle, NoEvts, Count
<1>2. CmdsIn({})
  BY DEF Init, CmdsIn, Keys, Idle, Step
<1> QED BY <1>1, <1>2 DEF IInv

\* A handled event is replaced by the next one.
LEMMA ReplaceOne ==
  ASSUME NEW e \in NfcEvt, NEW new \in SUBSET NfcEvt, evts = Count({e}), Replace(e, new)
  PROVE  evts' = Count(new)
BY DEF Replace, Count

\* The event in hand is the only one: of a busy die, that of its step.
LEMMA InHand ==
  ASSUME OneEvent, NEW e \in NfcEvt, evts[e] > 0
  PROVE  evts = Count({e}) /\ (cr.step # "WAIT_NEW_CMD" => e # NewCmdEvt /\ e.off \in Chunk)
<1>1. CASE cr.step = "WAIT_NEW_CMD"
  BY <1>1 DEF OneEvent, Count, Trigger
<1>2. CASE cr.step # "WAIT_NEW_CMD"
  <2>1. PICK c \in Chunk : evts = Count({DmaEvt(c)})
    BY <1>2 DEF OneEvent
  <2>2. e = DmaEvt(c)
    BY <2>1 DEF Count
  <2> QED BY <2>1, <2>2, NewCmdIsNoStep DEF DmaEvt
<1> QED BY <1>1, <1>2

\* A step that goes on leaves the one event of the next step; to transfer, a
\* chunk must be left.
LEMMA GotoKeeps ==
  ASSUME NEW S, CmdsIn(S), cr.step # "WAIT_NEW_CMD", NEW e \in NfcEvt, evts = Count({e}),
         UNCHANGED nextIss,
         NEW step \in Step \ {"WAIT_NEW_CMD"}, NEW rest \in SUBSET Chunk, NEW new,
         Goto(e, step, rest, new),
         \/ step = "WAIT_BUSY" /\ new = StepEvt
         \/ rest # {} /\ new = DmaEvt(Lsb(rest))
  PROVE  OneEvent' /\ CmdsIn(S)'
<1>1. /\ cr' = [cr EXCEPT !.step = step, !.rest = rest] /\ cr'.step = step /\ cr'.rest = rest
      /\ cr'.cmd = cr.cmd /\ dieQ' = dieQ /\ done' = done /\ Replace(e, {new})
  BY DEF Goto, CmdsIn
<1>2. CmdsIn(S)'
  BY <1>1 DEF CmdsIn
<1>3. CASE step = "WAIT_BUSY" /\ new = StepEvt
  <2>1. evts' = Count({DmaEvt(0)}) /\ 0 \in Chunk
    BY <1>1, <1>3, ReplaceOne, NewCmdIsNoStep
  <2> QED BY <1>1, <1>2, <1>3, <2>1 DEF OneEvent
<1>4. CASE rest # {} /\ new = DmaEvt(Lsb(rest))
  <2>1. Lsb(rest) \in rest /\ (\A x \in rest : Lsb(rest) <= x) /\ Lsb(rest) \in Chunk
    BY <1>4, LeastChunk
  <2>2. evts' = Count({DmaEvt(Lsb(rest))})
    BY <1>1, <1>4, <2>1, ReplaceOne, NewCmdIsNoStep
  <2> QED BY <1>1, <1>2, <2>1, <2>2 DEF OneEvent
<1> QED BY <1>3, <1>4

\* The end of a command leaves the trigger of the next one, if there is one.
LEMMA DoneKeeps ==
  ASSUME NEW S, CmdsIn(S), cr.step # "WAIT_NEW_CMD", NEW e \in NfcEvt, evts = Count({e}), DoneCmd(e),
         UNCHANGED nextIss
  PROVE  OneEvent' /\ CmdsIn(S)'
<1>1. /\ cr' = Idle /\ dieQ' = dieQ /\ Replace(e, Trigger("WAIT_NEW_CMD", dieQ))
      /\ done' = [done EXCEPT ![cr.cmd.cb] = Append(@, cr.cmd)]
  BY DEF DoneCmd
<1>2. done' \in [Keys -> Seq(S)]
  <2>1. cr.cmd \in S /\ done \in [Keys -> Seq(S)]
    BY DEF CmdsIn
  <2>2. \A q \in Seq(S) : Append(q, cr.cmd) \in Seq(S)
    BY <2>1
  <2> QED BY <1>1, <2>1, <2>2
<1>3. CmdsIn(S)'
  BY <1>1, <1>2 DEF CmdsIn, Idle, Step
<1>4. evts' = Count(Trigger("WAIT_NEW_CMD", dieQ))
  BY <1>1, ReplaceOne, NewCmdIsNoStep DEF Trigger
<1> QED BY <1>1, <1>3, <1>4 DEF OneEvent, Idle

LEMMA ControllerKeeps == IInv /\ Controller => IInv'
<1> SUFFICES ASSUME IInv, NEW e \in NfcEvt, HandleEvt(e) PROVE IInv'
  BY DEF Controller
<1>1. PICK S : CmdsIn(S)
  BY DEF IInv
<1>2. evts = Count({e}) /\ OneEvent /\ nextIss' = nextIss
  BY InHand DEF IInv, HandleEvt
<1> SUFFICES OneEvent' /\ CmdsIn(S)'
  BY DEF IInv
<1>3. CASE HandleNew(e)
  <2>1. CASE e.new /\ dieQ # <<>>
    <3>1. /\ cr' = [step |-> "WAIT_CMD_IN", cmd |-> Head(dieQ), rest |-> Chunk]
          /\ dieQ' = Tail(dieQ) /\ Replace(e, {StepEvt}) /\ done' = done
      BY <1>3, <2>1 DEF HandleNew
    <3>2. Head(dieQ) \in S /\ Tail(dieQ) \in Seq(S)
      BY <1>1, <2>1 DEF CmdsIn
    <3>3. CmdsIn(S)'
      BY <1>1, <1>2, <3>1, <3>2 DEF CmdsIn, Step
    <3>4. evts' = Count({DmaEvt(0)}) /\ 0 \in Chunk
      BY <1>2, <3>1, ReplaceOne, NewCmdIsNoStep
    <3> QED BY <3>1, <3>3, <3>4 DEF OneEvent
  <2>2. CASE ~(e.new /\ dieQ # <<>>)
    <3>1. e = NewCmdEvt /\ dieQ # <<>>
      BY <1>2, <1>3 DEF OneEvent, HandleNew, HandleEvt, Count, Trigger
    <3> QED BY <2>2, <3>1 DEF NewCmdEvt
  <2> QED BY <2>1, <2>2
<1>4. CASE cr.step # "WAIT_NEW_CMD" /\ HandleRead(e)
  <2>1. cr.cmd.bm \in SUBSET Chunk /\ cr.cmd.bm # {} /\ cr.rest \in SUBSET Chunk
    BY <1>1, <1>4 DEF CmdsIn, GoodCmd, HandleRead
  <2>2. \/ Goto(e, "WAIT_BUSY", cr.cmd.bm, StepEvt)
        \/ Goto(e, "WAIT_DMA_OUT", cr.cmd.bm, DmaEvt(Lsb(cr.cmd.bm)))
        \/ LET rest == cr.rest \ {e.off} IN
             rest # {} /\ Goto(e, "WAIT_DMA_OUT", rest, DmaEvt(Lsb(rest)))
        \/ DoneCmd(e)
    BY <1>4 DEF HandleRead
  <2> QED BY <1>1, <1>2, <1>4, <2>1, <2>2, GotoKeeps, DoneKeeps DEF Step
<1>5. CASE cr.step # "WAIT_NEW_CMD" /\ HandleProgram(e)
  <2>1. cr.cmd.bm \in SUBSET Chunk /\ cr.cmd.bm # {} /\ cr.rest \in SUBSET Chunk
    BY <1>1, <1>5 DEF CmdsIn, GoodCmd, HandleProgram
  <2>2. \/ Goto(e, "WAIT_DMA_IN", cr.cmd.bm, DmaEvt(Lsb(cr.cmd.bm)))
        \/ LET rest == cr.rest \ {e.off} IN
             \/ rest # {} /\ Goto(e, "WAIT_DMA_IN", rest, DmaEvt(Lsb(rest)))
             \/ Goto(e, "WAIT_BUSY", rest, StepEvt)
        \/ DoneCmd(e)
    BY <1>5 DEF HandleProgram
  <2> QED BY <1>1, <1>2, <1>5, <2>1, <2>2, GotoKeeps, DoneKeeps DEF Step
<1>6. CASE cr.step # "WAIT_NEW_CMD" /\ HandleErase(e)
  <2>1. cr.rest \in SUBSET Chunk
    BY <1>1 DEF CmdsIn
  <2>2. Goto(e, "WAIT_BUSY", cr.rest, StepEvt) \/ DoneCmd(e)
    BY <1>6 DEF HandleErase
  <2> QED BY <1>1, <1>2, <1>6, <2>1, <2>2, GotoKeeps, DoneKeeps DEF Step
<1> QED BY <1>3, <1>4, <1>5, <1>6 DEF HandleEvt

\* NFC_Issue adds the trigger of an idle die that had nothing to do, and
\* only then.
LEMMA IssueKeeps ==
  ASSUME OneEvent, NEW S, CmdsIn(S), NEW c, GoodCmd(c), NFC_Issue(c), nextIss' \in [AnyBlk -> Nat],
         \/ done' = done
         \/ \E k \in Keys : done[k] # <<>> /\ done' = [done EXCEPT ![k] = Tail(@)]
  PROVE  OneEvent' /\ CmdsIn(S \cup {c})'
<1> DEFINE T == S \cup {c}
<1>1. dieQ' = Append(dieQ, c) /\ cr' = cr
  BY DEF NFC_Issue
<1>2. dieQ \in Seq(T) /\ Append(dieQ, c) \in Seq(T) /\ Append(dieQ, c) # <<>>
      /\ (Len(dieQ) = 0 <=> dieQ = <<>>) /\ \A q \in Seq(S) : q \in Seq(T)
  <2>1. dieQ \in Seq(S)
    BY DEF CmdsIn
  <2>. QED BY <2>1
<1>3. done' \in [Keys -> Seq(T)]
  <2>1. done \in [Keys -> Seq(T)]
    BY <1>2 DEF CmdsIn
  <2>2. \A q \in Seq(T) : q # <<>> => Tail(q) \in Seq(T)
    OBVIOUS
  <2> HIDE DEF T
  <2> QED BY <2>1, <2>2
<1>4. CmdsIn(T)'
  BY <1>1, <1>2, <1>3 DEF CmdsIn
<1>5. OneEvent'
  <2>1. evts' = [e \in NfcEvt |-> evts[e] +
                   (IF e \in (IF Len(dieQ) = 0 THEN Trigger(cr.step, dieQ') ELSE {}) THEN 1 ELSE 0)]
    BY DEF NFC_Issue
  <2>2. CASE cr.step = "WAIT_NEW_CMD" /\ dieQ = <<>>
    <3>1. evts = Count({}) /\ Trigger(cr.step, dieQ') = {NewCmdEvt}
      BY <1>1, <1>2, <2>2 DEF OneEvent, Trigger
    <3>2. evts' = Count({NewCmdEvt})
      BY <1>2, <2>1, <2>2, <3>1 DEF Count
    <3> QED BY <1>1, <2>2, <3>1, <3>2 DEF OneEvent
  <2>3. CASE ~(cr.step = "WAIT_NEW_CMD" /\ dieQ = <<>>)
    <3>1. evts \in [NfcEvt -> Int]
      BY DEF OneEvent, Count
    <3>2. evts' = evts
      BY <1>2, <2>1, <2>3, <3>1 DEF Trigger
    <3> QED BY <1>1, <1>2, <2>3, <3>2 DEF OneEvent, Trigger
  <2> QED BY <2>2, <2>3
<1> QED BY <1>4, <1>5

LEMMA SameController ==
  ASSUME IInv, UNCHANGED <<cr, dieQ, evts, nextIss>>,
         \/ done' = done
         \/ \E k \in Keys : done[k] # <<>> /\ done' = [done EXCEPT ![k] = Tail(@)]
  PROVE  IInv'
<1>1. PICK S : CmdsIn(S)
  BY DEF IInv
<1>2. done' \in [Keys -> Seq(S)]
  <2>1. done \in [Keys -> Seq(S)]
    BY <1>1 DEF CmdsIn
  <2>2. \A q \in Seq(S) : q # <<>> => Tail(q) \in Seq(S)
    OBVIOUS
  <2> QED BY <2>1, <2>2
<1>3. CmdsIn(S)'
  BY <1>1, <1>2 DEF CmdsIn
<1> QED BY <1>3 DEF IInv, OneEvent

LEMMA FirmwareKeeps == IInv /\ Firmware => IInv'
<1> SUFFICES ASSUME IInv, Firmware PROVE IInv'
  OBVIOUS
<1>1. PICK S : CmdsIn(S)
  BY DEF IInv
<1>2. /\ Issuers \subseteq Keys /\ \A bm \in Masks : bm \in SUBSET Chunk /\ 0 \in bm
      /\ nextIss \in [AnyBlk -> Nat]
      /\ \A b \in AnyBlk : nextIss[b] < NUM_WL => nextIss[b] \in AnyWL
  <2>1. nextIss \in [AnyBlk -> Nat]
    BY <1>1 DEF CmdsIn
  <2>. QED BY <2>1, NfcAssumption DEF Keys, AnyWL
<1>3. ASSUME NEW cb \in Issuers, NEW b \in AnyBlk, NEW w \in AnyWL, IO_Read(cb, b, w)
      PROVE  IInv'
  <2>1. PICK bm \in Masks : \E f \in Allocs(bm) :
          NFC_Issue(CmdInfo("READ", cb, b, w, bm, f, NoChunks)) /\ UNCHANGED <<done, nextIss>>
    BY <1>3 DEF IO_Read
  <2>. PICK f \in Allocs(bm) : NFC_Issue(CmdInfo("READ", cb, b, w, bm, f, NoChunks)) /\ UNCHANGED <<done, nextIss>>
    BY <2>1
  <2>2. GoodCmd(CmdInfo("READ", cb, b, w, bm, f, NoChunks))
    BY <1>2 DEF GoodCmd, CmdInfo, Ops, Allocs
  <2> QED BY <1>1, <1>2, <2>2, IssueKeeps DEF IInv
<1>4. ASSUME NEW cb \in Issuers, NEW b \in AnyBlk, NEW l, IO_Program(cb, b, l)
      PROVE  IInv'
  <2>1. PICK bm \in Masks : \E f \in Allocs(bm) : \E d :
          NFC_Issue(CmdInfo("PGM", cb, b, nextIss[b], bm, f, d)) /\ done' = done
    BY <1>4 DEF IO_Program
  <2>. PICK f \in Allocs(bm) : \E d :
          NFC_Issue(CmdInfo("PGM", cb, b, nextIss[b], bm, f, d)) /\ done' = done
    BY <2>1
  <2>. PICK d : NFC_Issue(CmdInfo("PGM", cb, b, nextIss[b], bm, f, d)) /\ done' = done
    OBVIOUS
  <2>2. GoodCmd(CmdInfo("PGM", cb, b, nextIss[b], bm, f, d)) /\ nextIss' \in [AnyBlk -> Nat]
    BY <1>2, <1>4 DEF IO_Program, GoodCmd, CmdInfo, Ops, Allocs
  <2> QED BY <1>1, <2>2, IssueKeeps DEF IInv
<1>5. ASSUME NEW cb \in Issuers, NEW b \in AnyBlk, IO_Erase(cb, b) PROVE IInv'
  <2>1. NFC_Issue(CmdInfo("ERB", cb, b, 0, {}, <<>>, NoChunks)) /\ done' = done
    BY <1>5 DEF IO_Erase
  <2>2. GoodCmd(CmdInfo("ERB", cb, b, 0, {}, <<>>, NoChunks)) /\ nextIss' \in [AnyBlk -> Nat]
    BY <1>2, <1>5 DEF IO_Erase, GoodCmd, CmdInfo, Ops
  <2> QED BY <1>1, <2>1, <2>2, IssueKeeps DEF IInv
<1>6. ASSUME NEW k \in Issuers, NEW b \in AnyBlk, Copy(k, b) PROVE IInv'
  <2>1. PICK d : /\ done[k] # <<>> /\ Head(done[k]).op = "READ"
                 /\ NFC_Issue(CmdInfo("PGM", k, b, nextIss[b], Head(done[k]).bm, Head(done[k]).buf, d))
                 /\ done' = [done EXCEPT ![k] = Tail(@)]
    BY <1>6 DEF Copy
  <2>2. Head(done[k]) \in S
    BY <1>1, <1>2, <2>1 DEF CmdsIn
  <2>3. /\ GoodCmd(CmdInfo("PGM", k, b, nextIss[b], Head(done[k]).bm, Head(done[k]).buf, d))
        /\ nextIss' \in [AnyBlk -> Nat]
    BY <1>1, <1>2, <1>6, <2>1, <2>2 DEF Copy, GoodCmd, CmdInfo, Ops, CmdsIn
  <2> QED BY <1>1, <1>2, <2>1, <2>3, IssueKeeps DEF IInv
<1>7. ASSUME NEW k \in Issuers, Collect(k) PROVE IInv'
  BY <1>2, <1>7, SameController DEF Collect, nfcVars
<1>8. CASE TakeEvents
  BY <1>8, SameController DEF TakeEvents, nfcVars
<1>9. CASE PowerCycle
  <2>1. CmdsIn(S)'
    BY <1>1, <1>9 DEF CmdsIn, PowerCycle, Idle, Step
  <2>2. OneEvent'
    BY <1>9 DEF PowerCycle, OneEvent, Idle, Trigger, NoEvts, Count
  <2> QED BY <2>1, <2>2 DEF IInv
<1> QED BY <1>3, <1>4, <1>5, <1>6, <1>7, <1>8, <1>9 DEF Firmware

LEMMA IInvNext == IInv /\ [Next]_vars => IInv'
<1>1. IInv /\ UNCHANGED vars => IInv'
  BY SameController DEF vars, nfcVars
<1>. QED BY <1>1, ControllerKeeps, FirmwareKeeps DEF Next

\* The controller has exactly one event to go on with, whatever the firmware
\* issues and whenever: it neither forgets a command nor runs two at once.
THEOREM OneEventAlways == Spec => []OneEvent
<1>1. Spec => []IInv
  BY InitIInv, IInvNext, PTL DEF Spec
<1>2. IInv => OneEvent
  BY DEF IInv
<1>. QED BY <1>1, <1>2, PTL

-----------------------------------------------------------------------------
(* The buffers the commands of a sequence hold.                            *)

Held(s) == UNION {BufsOf(s[i]) : i \in DOMAIN s}
Own(s)  == \A i, j \in DOMAIN s : i # j => BufsOf(s[i]) \cap BufsOf(s[j]) = {}

LEMMA HeldNone == Held(<<>>) = {} /\ Own(<<>>)
BY DEF Held, Own

LEMMA HeldAppend ==
  ASSUME NEW S, NEW s \in Seq(S), NEW c
  PROVE  /\ Held(Append(s, c)) = Held(s) \cup BufsOf(c)
         /\ Own(s) /\ BufsOf(c) \cap Held(s) = {} => Own(Append(s, c))
<1>1. Len(s) \in Nat /\ DOMAIN s = 1 .. Len(s)
  BY LenProperties
<1>2. DOMAIN Append(s, c) = 1 .. Len(s) + 1 /\ Append(s, c)[Len(s) + 1] = c
      /\ \A i \in 1 .. Len(s) : Append(s, c)[i] = s[i]
  BY <1>1
<1> DEFINE t == Append(s, c)
<1>3. \A i \in DOMAIN t : i = Len(s) + 1 \/ i \in DOMAIN s
  BY <1>1, <1>2
<1>4. DOMAIN s \subseteq DOMAIN t /\ Len(s) + 1 \in DOMAIN t
  BY <1>1, <1>2
<1>5. t[Len(s) + 1] = c /\ \A i \in DOMAIN s : t[i] = s[i]
  BY <1>1, <1>2
<1> HIDE DEF t
<1>6. Held(t) = Held(s) \cup BufsOf(c)
  BY <1>3, <1>4, <1>5 DEF Held
<1>7. ASSUME Own(s), BufsOf(c) \cap Held(s) = {}
      PROVE  Own(t)
  <2>1. \A i \in DOMAIN s : BufsOf(c) \cap BufsOf(s[i]) = {}
    BY <1>7 DEF Held
  <2>. QED
    BY <1>3, <1>5, <1>7, <2>1 DEF Own
<1>. QED
  BY <1>6, <1>7 DEF t

LEMMA HeldConcat ==
  ASSUME NEW S, NEW s \in Seq(S), NEW t \in Seq(S)
  PROVE  /\ Held(s \o t) = Held(s) \cup Held(t)
         /\ Own(s) /\ Own(t) /\ Held(s) \cap Held(t) = {} => Own(s \o t)
<1>1. Len(s) \in Nat /\ DOMAIN s = 1 .. Len(s) /\ Len(t) \in Nat /\ DOMAIN t = 1 .. Len(t)
  BY LenProperties
<1>2. DOMAIN (s \o t) = 1 .. Len(s) + Len(t)
  BY <1>1
<1>3. /\ \A i \in DOMAIN s : (s \o t)[i] = s[i]
      /\ \A i \in DOMAIN t : (s \o t)[Len(s) + i] = t[i]
  BY <1>1
<1> DEFINE u == s \o t
<1>4. /\ \A i \in DOMAIN s : i \in DOMAIN u /\ u[i] = s[i]
      /\ \A i \in DOMAIN t : Len(s) + i \in DOMAIN u /\ u[Len(s) + i] = t[i]
  BY <1>1, <1>2, <1>3
<1>5. \A i \in DOMAIN u : i \in DOMAIN s \/ (i - Len(s) \in DOMAIN t /\ i = Len(s) + (i - Len(s)))
  BY <1>1, <1>2
<1> HIDE DEF u
<1>6. \A i \in DOMAIN u : \/ i \in DOMAIN s /\ u[i] = s[i]
                          \/ i - Len(s) \in DOMAIN t /\ u[i] = t[i - Len(s)]
  BY <1>4, <1>5
<1>7. Held(u) = Held(s) \cup Held(t)
  BY <1>4, <1>6 DEF Held
<1>8. ASSUME Own(s), Own(t), Held(s) \cap Held(t) = {}
      PROVE  Own(u)
  <2> SUFFICES ASSUME NEW i \in DOMAIN u, NEW j \in DOMAIN u, i # j
               PROVE  BufsOf(u[i]) \cap BufsOf(u[j]) = {}
    BY DEF Own
  <2>1. \A m \in DOMAIN s, n \in DOMAIN t : BufsOf(s[m]) \cap BufsOf(t[n]) = {}
    BY <1>8 DEF Held
  <2>2. i \in Int /\ j \in Int
    BY <1>1, <1>2 DEF u
  <2>3. i - Len(s) # j - Len(s)
    BY <1>1, <2>2
  <2>. QED
    BY <1>6, <1>8, <2>1, <2>3 DEF Own
<1>. QED
  BY <1>7, <1>8 DEF u

LEMMA HeldTail ==
  ASSUME NEW S, NEW s \in Seq(S), s # <<>>
  PROVE  /\ Held(s) = BufsOf(Head(s)) \cup Held(Tail(s))
         /\ Own(s) => Own(Tail(s)) /\ BufsOf(Head(s)) \cap Held(Tail(s)) = {}
<1>1. Len(s) \in Nat /\ DOMAIN s = 1 .. Len(s) /\ Len(s) # 0
  BY LenProperties, EmptySeq
<1>2. DOMAIN Tail(s) = 1 .. Len(s) - 1 /\ Head(s) = s[1]
      /\ \A i \in 1 .. Len(s) - 1 : Tail(s)[i] = s[i + 1]
  BY <1>1
<1> DEFINE t == Tail(s)
<1>3. \A i \in DOMAIN t : i + 1 \in DOMAIN s /\ t[i] = s[i + 1] /\ i + 1 # 1
  BY <1>1, <1>2
<1>4. \A i \in DOMAIN s : i = 1 \/ (i - 1 \in DOMAIN t /\ t[i - 1] = s[i])
  BY <1>1, <1>2
<1>5. 1 \in DOMAIN s /\ Head(s) = s[1]
  BY <1>1, <1>2
<1>6. \A i, j \in DOMAIN t : i # j => i + 1 # j + 1
  BY <1>1, <1>2
<1> HIDE DEF t
<1>7. Held(s) = BufsOf(Head(s)) \cup Held(t)
  BY <1>3, <1>4, <1>5 DEF Held
<1>8. ASSUME Own(s)
      PROVE  Own(t) /\ BufsOf(Head(s)) \cap Held(t) = {}
  <2>1. Own(t)
    BY <1>3, <1>6, <1>8 DEF Own
  <2>2. BufsOf(Head(s)) \cap Held(t) = {}
    BY <1>3, <1>5, <1>8 DEF Own, Held
  <2>. QED BY <2>1, <2>2
<1>. QED
  BY <1>7, <1>8 DEF t

-----------------------------------------------------------------------------
(* The invariant.                                                          *)

\* Every buffer belongs to at most one command, from its issue until it is
\* collected, and is allocated meanwhile.
OwnInv ==
  /\ used \subseteq Buf
  /\ Own(InFlight) /\ Held(InFlight) \subseteq used
  /\ \A k \in Keys : /\ Own(done[k]) /\ Held(done[k]) \subseteq used
                     /\ Held(done[k]) \cap Held(InFlight) = {}
  /\ \A k, m \in Keys : k # m => Held(done[k]) \cap Held(done[m]) = {}

\* The data of a program that waits are in its buffers.
InBuf(c) == c.op = "PGM" => \A x \in c.bm : c.data[x] = buf[c.buf[x]]

\* The running command: which chunks are still to be transferred, and what
\* the latch of the die or the buffer holds of the others.
RunRead ==
  /\ cr.step # "WAIT_DMA_IN"
  /\ cr.step = "WAIT_DMA_OUT" =>
       /\ cr.rest \subseteq cr.cmd.bm
       /\ dout = [ok  |-> pblk[cr.cmd.blk].wl[cr.cmd.wl].pgm,
                  blk |-> cr.cmd.blk, wl |-> cr.cmd.wl]
       /\ 0 \notin cr.rest => buf[cr.cmd.buf[0]] = AbsDie[cr.cmd.blk][cr.cmd.wl]

RunPgm ==
  /\ cr.step # "WAIT_DMA_OUT"
  /\ cr.step = "WAIT_CMD_IN" => InBuf(cr.cmd)
  /\ cr.step = "WAIT_DMA_IN" =>
       /\ cr.rest \subseteq cr.cmd.bm
       /\ \A x \in cr.cmd.bm :
            cr.cmd.data[x] = IF x \in cr.rest THEN buf[cr.cmd.buf[x]] ELSE din[x]
  /\ cr.step = "WAIT_BUSY" => \A x \in cr.cmd.bm : cr.cmd.data[x] = din[x]

\* The blocks and their word lines.
DieShape ==
  /\ pblk = [b \in AnyBlk |-> pblk[b]]
  /\ \A b \in AnyBlk : pblk[b].wl = [w \in AnyWL |-> pblk[b].wl[w]]

DataInv ==
  /\ din = [c \in Chunk |-> din[c]]
  /\ buf = [b \in Buf |-> buf[b]]
  /\ DieShape
  /\ \A i \in DOMAIN dieQ : InBuf(dieQ[i])
  /\ cr.cmd.op = "READ" => RunRead
  /\ cr.cmd.op = "PGM" => RunPgm

BufInv == OwnInv /\ DataInv

-----------------------------------------------------------------------------
(* What a step does to the commands in flight.                             *)

LEMMA Flight ==
  ASSUME NEW S, CmdsIn(S)
  PROVE  /\ InFlight \in Seq(S)
         /\ cr.step = "WAIT_NEW_CMD" => InFlight = dieQ
         /\ cr.step # "WAIT_NEW_CMD" => /\ InFlight = <<cr.cmd>> \o dieQ
                                       /\ InFlight # <<>> /\ Head(InFlight) = cr.cmd
                                       /\ Tail(InFlight) = dieQ
                                       /\ cr.cmd \in S /\ cr.cmd # NoCmd
<1>1. dieQ \in Seq(S) /\ \A c \in S : GoodCmd(c)
  BY DEF CmdsIn
<1>2. CASE cr.step = "WAIT_NEW_CMD"
  <2>1. cr.cmd = NoCmd
    BY <1>2 DEF CmdsIn
  <2>. QED BY <1>1, <1>2, <2>1 DEF InFlight
<1>3. CASE cr.step # "WAIT_NEW_CMD"
  <2>1. cr.cmd \in S
    BY <1>3 DEF CmdsIn
  <2>2. cr.cmd # NoCmd
    BY <1>1, <2>1 DEF GoodCmd, NoCmd, Ops
  <2>3. InFlight = <<cr.cmd>> \o dieQ
    BY <2>2 DEF InFlight
  <2> DEFINE q == <<cr.cmd>> \o dieQ
  <2>4. <<cr.cmd>> \in Seq(S) /\ Len(<<cr.cmd>>) = 1 /\ <<cr.cmd>>[1] = cr.cmd
    BY <2>1
  <2>5. /\ q \in Seq(S) /\ Len(q) = 1 + Len(dieQ) /\ q[1] = cr.cmd
        /\ \A i \in 1 .. Len(dieQ) : q[i + 1] = dieQ[i]
        /\ Len(dieQ) \in Nat
    BY <1>1, <2>4
  <2> HIDE DEF q
  <2>6. q # <<>> /\ Head(q) = cr.cmd
    BY <2>5
  <2>7. Tail(q) \in Seq(S) /\ Len(Tail(q)) = Len(dieQ)
    BY <2>5, <2>6
  <2>8. \A i \in 1 .. Len(dieQ) : Tail(q)[i] = dieQ[i]
    BY <2>5, <2>6
  <2>9. Tail(q) = dieQ
    BY <1>1, <2>7, <2>8, SeqEqual
  <2>. QED BY <1>3, <2>1, <2>2, <2>3, <2>5, <2>6, <2>9 DEF q
<1>. QED BY <1>2, <1>3

LEMMA FlightSame ==
  ASSUME UNCHANGED dieQ, cr'.cmd = cr.cmd
  PROVE  InFlight' = InFlight
BY DEF InFlight

LEMMA FlightNew ==
  ASSUME NEW S, CmdsIn(S), cr.step = "WAIT_NEW_CMD", dieQ # <<>>,
         cr'.cmd = Head(dieQ), dieQ' = Tail(dieQ)
  PROVE  InFlight' = InFlight
<1>1. dieQ \in Seq(S) /\ cr.cmd = NoCmd /\ Head(dieQ) \in S /\ \A c \in S : GoodCmd(c)
  BY DEF CmdsIn
<1>2. cr'.cmd # NoCmd
  BY <1>1 DEF NoCmd, GoodCmd, Ops
<1>3. <<Head(dieQ)>> \o Tail(dieQ) = dieQ
  BY <1>1
<1>. QED BY <1>1, <1>2, <1>3 DEF InFlight

LEMMA FlightIssue ==
  ASSUME NEW S, CmdsIn(S), NEW c, NFC_Issue(c)
  PROVE  InFlight' = Append(InFlight, c)
<1>1. cr' = cr /\ dieQ' = Append(dieQ, c) /\ dieQ \in Seq(S)
  BY DEF NFC_Issue, CmdsIn
<1>2. CASE cr.cmd = NoCmd
  BY <1>1, <1>2 DEF InFlight
<1>3. CASE cr.cmd # NoCmd
  <2>1. InFlight = <<cr.cmd>> \o dieQ /\ InFlight' = <<cr.cmd>> \o Append(dieQ, c)
    BY <1>1, <1>3 DEF InFlight
  <2> DEFINE T == S \cup {c, cr.cmd}
  <2>2. dieQ \in Seq(T) /\ <<cr.cmd>> \in Seq(T) /\ c \in T
    BY <1>1
  <2> HIDE DEF T
  <2>3. <<cr.cmd>> \o Append(dieQ, c) = Append(<<cr.cmd>> \o dieQ, c)
    BY <2>2
  <2>. QED BY <2>1, <2>3
<1>. QED BY <1>2, <1>3

-----------------------------------------------------------------------------
(* Buffers change hands.                                                   *)

LEMMA OwnFrame ==
  ASSUME OwnInv, UNCHANGED <<used, done>>, InFlight' = InFlight
  PROVE  OwnInv'
BY DEF OwnInv

\* A command that completes takes its buffers along.
LEMMA OwnDone ==
  ASSUME OwnInv, NEW S, InFlight \in Seq(S), InFlight # <<>>, done \in [Keys -> Seq(S)],
         NEW k \in Keys, UNCHANGED used, InFlight' = Tail(InFlight),
         done' = [done EXCEPT ![k] = Append(@, Head(InFlight))]
  PROVE  OwnInv'
<1> DEFINE c == Head(InFlight)
<1>1. /\ Held(InFlight) = BufsOf(c) \cup Held(InFlight') /\ Own(InFlight')
      /\ BufsOf(c) \cap Held(InFlight') = {}
  BY HeldTail DEF OwnInv
<1>2. BufsOf(c) \cap Held(done[k]) = {} /\ BufsOf(c) \subseteq used
  BY <1>1 DEF OwnInv
<1>3. Held(done'[k]) = Held(done[k]) \cup BufsOf(c) /\ Own(done'[k])
  BY <1>2, HeldAppend DEF OwnInv
<1>4. \A m \in Keys : m # k => done'[m] = done[m] /\ BufsOf(c) \cap Held(done[m]) = {}
  BY <1>1 DEF OwnInv
<1> HIDE DEF c
<1>5. \A m \in Keys : /\ Own(done'[m]) /\ Held(done'[m]) \subseteq used
                     /\ Held(done'[m]) \cap Held(InFlight') = {}
  BY <1>1, <1>2, <1>3, <1>4 DEF OwnInv
<1>6. ASSUME NEW m \in Keys, NEW n \in Keys, m # n
      PROVE  Held(done'[m]) \cap Held(done'[n]) = {}
  <2>1. Held(done[m]) \cap Held(done[n]) = {}
    BY <1>6 DEF OwnInv
  <2>2. CASE m = k
    BY <1>3, <1>4, <1>6, <2>1, <2>2
  <2>3. CASE n = k
    BY <1>3, <1>4, <1>6, <2>1, <2>3
  <2>. QED BY <1>4, <2>1, <2>2, <2>3
<1>. QED
  BY <1>1, <1>5, <1>6 DEF OwnInv

\* A new command has buffers of the pool.
LEMMA OwnNew ==
  ASSUME OwnInv, NEW S, InFlight \in Seq(S), NEW c, BufsOf(c) \subseteq Buf \ used,
         InFlight' = Append(InFlight, c), used' = used \cup BufsOf(c), UNCHANGED done
  PROVE  OwnInv'
<1>1. BufsOf(c) \cap Held(InFlight) = {} /\ \A k \in Keys : BufsOf(c) \cap Held(done[k]) = {}
  BY DEF OwnInv
<1>2. Held(InFlight') = Held(InFlight) \cup BufsOf(c) /\ Own(InFlight')
  BY <1>1, HeldAppend DEF OwnInv
<1>. QED
  BY <1>1, <1>2 DEF OwnInv

\* A collected command is forgotten; its buffers return to the pool or, in a
\* move, pass to the program of the page it read.
LEMMA OwnTaken ==
  ASSUME OwnInv, NEW S, done \in [Keys -> Seq(S)], NEW k \in Keys, done[k] # <<>>,
         done' = [done EXCEPT ![k] = Tail(@)]
  PROVE  LET c == Head(done[k]) IN
         /\ BufsOf(c) \subseteq used /\ BufsOf(c) \cap Held(InFlight) = {}
         /\ \A m \in Keys : /\ Own(done'[m]) /\ Held(done'[m]) \subseteq Held(done[m])
                            /\ Held(done'[m]) \cap BufsOf(c) = {}
<1> DEFINE c == Head(done[k])
<1>1. done[k] \in Seq(S)
  OBVIOUS
<1>2. /\ Held(done[k]) = BufsOf(c) \cup Held(Tail(done[k])) /\ Own(Tail(done[k]))
      /\ BufsOf(c) \cap Held(Tail(done[k])) = {}
  BY <1>1, HeldTail DEF OwnInv
<1>3. done'[k] = Tail(done[k]) /\ \A m \in Keys : m # k => done'[m] = done[m]
  OBVIOUS
<1> HIDE DEF c
<1>4. BufsOf(c) \subseteq Held(done[k])
  BY <1>2
<1>. QED
  BY <1>2, <1>3, <1>4 DEF OwnInv, c

LEMMA OwnCollect ==
  ASSUME OwnInv, NEW S, done \in [Keys -> Seq(S)], NEW k \in Keys, done[k] # <<>>,
         done' = [done EXCEPT ![k] = Tail(@)],
         used' = used \ BufsOf(Head(done[k])), InFlight' = InFlight
  PROVE  OwnInv'
<1> DEFINE c == Head(done[k])
<1>1. /\ BufsOf(c) \subseteq used /\ BufsOf(c) \cap Held(InFlight) = {}
      /\ \A m \in Keys : /\ Own(done'[m]) /\ Held(done'[m]) \subseteq Held(done[m])
                         /\ Held(done'[m]) \cap BufsOf(c) = {}
  BY OwnTaken
<1> HIDE DEF c
<1>2. used' = used \ BufsOf(c)
  BY DEF c
<1>3. \A m \in Keys : Held(done'[m]) \subseteq used' /\ Held(done'[m]) \cap Held(InFlight) = {}
  BY <1>1, <1>2 DEF OwnInv
<1>4. \A m, n \in Keys : m # n => Held(done'[m]) \cap Held(done'[n]) = {}
  BY <1>1 DEF OwnInv
<1>. QED
  BY <1>1, <1>2, <1>3, <1>4 DEF OwnInv

LEMMA OwnCopy ==
  ASSUME OwnInv, NEW S, done \in [Keys -> Seq(S)], NEW k \in Keys, done[k] # <<>>,
         done' = [done EXCEPT ![k] = Tail(@)], UNCHANGED used, InFlight \in Seq(S),
         NEW d, BufsOf(d) = BufsOf(Head(done[k])), InFlight' = Append(InFlight, d)
  PROVE  OwnInv'
<1> DEFINE c == Head(done[k])
<1>1. /\ BufsOf(c) \subseteq used /\ BufsOf(c) \cap Held(InFlight) = {}
      /\ \A m \in Keys : /\ Own(done'[m]) /\ Held(done'[m]) \subseteq Held(done[m])
                         /\ Held(done'[m]) \cap BufsOf(c) = {}
  BY OwnTaken
<1> HIDE DEF c
<1>2. BufsOf(d) = BufsOf(c)
  BY DEF c
<1>3. Held(InFlight') = Held(InFlight) \cup BufsOf(c) /\ Own(InFlight')
  BY <1>1, <1>2, HeldAppend DEF OwnInv
<1>4. \A m \in Keys : Held(done'[m]) \subseteq used /\ Held(done'[m]) \cap Held(InFlight') = {}
  BY <1>1, <1>3 DEF OwnInv
<1>5. \A m, n \in Keys : m # n => Held(done'[m]) \cap Held(done'[n]) = {}
  BY <1>1 DEF OwnInv
<1>. QED
  BY <1>1, <1>3, <1>4, <1>5 DEF OwnInv

-----------------------------------------------------------------------------
(* What FtlIo sees of a sequence of commands, with the buffers bf.         *)

AbsOf(c, read, bf) ==
  [op |-> c.op, cb |-> c.cb, blk |-> c.blk, wl |-> c.wl, req |-> [cmd |-> "none"],
   pg |-> CASE c.op = "PGM"           -> c.data[0]
            [] c.op = "READ" /\ read -> bf[c.buf[0]]
            [] OTHER                  -> ErasedFF]
View(s, read, bf) == [i \in DOMAIN s |-> AbsOf(s[i], read, bf)]

LEMMA AbsIsView ==
  /\ AbsNq = View(InFlight, FALSE, buf)
  /\ AbsDone = [k \in DOMAIN done |-> View(done[k], TRUE, buf)]
BY DEF AbsNq, AbsDone, View, AbsCmd, AbsOf

LEMMA ViewSeq ==
  ASSUME NEW S, NEW s \in Seq(S), NEW r, NEW bf, NEW T, \A c \in S : AbsOf(c, r, bf) \in T
  PROVE  View(s, r, bf) \in Seq(T)
<1>1. Len(s) \in Nat /\ DOMAIN s = 1 .. Len(s) /\ \A i \in 1 .. Len(s) : s[i] \in S
  BY LenProperties
<1>2. View(s, r, bf) \in [1 .. Len(s) -> T]
  BY <1>1 DEF View
<1>. QED
  BY <1>1, <1>2

LEMMA ViewItems ==
  ASSUME NEW S, NEW s \in Seq(S), NEW r, NEW bf
  PROVE  /\ Len(View(s, r, bf)) = Len(s)
         /\ \A i \in 1 .. Len(s) : View(s, r, bf)[i] = AbsOf(s[i], r, bf)
<1>1. Len(s) \in Nat /\ DOMAIN s = 1 .. Len(s)
  BY LenProperties
<1> DEFINE T == {AbsOf(c, r, bf) : c \in S}
<1>2. \A c \in S : AbsOf(c, r, bf) \in T
  OBVIOUS
<1> HIDE DEF T
<1>3. View(s, r, bf) \in Seq(T)
  BY <1>2, ViewSeq
<1>4. DOMAIN View(s, r, bf) = 1 .. Len(s)
  BY <1>1 DEF View
<1>5. Len(View(s, r, bf)) = Len(s)
  BY <1>1, <1>3, <1>4
<1>. QED
  BY <1>1, <1>5 DEF View

LEMMA ViewAppend ==
  ASSUME NEW S, NEW s \in Seq(S), NEW c, NEW r, NEW bf
  PROVE  View(Append(s, c), r, bf) = Append(View(s, r, bf), AbsOf(c, r, bf))
<1> DEFINE T == S \cup {c}
           U == {AbsOf(x, r, bf) : x \in T}
           v == View(s, r, bf)
           w == View(Append(s, c), r, bf)
           a == AbsOf(c, r, bf)
<1>1. s \in Seq(T) /\ Append(s, c) \in Seq(T) /\ Len(Append(s, c)) = Len(s) + 1 /\ a \in U
      /\ Len(s) \in Nat /\ \A x \in T : AbsOf(x, r, bf) \in U
  OBVIOUS
<1>2. /\ \A i \in 1 .. Len(s) : Append(s, c)[i] = s[i]
      /\ Append(s, c)[Len(s) + 1] = c
  OBVIOUS
<1> HIDE DEF T, U
<1>3. v \in Seq(U) /\ w \in Seq(U)
  BY <1>1, ViewSeq
<1>4. Len(v) = Len(s) /\ \A i \in 1 .. Len(s) : v[i] = AbsOf(s[i], r, bf)
  BY ViewItems
<1>5. Len(w) = Len(s) + 1 /\ \A i \in 1 .. Len(s) + 1 : w[i] = AbsOf(Append(s, c)[i], r, bf)
  <2> HIDE DEF v, w, a
  <2>1. Append(s, c) \in Seq(T)
    BY <1>1
  <2>2. /\ Len(w) = Len(Append(s, c))
        /\ \A i \in 1 .. Len(Append(s, c)) : w[i] = AbsOf(Append(s, c)[i], r, bf)
    BY <2>1, ViewItems, Zenon DEF w
  <2>. QED BY <1>1, <2>2
<1> HIDE DEF v, w
<1>6. w[Len(s) + 1] = a /\ \A i \in 1 .. Len(s) : w[i] = v[i]
  BY <1>1, <1>2, <1>4, <1>5
<1> HIDE DEF a
<1>7. /\ Append(v, a) \in Seq(U) /\ Len(Append(v, a)) = Len(w)
      /\ \A i \in 1 .. Len(w) : Append(v, a)[i] = w[i]
  BY <1>1, <1>3, <1>4, <1>5, <1>6
<1>8. Append(v, a) = w
  BY <1>3, <1>7, SeqEqual
<1>. QED
  BY <1>8 DEF v, w, a

LEMMA ViewTail ==
  ASSUME NEW S, NEW s \in Seq(S), s # <<>>, NEW r, NEW bf
  PROVE  /\ View(s, r, bf) # <<>> /\ Head(View(s, r, bf)) = AbsOf(Head(s), r, bf)
         /\ View(Tail(s), r, bf) = Tail(View(s, r, bf))
<1> DEFINE U == {AbsOf(x, r, bf) : x \in S}
           v == View(s, r, bf)
           w == View(Tail(s), r, bf)
<1>1. /\ Tail(s) \in Seq(S) /\ Len(Tail(s)) = Len(s) - 1 /\ Head(s) = s[1]
      /\ Len(s) \in Nat /\ Len(s) # 0 /\ \A i \in 1 .. Len(s) - 1 : Tail(s)[i] = s[i + 1]
      /\ \A x \in S : AbsOf(x, r, bf) \in U
  OBVIOUS
<1> HIDE DEF U
<1>2. v \in Seq(U) /\ w \in Seq(U)
  BY <1>1, ViewSeq
<1>3. Len(v) = Len(s) /\ \A i \in 1 .. Len(s) : v[i] = AbsOf(s[i], r, bf)
  BY ViewItems
<1>4. Len(w) = Len(s) - 1 /\ \A i \in 1 .. Len(s) - 1 : w[i] = AbsOf(Tail(s)[i], r, bf)
  <2> HIDE DEF v, w
  <2>1. Tail(s) \in Seq(S)
    BY <1>1
  <2>2. Len(w) = Len(Tail(s)) /\ \A i \in 1 .. Len(Tail(s)) : w[i] = AbsOf(Tail(s)[i], r, bf)
    BY <2>1, ViewItems, Zenon DEF w
  <2>. QED BY <1>1, <2>2
<1> HIDE DEF v, w
<1>5. v[1] = AbsOf(Head(s), r, bf) /\ \A i \in 1 .. Len(s) - 1 : w[i] = v[i + 1]
  BY <1>1, <1>3, <1>4
<1>6. v # <<>> /\ Head(v) = v[1]
  BY <1>1, <1>2, <1>3
<1>7. /\ Tail(v) \in Seq(U) /\ Len(Tail(v)) = Len(w)
      /\ \A i \in 1 .. Len(w) : Tail(v)[i] = w[i]
  BY <1>1, <1>2, <1>3, <1>4, <1>5, <1>6
<1>8. Tail(v) = w
  BY <1>2, <1>7, SeqEqual
<1>. QED
  BY <1>5, <1>6, <1>8 DEF v, w

\* Only what a read has put into its buffers shows.
LEMMA ViewSame ==
  ASSUME NEW S, NEW s \in Seq(S), \A c \in S : c.op = "READ" => 0 \in c.bm,
         NEW r, NEW bf, NEW bg, \A x \in Held(s) : bf[x] = bg[x]
  PROVE  View(s, r, bf) = View(s, r, bg)
<1>1. DOMAIN s = 1 .. Len(s) /\ \A i \in DOMAIN s : s[i] \in S
  BY LenProperties
<1>2. ASSUME NEW i \in DOMAIN s
      PROVE  AbsOf(s[i], r, bf) = AbsOf(s[i], r, bg)
  <2>1. s[i].op = "READ" => s[i].buf[0] \in Held(s)
    BY <1>1 DEF Held, BufsOf
  <2>. QED BY <2>1 DEF AbsOf
<1>. QED BY <1>2 DEF View

LEMMA ViewOfQueue ==
  ASSUME NEW s, NEW bf, NEW bg
  PROVE  View(s, FALSE, bf) = View(s, FALSE, bg)
BY DEF View, AbsOf

-----------------------------------------------------------------------------
(* The steps of the controller.                                            *)

AbsVars == <<AbsDie, AbsNq, AbsDone, evt>>
AbsNext == Io!NandDone \/ IoFirmware

LEMMA AbsIsViewNext ==
  /\ AbsNq' = View(InFlight', FALSE, buf')
  /\ AbsDone' = [k \in DOMAIN done' |-> View(done'[k], TRUE, buf')]
BY DEF AbsNq, AbsDone, View, AbsCmd, AbsOf

\* Writing to buffers of no completed command changes nothing FtlIo sees.
LEMMA AbsSameDone ==
  ASSUME NEW S, CmdsIn(S), NEW k \in Keys, \A x \in Held(done[k]) : buf'[x] = buf[x]
  PROVE  View(done[k], TRUE, buf') = View(done[k], TRUE, buf)
<1>1. done[k] \in Seq(S) /\ \A c \in S : c.op = "READ" => 0 \in c.bm
  BY DEF CmdsIn, GoodCmd
<1> HIDE DEF Keys
<1>. QED BY <1>1, ViewSame

LEMMA DoneSame ==
  ASSUME NEW S, CmdsIn(S), UNCHANGED done,
         \A k \in Keys : \A x \in Held(done[k]) : buf'[x] = buf[x]
  PROVE  AbsDone' = AbsDone
<1>1. DOMAIN done = Keys
  BY DEF CmdsIn
<1>2. \A k \in Keys : View(done[k], TRUE, buf') = View(done[k], TRUE, buf)
  BY AbsSameDone
<1>3. AbsDone' = [k \in Keys |-> View(done[k], TRUE, buf')]
  BY <1>1, AbsIsViewNext
<1>4. AbsDone = [k \in Keys |-> View(done[k], TRUE, buf)]
  BY <1>1, AbsIsView
<1>. QED BY <1>2, <1>3, <1>4

LEMMA AbsSame ==
  ASSUME NEW S, CmdsIn(S), UNCHANGED <<done, pblk>>, InFlight' = InFlight,
         \A k \in Keys : \A x \in Held(done[k]) : buf'[x] = buf[x]
  PROVE  UNCHANGED <<AbsDie, AbsNq, AbsDone>>
<1>1. AbsDone' = AbsDone
  BY DoneSame
<1>2. AbsNq' = View(InFlight, FALSE, buf') /\ AbsNq = View(InFlight, FALSE, buf)
  BY AbsIsView, AbsIsViewNext
<1>3. AbsNq' = AbsNq
  BY <1>2, ViewOfQueue
<1>4. AbsDie' = AbsDie
  BY DEF AbsDie
<1>. QED BY <1>1, <1>3, <1>4

LEMMA NewSteps ==
  ASSUME BufInv, NEW S, CmdsIn(S), NEW e, HandleNew(e), UNCHANGED used
  PROVE  BufInv' /\ UNCHANGED AbsVars
<1>1. cr.step = "WAIT_NEW_CMD" /\ UNCHANGED <<pblk, din, dout, buf, done, evt, used>>
  BY DEF HandleNew, dieVars
<1>2. CASE cr' = cr /\ dieQ' = dieQ
  <2>1. InFlight' = InFlight
    BY <1>2, FlightSame
  <2>2. OwnInv'
    BY <1>1, <2>1, OwnFrame DEF BufInv
  <2>3. DataInv'
    BY <1>1, <1>2 DEF BufInv, DataInv, DieShape, InBuf, RunRead, RunPgm, AbsDie
  <2>. QED
    BY <1>1, <2>1, <2>2, <2>3, AbsSame DEF BufInv, AbsVars
<1>3. CASE /\ dieQ # <<>> /\ dieQ' = Tail(dieQ)
           /\ cr' = [step |-> "WAIT_CMD_IN", cmd |-> Head(dieQ), rest |-> Chunk]
  <2>1. InFlight' = InFlight
    BY <1>1, <1>3, FlightNew
  <2>2. OwnInv'
    BY <1>1, <2>1, OwnFrame DEF BufInv
  <2>3. dieQ \in Seq(S) /\ \A i \in DOMAIN dieQ : InBuf(dieQ[i])
    BY DEF CmdsIn, BufInv, DataInv
  <2>4. /\ 1 \in DOMAIN dieQ /\ Head(dieQ) = dieQ[1]
        /\ \A i \in DOMAIN Tail(dieQ) : i + 1 \in DOMAIN dieQ /\ Tail(dieQ)[i] = dieQ[i + 1]
    BY <1>3, <2>3
  <2>5. InBuf(Head(dieQ)) /\ \A i \in DOMAIN Tail(dieQ) : InBuf(Tail(dieQ)[i])
    BY <2>3, <2>4
  <2>6. (\A i \in DOMAIN dieQ : InBuf(dieQ[i]))' /\ InBuf(cr.cmd)' /\ cr'.step = "WAIT_CMD_IN"
    BY <1>1, <1>3, <2>5 DEF InBuf
  <2>7. DataInv'
    BY <1>1, <2>6 DEF BufInv, DataInv, DieShape, RunRead, RunPgm
  <2>. QED
    BY <1>1, <2>1, <2>2, <2>7, AbsSame DEF BufInv, AbsVars
<1>. QED
  BY <1>2, <1>3 DEF HandleNew

\* A step to the next one within a command.
LEMMA GotoFacts ==
  ASSUME NEW S, CmdsIn(S), NEW e, NEW step, NEW rest, NEW new, Goto(e, step, rest, new)
  PROVE  /\ cr' = [cr EXCEPT !.step = step, !.rest = rest]
         /\ cr'.cmd = cr.cmd /\ cr'.step = step /\ cr'.rest = rest
         /\ UNCHANGED <<dieQ, done, evt>> /\ InFlight' = InFlight
<1>1. /\ cr' = [cr EXCEPT !.step = step, !.rest = rest] /\ UNCHANGED <<dieQ, done, evt>>
  BY DEF Goto
<1>2. cr'.cmd = cr.cmd /\ cr'.step = step /\ cr'.rest = rest
  BY <1>1 DEF CmdsIn
<1>. QED BY <1>1, <1>2, FlightSame

\* The chunk a transfer is about is one of those left.
LEMMA DmaLeft ==
  ASSUME OneEvent, NEW e \in NfcEvt, evts[e] > 0, cr.step \in {"WAIT_DMA_IN", "WAIT_DMA_OUT"}
  PROVE  e.off \in cr.rest
<1>1. PICK c \in Chunk : evts = Count({DmaEvt(c)}) /\ c \in cr.rest
  BY DEF OneEvent
<1>2. e = DmaEvt(c)
  BY <1>1 DEF Count
<1>. QED BY <1>1, <1>2 DEF DmaEvt

\* A command that completes in FtlIo.
LEMMA DoneFacts ==
  ASSUME BufInv, NEW S, CmdsIn(S), cr.step # "WAIT_NEW_CMD", NEW e, DoneCmd(e), UNCHANGED used
  PROVE  /\ OwnInv' /\ cr' = Idle /\ dieQ' = dieQ /\ evt' = evt \cup {"NAND_CMD"}
         /\ AbsNq # <<>> /\ Head(AbsNq) = AbsOf(cr.cmd, FALSE, buf) /\ AbsNq' = Tail(AbsNq)
         /\ done' = [done EXCEPT ![cr.cmd.cb] = Append(@, cr.cmd)]
<1>1. /\ cr' = Idle /\ dieQ' = dieQ /\ evt' = evt \cup {"NAND_CMD"}
      /\ done' = [done EXCEPT ![cr.cmd.cb] = Append(@, cr.cmd)]
  BY DEF DoneCmd
<1>2. /\ InFlight \in Seq(S) /\ InFlight # <<>> /\ Head(InFlight) = cr.cmd
      /\ Tail(InFlight) = dieQ /\ cr.cmd \in S
  BY Flight
<1>3. InFlight' = Tail(InFlight)
  BY <1>1, <1>2 DEF InFlight, Idle
<1>4. cr.cmd.cb \in Keys /\ done \in [Keys -> Seq(S)]
  BY <1>2 DEF CmdsIn, GoodCmd
<1>5. OwnInv'
  BY <1>1, <1>2, <1>3, <1>4, OwnDone DEF BufInv
<1>6. AbsNq' = View(Tail(InFlight), FALSE, buf')
  BY <1>3, AbsIsViewNext
<1>7. View(Tail(InFlight), FALSE, buf') = View(Tail(InFlight), FALSE, buf)
  BY ViewOfQueue
<1>8. \A r : /\ View(InFlight, r, buf) # <<>>
            /\ Head(View(InFlight, r, buf)) = AbsOf(cr.cmd, r, buf)
            /\ View(Tail(InFlight), r, buf) = Tail(View(InFlight, r, buf))
  BY <1>2, ViewTail
<1>9. /\ AbsNq # <<>> /\ Head(AbsNq) = AbsOf(cr.cmd, FALSE, buf)
      /\ AbsNq' = Tail(AbsNq)
  BY <1>6, <1>7, <1>8, AbsIsView
<1>. QED
  BY <1>1, <1>5, <1>9

\* What the running command holds is neither a waiting command's nor a
\* completed one's.
LEMMA RunningOwns ==
  ASSUME OwnInv, NEW S, CmdsIn(S), cr.step # "WAIT_NEW_CMD"
  PROVE  /\ BufsOf(cr.cmd) \subseteq used /\ used \subseteq Buf
         /\ BufsOf(cr.cmd) \subseteq Buf /\ Held(dieQ) \subseteq Buf
         /\ BufsOf(cr.cmd) \cap Held(dieQ) = {}
         /\ \A k \in Keys : /\ BufsOf(cr.cmd) \cap Held(done[k]) = {}
                            /\ Held(done[k]) \subseteq Buf
<1>1. /\ InFlight \in Seq(S) /\ InFlight # <<>> /\ Head(InFlight) = cr.cmd
      /\ Tail(InFlight) = dieQ
  BY Flight
<1>2. /\ Held(InFlight) = BufsOf(cr.cmd) \cup Held(dieQ)
      /\ BufsOf(cr.cmd) \cap Held(dieQ) = {}
  BY <1>1, HeldTail DEF OwnInv
<1>. QED BY <1>2 DEF OwnInv

\* The data of the waiting programs stay where they are.
LEMMA QueueData ==
  ASSUME DataInv, NEW S, CmdsIn(S), UNCHANGED dieQ, \A x \in Held(dieQ) : buf'[x] = buf[x]
  PROVE  (\A i \in DOMAIN dieQ : InBuf(dieQ[i]))'
<1> SUFFICES ASSUME NEW i \in DOMAIN dieQ, dieQ[i].op = "PGM", NEW x \in dieQ[i].bm
             PROVE  dieQ[i].data[x] = buf'[dieQ[i].buf[x]]
  BY DEF InBuf
<1>1. dieQ[i].data[x] = buf[dieQ[i].buf[x]]
  BY DEF DataInv, InBuf
<1>2. dieQ[i].buf[x] \in Held(dieQ)
  BY DEF Held, BufsOf
<1>. QED BY <1>1, <1>2

\* A completed command joins those FtlIo has completed.
LEMMA DoneView ==
  ASSUME NEW S, CmdsIn(S), NEW c \in S, done' = [done EXCEPT ![c.cb] = Append(@, c)],
         \A k \in Keys : \A x \in Held(done[k]) : buf'[x] = buf[x]
  PROVE  AbsDone' = [AbsDone EXCEPT ![c.cb] = Append(@, AbsOf(c, TRUE, buf'))]
<1>1. done \in [Keys -> Seq(S)] /\ c.cb \in Keys /\ DOMAIN done' = Keys
  BY DEF CmdsIn, GoodCmd
<1>2. \A k \in Keys : View(done[k], TRUE, buf') = View(done[k], TRUE, buf)
  BY AbsSameDone
<1>3. done[c.cb] \in Seq(S)
  BY <1>1
<1>4. \A r : View(Append(done[c.cb], c), r, buf') = Append(View(done[c.cb], r, buf'), AbsOf(c, r, buf'))
  BY <1>3, ViewAppend
<1>5. AbsDone' = [k \in Keys |-> View(done'[k], TRUE, buf')]
  BY <1>1, AbsIsViewNext
<1>6. AbsDone = [k \in Keys |-> View(done[k], TRUE, buf)]
  BY <1>1, AbsIsView
<1>7. done'[c.cb] = Append(done[c.cb], c) /\ \A k \in Keys : k # c.cb => done'[k] = done[k]
  BY <1>1
<1> DEFINE V(k) == View(done[k], TRUE, buf)
           W(k) == View(done'[k], TRUE, buf')
           a == AbsOf(c, TRUE, buf')
<1>8. W(c.cb) = Append(V(c.cb), a) /\ \A k \in Keys : k # c.cb => W(k) = V(k)
  BY <1>1, <1>2, <1>4, <1>7
<1> HIDE DEF Keys, V, W, a
<1>9. AbsDone' = [k \in Keys |-> W(k)] /\ AbsDone = [k \in Keys |-> V(k)]
  BY <1>5, <1>6 DEF V, W
<1>10. AbsDone' = [AbsDone EXCEPT ![c.cb] = Append(@, a)]
  BY <1>1, <1>8, <1>9
<1>. QED BY <1>10 DEF a

LEMMA ReadSteps ==
  ASSUME BufInv, NEW S, CmdsIn(S), OneEvent, NEW e \in NfcEvt, evts[e] > 0,
         cr.step # "WAIT_NEW_CMD", HandleRead(e), UNCHANGED used
  PROVE  BufInv' /\ (Io!NandDone \/ UNCHANGED AbsVars)
<1> DEFINE c == cr.cmd
<1>1. /\ c \in S /\ c.op = "READ" /\ c.blk \in AnyBlk /\ c.wl \in AnyWL /\ c.cb \in Keys
      /\ 0 \in c.bm /\ \A x, y \in c.bm : x # y => c.buf[x] # c.buf[y]
      /\ UNCHANGED <<pblk, din>>
  BY DEF CmdsIn, GoodCmd, HandleRead
<1>2. OwnInv /\ DataInv /\ RunRead
  BY <1>1 DEF BufInv, DataInv
<1>3. CASE cr.step = "WAIT_CMD_IN" /\ Goto(e, "WAIT_BUSY", c.bm, StepEvt) /\ UNCHANGED <<dout, buf>>
  <2>1. /\ cr'.cmd = c /\ cr'.step = "WAIT_BUSY" /\ UNCHANGED <<dieQ, done, evt>>
        /\ InFlight' = InFlight
    BY <1>3, GotoFacts
  <2>2. OwnInv' /\ UNCHANGED AbsVars
    BY <1>1, <1>2, <1>3, <2>1, OwnFrame, AbsSame DEF AbsVars
  <2>3. DataInv'
    BY <1>1, <1>2, <1>3, <2>1 DEF DataInv, DieShape, InBuf, RunRead
  <2>. QED BY <2>2, <2>3 DEF BufInv
<1>4. CASE /\ cr.step = "WAIT_BUSY" /\ UNCHANGED buf
           /\ dout' = [ok |-> pblk[c.blk].wl[c.wl].pgm, blk |-> c.blk, wl |-> c.wl]
           /\ Goto(e, "WAIT_DMA_OUT", c.bm, DmaEvt(Lsb(c.bm)))
  <2>1. /\ cr'.cmd = c /\ cr'.step = "WAIT_DMA_OUT" /\ cr'.rest = c.bm
        /\ UNCHANGED <<dieQ, done, evt>> /\ InFlight' = InFlight
    BY <1>4, GotoFacts
  <2>2. OwnInv' /\ UNCHANGED AbsVars
    BY <1>1, <1>2, <1>4, <2>1, OwnFrame, AbsSame DEF AbsVars
  <2>3. DataInv'
    BY <1>1, <1>2, <1>4, <2>1 DEF DataInv, DieShape, InBuf, RunRead
  <2>. QED BY <2>2, <2>3 DEF BufInv
<1>5. CASE /\ cr.step = "WAIT_DMA_OUT" /\ UNCHANGED dout
           /\ buf' = [buf EXCEPT ![c.buf[e.off]] =
                        IF dout.ok THEN pblk[dout.blk].wl[dout.wl].chunk[e.off] ELSE ErasedFF]
           /\ LET rest == cr.rest \ {e.off} IN
              IF rest # {} THEN Goto(e, "WAIT_DMA_OUT", rest, DmaEvt(Lsb(rest))) ELSE DoneCmd(e)
  <2> DEFINE rest == cr.rest \ {e.off}
             x == c.buf[e.off]
             pg == AbsDie[c.blk][c.wl]
  <2>1. /\ e.off \in cr.rest /\ cr.rest \subseteq c.bm /\ e.off \in c.bm
        /\ dout = [ok |-> pblk[c.blk].wl[c.wl].pgm, blk |-> c.blk, wl |-> c.wl]
        /\ 0 \notin cr.rest => buf[c.buf[0]] = pg
    BY <1>2, <1>5, DmaLeft DEF RunRead
  <2>2. /\ BufsOf(c) \subseteq Buf /\ Held(dieQ) \subseteq Buf /\ BufsOf(c) \cap Held(dieQ) = {}
        /\ \A k \in Keys : BufsOf(c) \cap Held(done[k]) = {} /\ Held(done[k]) \subseteq Buf
    BY <1>2, RunningOwns
  <2>3. x \in BufsOf(c) /\ c.buf[0] \in BufsOf(c)
    BY <1>1, <2>1 DEF BufsOf
  <2>4. /\ buf' = [b \in Buf |-> buf'[b]] /\ \A y \in Buf : y # x => buf'[y] = buf[y]
        /\ buf'[x] = IF dout.ok THEN pblk[dout.blk].wl[dout.wl].chunk[e.off] ELSE ErasedFF
    <3>1. buf = [b \in Buf |-> buf[b]] /\ x \in Buf
      BY <1>2, <2>2, <2>3 DEF DataInv
    <3> HIDE DEF x
    <3>. QED BY <1>5, <3>1 DEF x
  <2>5. AbsDie' = AbsDie /\ pg = IF pblk[c.blk].wl[c.wl].pgm THEN pblk[c.blk].wl[c.wl].chunk[0]
                                 ELSE ErasedFF
    BY <1>1 DEF AbsDie
  <2>6. 0 \notin rest => buf'[c.buf[0]] = pg
    <3>1. CASE e.off = 0
      BY <2>1, <2>4, <2>5, <3>1
    <3>2. CASE e.off # 0
      <4>1. c.buf[0] # x /\ c.buf[0] \in Buf
        BY <1>1, <2>1, <2>2, <2>3, <3>2
      <4>. QED BY <2>1, <2>4, <3>2, <4>1
    <3>. QED BY <3>1, <3>2
  <2>7. \A k \in Keys : \A y \in Held(done[k]) : buf'[y] = buf[y]
    BY <2>2, <2>3, <2>4
  <2>8. \A y \in Held(dieQ) : buf'[y] = buf[y]
    BY <2>2, <2>3, <2>4
  <2> HIDE DEF x, pg
  <2>9. CASE rest # {}
    <3>1. /\ cr'.cmd = c /\ cr'.step = "WAIT_DMA_OUT" /\ cr'.rest = rest
          /\ UNCHANGED <<dieQ, done, evt>> /\ InFlight' = InFlight
      BY <1>5, <2>9, GotoFacts
    <3>2. OwnInv' /\ UNCHANGED AbsVars
      BY <1>1, <1>2, <2>7, <3>1, OwnFrame, AbsSame DEF AbsVars
    <3>3. RunRead'
      BY <1>1, <1>5, <2>1, <2>5, <2>6, <3>1 DEF RunRead, pg
    <3>4. (\A i \in DOMAIN dieQ : InBuf(dieQ[i]))'
      BY <1>2, <2>8, <3>1, QueueData
    <3>5. DataInv'
      BY <1>1, <1>2, <2>4, <3>1, <3>3, <3>4 DEF DataInv, DieShape
    <3>. QED BY <3>2, <3>5 DEF BufInv
  <2>10. CASE rest = {}
    <3>1. DoneCmd(e)
      BY <1>5, <2>10
    <3>2. /\ OwnInv' /\ cr' = Idle /\ dieQ' = dieQ /\ evt' = evt \cup {"NAND_CMD"}
          /\ AbsNq # <<>> /\ Head(AbsNq) = AbsOf(c, FALSE, buf) /\ AbsNq' = Tail(AbsNq)
          /\ done' = [done EXCEPT ![c.cb] = Append(@, c)]
      BY <3>1, DoneFacts
    <3>3. (\A i \in DOMAIN dieQ : InBuf(dieQ[i]))'
      BY <1>2, <2>8, <3>2, QueueData
    <3>4. DataInv'
      BY <1>1, <1>2, <2>4, <3>2, <3>3 DEF DataInv, DieShape, Idle, NoCmd
    <3>5. AbsDone' = [AbsDone EXCEPT ![c.cb] = Append(@, AbsOf(c, TRUE, buf'))]
      BY <1>1, <2>7, <3>2, DoneView
    <3>6. AbsOf(c, TRUE, buf') = [AbsOf(c, FALSE, buf) EXCEPT !.pg = pg]
      BY <1>1, <2>6, <2>10 DEF AbsOf
    <3>7. /\ AbsOf(c, FALSE, buf).op = "READ" /\ AbsOf(c, FALSE, buf).cb = c.cb
          /\ AbsDie[AbsOf(c, FALSE, buf).blk][AbsOf(c, FALSE, buf).wl] = pg
      BY <1>1 DEF AbsOf, pg
    <3> DEFINE h == AbsOf(c, FALSE, buf)
    <3> HIDE DEF h
    <3>8. AbsDone' = [AbsDone EXCEPT ![c.cb] = Append(@, [h EXCEPT !.pg = pg])]
      BY <3>5, <3>6 DEF h
    <3>9. h.op = "READ" /\ h.cb = c.cb /\ AbsDie[h.blk][h.wl] = pg /\ Head(AbsNq) = h
      BY <3>2, <3>7 DEF h
    <3>10. Io!TrigAsync("NAND_CMD")
      BY <3>2 DEF Io!TrigAsync
    <3>11. Io!NandDone
      BY <2>5, <3>2, <3>8, <3>9, <3>10 DEF Io!NandDone
    <3>. QED BY <3>2, <3>4, <3>11 DEF BufInv
  <2>. QED BY <2>9, <2>10
<1>. QED BY <1>3, <1>4, <1>5 DEF HandleRead

\* A write or an erase that completes in FtlIo.
LEMMA DoneStep ==
  ASSUME BufInv, NEW S, CmdsIn(S), cr.step # "WAIT_NEW_CMD", NEW e, DoneCmd(e),
         UNCHANGED <<used, din, dout, buf>>, cr.cmd.op # "READ",
         DieShape',
         LET h == AbsOf(cr.cmd, FALSE, buf) IN
         AbsDie' = IF h.op = "ERB" THEN [AbsDie EXCEPT ![h.blk] = [w \in AnyWL |-> ErasedFF]]
                                   ELSE [AbsDie EXCEPT ![h.blk][h.wl] = h.pg]
  PROVE  BufInv' /\ Io!NandDone
<1> DEFINE c == cr.cmd
           h == AbsOf(c, FALSE, buf)
<1>1. /\ c \in S /\ c.op \in {"PGM", "ERB"} /\ c.cb \in Keys
  BY DEF CmdsIn, GoodCmd, Ops
<1>2. OwnInv /\ DataInv
  BY DEF BufInv
<1>3. /\ OwnInv' /\ cr' = Idle /\ dieQ' = dieQ /\ evt' = evt \cup {"NAND_CMD"}
      /\ AbsNq # <<>> /\ Head(AbsNq) = h /\ AbsNq' = Tail(AbsNq)
      /\ done' = [done EXCEPT ![c.cb] = Append(@, c)]
  BY DoneFacts
<1>4. (\A i \in DOMAIN dieQ : InBuf(dieQ[i]))'
  BY <1>2, <1>3, QueueData
<1>5. DataInv'
  BY <1>2, <1>3, <1>4 DEF DataInv, Idle, NoCmd
<1>6. AbsDone' = [AbsDone EXCEPT ![c.cb] = Append(@, AbsOf(c, TRUE, buf'))]
  BY <1>1, <1>3, DoneView
<1>7. AbsOf(c, TRUE, buf') = h /\ h.op = c.op /\ h.cb = c.cb
  BY <1>1 DEF AbsOf
<1> HIDE DEF h
<1>8. AbsDone' = [AbsDone EXCEPT ![h.cb] = Append(@, h)]
  BY <1>6, <1>7
<1>9. Io!WL = AnyWL /\ Io!Erased = ErasedFF
  BY DEF Io!WL, Io!Erased, AnyWL, ErasedFF
<1>10. AbsDie' = CASE h.op = "ERB" -> [AbsDie EXCEPT ![h.blk] = [w \in Io!WL |-> Io!Erased]]
                   [] h.op = "PGM" -> [AbsDie EXCEPT ![h.blk][h.wl] = h.pg]
                   [] OTHER        -> AbsDie
  BY <1>1, <1>7, <1>9 DEF h
<1>11. Io!TrigAsync("NAND_CMD")
  BY <1>3 DEF Io!TrigAsync
<1>12. h.op # "READ"
  BY <1>1, <1>7
<1>13. Io!NandDone
  BY <1>3, <1>8, <1>10, <1>11, <1>12 DEF Io!NandDone
<1>. QED BY <1>3, <1>5, <1>13 DEF BufInv

LEMMA ExceptTwice ==
  ASSUME NEW A, NEW B, NEW f, f = [x \in A |-> [y \in B |-> f[x][y]]],
         NEW a \in A, NEW b \in B, NEW v
  PROVE  [f EXCEPT ![a][b] = v] = [x \in A |-> [y \in B |-> IF x = a /\ y = b THEN v ELSE f[x][y]]]
<1>1. DOMAIN f = A /\ f[a] = [y \in B |-> f[a][y]]
  OBVIOUS
<1>2. [f[a] EXCEPT ![b] = v] = [y \in B |-> IF y = b THEN v ELSE f[a][y]]
  BY <1>1
<1>3. [f EXCEPT ![a] = [f[a] EXCEPT ![b] = v]]
        = [x \in A |-> [y \in B |-> IF x = a /\ y = b THEN v ELSE f[x][y]]]
  BY <1>1, <1>2
<1>. QED BY <1>3

\* What a program or an erase does to the pages FtlIo sees.
Programmed(b, w, ch) ==
  pblk' = [pblk EXCEPT ![b] = [next |-> w + 1,
             wl |-> [@.wl EXCEPT ![w] = [pgm |-> TRUE, chunk |-> ch]]]]

LEMMA DieProgram ==
  ASSUME DataInv, NEW b \in AnyBlk, NEW w \in AnyWL, NEW ch, Programmed(b, w, ch)
  PROVE  DieShape' /\ AbsDie' = [AbsDie EXCEPT ![b][w] = ch[0]]
<1>1. pblk = [x \in AnyBlk |-> pblk[x]] /\ \A x \in AnyBlk : pblk[x].wl = [y \in AnyWL |-> pblk[x].wl[y]]
  BY DEF DataInv, DieShape
<1>2. pblk' = [x \in AnyBlk |-> pblk'[x]] /\ \A x \in AnyBlk : x # b => pblk'[x] = pblk[x]
  BY <1>1 DEF Programmed
<1>3. pblk'[b].wl = [pblk[b].wl EXCEPT ![w] = [pgm |-> TRUE, chunk |-> ch]]
  BY <1>1 DEF Programmed
<1>4. pblk'[b].wl = [y \in AnyWL |-> IF y = w THEN [pgm |-> TRUE, chunk |-> ch] ELSE pblk[b].wl[y]]
  BY <1>1, <1>3
<1>5. \A x \in AnyBlk : pblk'[x].wl = [y \in AnyWL |-> pblk'[x].wl[y]]
  BY <1>1, <1>2, <1>4
<1>6. \A x \in AnyBlk, y \in AnyWL :
        AbsDie'[x][y] = IF x = b /\ y = w THEN ch[0] ELSE AbsDie[x][y]
  BY <1>2, <1>4 DEF AbsDie
<1>7. /\ AbsDie = [x \in AnyBlk |-> [y \in AnyWL |-> AbsDie[x][y]]]
      /\ AbsDie' = [x \in AnyBlk |-> [y \in AnyWL |-> AbsDie'[x][y]]]
  BY DEF AbsDie
<1>8. AbsDie' = [x \in AnyBlk |-> [y \in AnyWL |-> IF x = b /\ y = w THEN ch[0] ELSE AbsDie[x][y]]]
  BY <1>6, <1>7
<1>9. [AbsDie EXCEPT ![b][w] = ch[0]]
        = [x \in AnyBlk |-> [y \in AnyWL |-> IF x = b /\ y = w THEN ch[0] ELSE AbsDie[x][y]]]
  <2> DEFINE d == AbsDie
  <2>1. d = [x \in AnyBlk |-> [y \in AnyWL |-> d[x][y]]]
    BY <1>7
  <2> HIDE DEF d
  <2>. QED BY <2>1, ExceptTwice DEF d
<1>. QED BY <1>2, <1>5, <1>8, <1>9 DEF DieShape

LEMMA DieErase ==
  ASSUME DataInv, NEW b \in AnyBlk, pblk' = [pblk EXCEPT ![b] = NewBlk]
  PROVE  DieShape' /\ AbsDie' = [AbsDie EXCEPT ![b] = [w \in AnyWL |-> ErasedFF]]
<1>1. pblk = [x \in AnyBlk |-> pblk[x]] /\ \A x \in AnyBlk : pblk[x].wl = [y \in AnyWL |-> pblk[x].wl[y]]
  BY DEF DataInv, DieShape
<1>2. pblk' = [x \in AnyBlk |-> pblk'[x]] /\ pblk'[b] = NewBlk /\ \A x \in AnyBlk : x # b => pblk'[x] = pblk[x]
  BY <1>1
<1>3. \A x \in AnyBlk : pblk'[x].wl = [y \in AnyWL |-> pblk'[x].wl[y]]
  BY <1>1, <1>2 DEF NewBlk
<1>4. \A x \in AnyBlk, y \in AnyWL : AbsDie'[x][y] = IF x = b THEN ErasedFF ELSE AbsDie[x][y]
  BY <1>2 DEF AbsDie, NewBlk, Blank
<1>5. /\ AbsDie = [x \in AnyBlk |-> [y \in AnyWL |-> AbsDie[x][y]]]
      /\ AbsDie' = [x \in AnyBlk |-> [y \in AnyWL |-> AbsDie'[x][y]]]
  BY DEF AbsDie
<1>6. AbsDie' = [x \in AnyBlk |-> [y \in AnyWL |-> IF x = b THEN ErasedFF ELSE AbsDie[x][y]]]
  BY <1>4, <1>5
<1>7. [AbsDie EXCEPT ![b] = [w \in AnyWL |-> ErasedFF]]
        = [x \in AnyBlk |-> [y \in AnyWL |-> IF x = b THEN ErasedFF ELSE AbsDie[x][y]]]
  BY <1>5
<1>. QED BY <1>2, <1>3, <1>6, <1>7 DEF DieShape

LEMMA ProgramSteps ==
  ASSUME BufInv, NEW S, CmdsIn(S), OneEvent, NEW e \in NfcEvt, evts[e] > 0,
         cr.step # "WAIT_NEW_CMD", HandleProgram(e), UNCHANGED used
  PROVE  BufInv' /\ (Io!NandDone \/ UNCHANGED AbsVars)
<1> DEFINE c == cr.cmd
<1>1. /\ c \in S /\ c.op = "PGM" /\ c.blk \in AnyBlk /\ c.wl \in AnyWL
      /\ 0 \in c.bm /\ c.bm \in SUBSET Chunk /\ UNCHANGED <<dout, buf>>
  BY DEF CmdsIn, GoodCmd, HandleProgram
<1>2. OwnInv /\ DataInv /\ RunPgm
  BY <1>1 DEF BufInv, DataInv
\* A step within the command.
<1>3. ASSUME NEW step, NEW rest, NEW new, Goto(e, step, rest, new), UNCHANGED pblk,
             din' = [x \in Chunk |-> din'[x]],
             (cr'.cmd = c /\ cr'.step = step /\ cr'.rest = rest) => RunPgm'
      PROVE  BufInv' /\ UNCHANGED AbsVars
  <2>1. /\ cr'.cmd = c /\ cr'.step = step /\ cr'.rest = rest
        /\ UNCHANGED <<dieQ, done, evt>> /\ InFlight' = InFlight
    BY <1>3, GotoFacts
  <2>2. OwnInv' /\ UNCHANGED AbsVars
    BY <1>1, <1>2, <1>3, <2>1, OwnFrame, AbsSame DEF AbsVars
  <2>3. (\A i \in DOMAIN dieQ : InBuf(dieQ[i]))'
    BY <1>1, <1>2, <2>1, QueueData
  <2>4. DataInv'
    BY <1>1, <1>2, <1>3, <2>1, <2>3 DEF DataInv, DieShape
  <2>. QED BY <2>2, <2>4 DEF BufInv
<1>4. CASE /\ cr.step = "WAIT_CMD_IN" /\ UNCHANGED <<pblk, din>>
           /\ Goto(e, "WAIT_DMA_IN", c.bm, DmaEvt(Lsb(c.bm)))
  <2>1. (cr'.cmd = c /\ cr'.step = "WAIT_DMA_IN" /\ cr'.rest = c.bm) => RunPgm'
    BY <1>1, <1>2, <1>4 DEF RunPgm, InBuf
  <2>2. din' = [x \in Chunk |-> din'[x]]
    BY <1>2, <1>4 DEF DataInv
  <2>. QED BY <1>3, <1>4, <2>1, <2>2
<1>5. CASE /\ cr.step = "WAIT_DMA_IN" /\ UNCHANGED pblk
           /\ din' = [din EXCEPT ![e.off] = buf[c.buf[e.off]]]
           /\ LET rest == cr.rest \ {e.off} IN
              IF rest # {} THEN Goto(e, "WAIT_DMA_IN", rest, DmaEvt(Lsb(rest)))
                           ELSE Goto(e, "WAIT_BUSY", rest, StepEvt)
  <2> DEFINE rest == cr.rest \ {e.off}
  <2>1. e.off \in cr.rest /\ cr.rest \subseteq c.bm
    BY <1>1, <1>2, <1>5, DmaLeft DEF RunPgm
  <2>2. din' = [x \in Chunk |-> IF x = e.off THEN buf[c.buf[e.off]] ELSE din[x]]
    <3>1. din = [x \in Chunk |-> din[x]]
      BY <1>2 DEF DataInv
    <3>. QED BY <1>5, <3>1
  <2>3. \A x \in c.bm : c.data[x] = IF x \in rest THEN buf'[c.buf[x]] ELSE din'[x]
    <3>1. \A x \in c.bm : c.data[x] = IF x \in cr.rest THEN buf[c.buf[x]] ELSE din[x]
      BY <1>1, <1>2, <1>5 DEF RunPgm
    <3>. QED BY <1>1, <2>1, <2>2, <3>1
  <2>4. CASE rest # {}
    <3>1. (cr'.cmd = c /\ cr'.step = "WAIT_DMA_IN" /\ cr'.rest = rest) => RunPgm'
      BY <2>1, <2>3 DEF RunPgm
    <3>. QED BY <1>3, <1>5, <2>2, <2>4, <3>1
  <2>5. CASE rest = {}
    <3>1. (cr'.cmd = c /\ cr'.step = "WAIT_BUSY" /\ cr'.rest = rest) => RunPgm'
      BY <2>3, <2>5 DEF RunPgm
    <3>. QED BY <1>3, <1>5, <2>2, <2>5, <3>1
  <2>. QED BY <2>4, <2>5
<1>6. CASE /\ cr.step = "WAIT_BUSY" /\ DoneCmd(e) /\ UNCHANGED din
           /\ pblk' = [pblk EXCEPT
                ![c.blk] = [next |-> c.wl + 1,
                            wl |-> [@.wl EXCEPT ![c.wl] = [pgm |-> TRUE, chunk |-> din]]]]
  <2>1. DieShape' /\ AbsDie' = [AbsDie EXCEPT ![c.blk][c.wl] = din[0]]
    <3>1. Programmed(c.blk, c.wl, din)
      BY <1>6 DEF Programmed
    <3>. QED BY <1>1, <1>2, <3>1, DieProgram
  <2>2. c.data[0] = din[0]
    BY <1>1, <1>2, <1>6 DEF RunPgm
  <2>3. LET h == AbsOf(c, FALSE, buf) IN
        h.op = "PGM" /\ h.blk = c.blk /\ h.wl = c.wl /\ h.pg = din[0]
    BY <1>1, <2>2 DEF AbsOf
  <2>. QED BY <1>1, <1>6, <2>1, <2>3, DoneStep
<1>. QED BY <1>4, <1>5, <1>6 DEF HandleProgram

LEMMA EraseSteps ==
  ASSUME BufInv, NEW S, CmdsIn(S), NEW e, cr.step # "WAIT_NEW_CMD", HandleErase(e), UNCHANGED used
  PROVE  BufInv' /\ (Io!NandDone \/ UNCHANGED AbsVars)
<1> DEFINE c == cr.cmd
<1>1. c \in S /\ c.op = "ERB" /\ c.blk \in AnyBlk /\ UNCHANGED <<din, dout, buf>>
  BY DEF CmdsIn, GoodCmd, HandleErase
<1>2. OwnInv /\ DataInv
  BY DEF BufInv
<1>3. CASE Goto(e, "WAIT_BUSY", cr.rest, StepEvt) /\ UNCHANGED pblk
  <2>1. /\ cr'.cmd = c /\ UNCHANGED <<dieQ, done, evt>> /\ InFlight' = InFlight
    BY <1>3, GotoFacts
  <2>2. OwnInv' /\ UNCHANGED AbsVars
    BY <1>1, <1>2, <1>3, <2>1, OwnFrame, AbsSame DEF AbsVars
  <2>3. DataInv'
    BY <1>1, <1>2, <1>3, <2>1 DEF DataInv, DieShape, InBuf
  <2>. QED BY <2>2, <2>3 DEF BufInv
<1>4. CASE DoneCmd(e) /\ pblk' = [pblk EXCEPT ![c.blk] = NewBlk]
  <2>1. DieShape' /\ AbsDie' = [AbsDie EXCEPT ![c.blk] = [w \in AnyWL |-> ErasedFF]]
    BY <1>1, <1>2, <1>4, DieErase
  <2>2. AbsOf(c, FALSE, buf).op = "ERB" /\ AbsOf(c, FALSE, buf).blk = c.blk
    BY <1>1 DEF AbsOf
  <2>. QED BY <1>1, <1>4, <2>1, <2>2, DoneStep
<1>. QED BY <1>3, <1>4 DEF HandleErase

\* A step of the controller is one of the die of FtlIo, or none.
LEMMA ControllerSteps ==
  ASSUME BufInv, NEW S, CmdsIn(S), OneEvent, NEW e \in NfcEvt, HandleEvt(e)
  PROVE  BufInv' /\ (Io!NandDone \/ UNCHANGED AbsVars)
<1>1. evts[e] > 0 /\ UNCHANGED used
  BY DEF HandleEvt
<1>2. CASE HandleNew(e)
  BY <1>1, <1>2, NewSteps
<1>3. CASE cr.step # "WAIT_NEW_CMD" /\ HandleRead(e)
  BY <1>1, <1>3, ReadSteps
<1>4. CASE cr.step # "WAIT_NEW_CMD" /\ HandleProgram(e)
  BY <1>1, <1>4, ProgramSteps
<1>5. CASE cr.step # "WAIT_NEW_CMD" /\ HandleErase(e)
  BY <1>1, <1>5, EraseSteps
<1>. QED BY <1>2, <1>3, <1>4, <1>5 DEF HandleEvt

-----------------------------------------------------------------------------
(* The steps of the firmware.                                              *)

LEMMA IssueView ==
  ASSUME NEW S, CmdsIn(S), NEW c, NFC_Issue(c)
  PROVE  AbsNq' # <<>> /\ Io!Issue(<<AbsNq'[Len(AbsNq')]>>)
<1>1. InFlight \in Seq(S) /\ InFlight' = Append(InFlight, c)
  BY Flight, FlightIssue
<1> DEFINE V(s) == View(s, FALSE, buf')
           a == AbsOf(c, FALSE, buf')
           T == {AbsOf(x, FALSE, buf') : x \in S} \cup {a}
<1>2. \A r : View(Append(InFlight, c), r, buf') = Append(View(InFlight, r, buf'), AbsOf(c, r, buf'))
  BY <1>1, ViewAppend
<1>3. V(Append(InFlight, c)) = Append(V(InFlight), a)
  BY <1>2
<1>4. AbsNq' = V(Append(InFlight, c)) /\ AbsNq = V(InFlight)
  BY <1>1, AbsIsView, AbsIsViewNext, ViewOfQueue
<1>5. a \in T /\ \A x \in S : AbsOf(x, FALSE, buf') \in T
  OBVIOUS
<1>6. V(InFlight) \in Seq(T)
  <2>1. \A r : (\A x \in S : AbsOf(x, r, buf') \in T) => View(InFlight, r, buf') \in Seq(T)
    <3> HIDE DEF T
    <3>. QED BY <1>1, ViewSeq
  <2>. QED BY <1>5, <2>1
<1> HIDE DEF V, a, T
<1>7. AbsNq' = Append(AbsNq, a) /\ AbsNq \in Seq(T)
  BY <1>3, <1>4, <1>6
<1>8. AbsNq' # <<>> /\ AbsNq'[Len(AbsNq')] = a /\ AbsNq' = AbsNq \o <<a>>
  BY <1>5, <1>7
<1>. QED BY <1>8 DEF Io!Issue

\* A command is issued; the buffers in use keep their contents.
LEMMA IssueData ==
  ASSUME BufInv, NEW S, CmdsIn(S), NEW c, NFC_Issue(c), buf' = [b \in Buf |-> buf'[b]],
         \A x \in used : buf'[x] = buf[x], InBuf(c)'
  PROVE  DataInv'
<1>1. DataInv /\ OwnInv /\ dieQ \in Seq(S)
  BY DEF BufInv, CmdsIn
<1>2. cr' = cr /\ dieQ' = Append(dieQ, c) /\ UNCHANGED <<pblk, din, dout>>
  BY DEF NFC_Issue, dieVars
<1>3. Held(dieQ) \subseteq used
  <2>1. CASE cr.step = "WAIT_NEW_CMD"
    BY <1>1, <2>1, Flight DEF OwnInv
  <2>2. CASE cr.step # "WAIT_NEW_CMD"
    <3>1. InFlight \in Seq(S) /\ InFlight # <<>> /\ Tail(InFlight) = dieQ
      BY <2>2, Flight
    <3>. QED BY <1>1, <3>1, HeldTail DEF OwnInv
  <2>. QED BY <2>1, <2>2
<1>4. \A i \in DOMAIN dieQ : InBuf(dieQ[i])'
  <2> SUFFICES ASSUME NEW i \in DOMAIN dieQ, dieQ[i].op = "PGM", NEW x \in dieQ[i].bm
               PROVE  dieQ'[i].data[x] = buf'[dieQ'[i].buf[x]]
    BY <1>1, <1>2 DEF InBuf
  <2>1. dieQ'[i] = dieQ[i]
    BY <1>1, <1>2
  <2>2. dieQ[i].data[x] = buf[dieQ[i].buf[x]]
    BY <1>1 DEF DataInv, InBuf
  <2>3. dieQ[i].buf[x] \in Held(dieQ)
    BY DEF Held, BufsOf
  <2>. QED BY <1>3, <2>1, <2>2, <2>3
<1>5. (\A i \in DOMAIN dieQ : InBuf(dieQ[i]))'
  <2>1. \A i \in DOMAIN dieQ' : i \in DOMAIN dieQ \/ dieQ'[i] = c
    BY <1>1, <1>2
  <2>2. \A i \in DOMAIN dieQ : dieQ'[i] = dieQ[i]
    BY <1>1, <1>2
  <2>. QED BY <1>4, <2>1, <2>2 DEF InBuf
<1>6. ASSUME cr.cmd.op \in {"READ", "PGM"}
      PROVE  /\ 0 \in cr.cmd.bm /\ \A x \in cr.cmd.bm : buf'[cr.cmd.buf[x]] = buf[cr.cmd.buf[x]]
  <2>1. cr.step # "WAIT_NEW_CMD"
    BY <1>6 DEF CmdsIn, NoCmd
  <2>2. BufsOf(cr.cmd) \subseteq used /\ cr.cmd \in S
    BY <1>1, <2>1, RunningOwns DEF CmdsIn
  <2>3. 0 \in cr.cmd.bm
    BY <1>6, <2>2 DEF CmdsIn, GoodCmd
  <2>. QED BY <2>2, <2>3 DEF BufsOf
<1>7. AbsDie' = AbsDie
  BY <1>2 DEF AbsDie
<1>8. cr.cmd.op = "READ" => RunRead'
  BY <1>1, <1>2, <1>6, <1>7 DEF DataInv, RunRead
<1>9. cr.cmd.op = "PGM" => RunPgm'
  <2> SUFFICES ASSUME cr.cmd.op = "PGM" PROVE RunPgm'
    OBVIOUS
  <2>1. RunPgm
    BY <1>1 DEF DataInv
  <2>2. cr.step = "WAIT_CMD_IN" => InBuf(cr.cmd)'
    BY <1>2, <1>6, <2>1 DEF RunPgm, InBuf
  <2>. QED BY <1>2, <1>6, <2>1, <2>2 DEF RunPgm
<1>10. din' = [x \in Chunk |-> din'[x]] /\ DieShape'
  BY <1>1, <1>2 DEF DataInv, DieShape
<1>. QED BY <1>2, <1>5, <1>8, <1>9, <1>10 DEF DataInv

\* A command with buffers of the pool.
LEMMA IssueSteps ==
  ASSUME BufInv, NEW S, CmdsIn(S), NEW c, NFC_Issue(c), buf' = [b \in Buf |-> buf'[b]],
         \A x \in used : buf'[x] = buf[x], InBuf(c)', UNCHANGED done,
         BufsOf(c) \subseteq Buf \ used, used' = used \cup BufsOf(c)
  PROVE  BufInv' /\ IoFirmware
<1>1. OwnInv /\ DataInv' /\ UNCHANGED <<pblk, evt>>
  BY IssueData DEF BufInv, NFC_Issue, dieVars
<1>2. InFlight \in Seq(S) /\ InFlight' = Append(InFlight, c)
  BY Flight, FlightIssue
<1>3. OwnInv'
  BY <1>1, <1>2, OwnNew
<1>4. \A k \in Keys : \A x \in Held(done[k]) : buf'[x] = buf[x]
  BY <1>1 DEF OwnInv
<1>5. AbsDone' = AbsDone
  BY <1>4, DoneSame
<1>6. AbsDie' = AbsDie
  BY <1>1 DEF AbsDie
<1>. QED BY <1>1, <1>3, <1>5, <1>6, IssueView DEF BufInv, IoFirmware

\* A completed command is collected.
LEMMA TakenView ==
  ASSUME NEW S, CmdsIn(S), NEW k \in Keys, done[k] # <<>>, UNCHANGED buf,
         done' = [done EXCEPT ![k] = Tail(@)]
  PROVE  Io!HasDone(k) /\ Io!PopDone(k)
<1>1. done \in [Keys -> Seq(S)] /\ DOMAIN done' = Keys
  BY DEF CmdsIn
<1>2. done[k] \in Seq(S)
  BY <1>1
<1>3. \A r : /\ View(done[k], r, buf) # <<>>
            /\ View(Tail(done[k]), r, buf) = Tail(View(done[k], r, buf))
  BY <1>2, ViewTail
<1> DEFINE V(m) == View(done[m], TRUE, buf)
           W(m) == View(done'[m], TRUE, buf)
<1>4. done'[k] = Tail(done[k]) /\ \A m \in Keys : m # k => done'[m] = done[m]
  BY <1>1
<1>5. V(k) # <<>> /\ W(k) = Tail(V(k)) /\ \A m \in Keys : m # k => W(m) = V(m)
  BY <1>3, <1>4
<1>6. AbsDone' = [m \in Keys |-> W(m)] /\ AbsDone = [m \in Keys |-> V(m)]
  BY <1>1, AbsIsView, AbsIsViewNext
<1> HIDE DEF Keys, V, W
<1>7. AbsDone[k] # <<>> /\ AbsDone' = [AbsDone EXCEPT ![k] = Tail(@)]
  BY <1>5, <1>6
<1>. QED BY <1>7 DEF Io!HasDone, Io!PopDone

LEMMA ReadIssued ==
  ASSUME BufInv, NEW S, CmdsIn(S), NEW cb, NEW b, NEW w, IO_Read(cb, b, w)
  PROVE  BufInv' /\ IoFirmware
<1>1. PICK bm \in Masks : \E f \in Allocs(bm) :
        /\ NFC_Issue(CmdInfo("READ", cb, b, w, bm, f, NoChunks))
        /\ used' = used \cup {f[x] : x \in bm} /\ UNCHANGED <<buf, done>>
  BY DEF IO_Read
<1>2. PICK f \in Allocs(bm) :
        /\ NFC_Issue(CmdInfo("READ", cb, b, w, bm, f, NoChunks))
        /\ used' = used \cup {f[x] : x \in bm} /\ UNCHANGED <<buf, done>>
  BY <1>1
<1> DEFINE c == CmdInfo("READ", cb, b, w, bm, f, NoChunks)
<1>3. BufsOf(c) = {f[x] : x \in bm} /\ InBuf(c)'
  BY DEF BufsOf, CmdInfo, InBuf
<1>4. {f[x] : x \in bm} \subseteq Buf \ used
  BY DEF Allocs
<1>5. buf' = [x \in Buf |-> buf'[x]]
  BY <1>2 DEF BufInv, DataInv
<1> HIDE DEF c
<1>. QED BY <1>2, <1>3, <1>4, <1>5, IssueSteps DEF c

LEMMA ProgramIssued ==
  ASSUME BufInv, NEW S, CmdsIn(S), NEW cb, NEW b, NEW l, IO_Program(cb, b, l)
  PROVE  BufInv' /\ IoFirmware
<1> DEFINE Fill(bm, f) == [x \in Buf |-> IF \E y \in bm : f[y] = x
                             THEN PageOf(l)[CHOOSE y \in bm : f[y] = x] ELSE buf[x]]
           Info(bm, f) == CmdInfo("PGM", cb, b, nextIss[b], bm, f,
                            [y \in Chunk |-> IF y \in bm THEN PageOf(l)[y] ELSE Zero])
<1>1. PICK bm \in Masks : \E f \in Allocs(bm) :
        /\ buf' = Fill(bm, f) /\ NFC_Issue(Info(bm, f))
        /\ used' = used \cup {f[x] : x \in bm} /\ UNCHANGED done
  BY DEF IO_Program
<1>2. PICK f \in Allocs(bm) :
        /\ buf' = Fill(bm, f) /\ NFC_Issue(Info(bm, f))
        /\ used' = used \cup {f[x] : x \in bm} /\ UNCHANGED done
  BY <1>1
<1> PICK c : c = Info(bm, f)
  OBVIOUS
<1>3. BufsOf(c) = {f[x] : x \in bm}
  BY DEF BufsOf, CmdInfo
<1>4. {f[x] : x \in bm} \subseteq Buf \ used /\ \A x, y \in bm : x # y => f[x] # f[y]
  BY DEF Allocs
<1>5. bm \in SUBSET Chunk
  BY NfcAssumption
<1>6. buf' = [x \in Buf |-> buf'[x]]
  BY <1>2
<1>7. \A x \in used : buf'[x] = buf[x]
  <2>1. used \subseteq Buf
    BY DEF BufInv, OwnInv
  <2>. QED BY <1>2, <1>4, <2>1
<1>8. \A x \in bm : buf'[f[x]] = PageOf(l)[x]
  <2> TAKE x \in bm
  <2>1. f[x] \in Buf
    BY <1>4
  <2>2. \A y \in bm : f[y] = f[x] => y = x
    BY <1>4
  <2>3. (CHOOSE y \in bm : f[y] = f[x]) = x
    BY <2>2
  <2>. QED BY <1>2, <2>1, <2>3
<1>9. InBuf(c)'
  BY <1>5, <1>8 DEF InBuf, CmdInfo
<1>10. NFC_Issue(c)
  BY <1>2
<1>. QED BY <1>2, <1>3, <1>4, <1>6, <1>7, <1>9, <1>10, IssueSteps

LEMMA EraseIssued ==
  ASSUME BufInv, NEW S, CmdsIn(S), NEW cb, NEW b, IO_Erase(cb, b)
  PROVE  BufInv' /\ IoFirmware
<1> DEFINE c == CmdInfo("ERB", cb, b, 0, {}, <<>>, NoChunks)
<1>1. NFC_Issue(c) /\ UNCHANGED <<buf, used, done>>
  BY DEF IO_Erase
<1>2. BufsOf(c) = {} /\ InBuf(c)'
  BY DEF BufsOf, CmdInfo, InBuf
<1>3. buf' = [x \in Buf |-> buf'[x]]
  BY <1>1 DEF BufInv, DataInv
<1> HIDE DEF c
<1>. QED BY <1>1, <1>2, <1>3, IssueSteps

LEMMA Copied ==
  ASSUME BufInv, NEW S, CmdsIn(S), NEW k \in Issuers, NEW b, Copy(k, b)
  PROVE  BufInv' /\ IoFirmware
<1> DEFINE c == Head(done[k])
<1> PICK d : d = CmdInfo("PGM", k, b, nextIss[b], c.bm, c.buf,
                   [x \in Chunk |-> IF x \in c.bm THEN buf[c.buf[x]] ELSE Zero])
  OBVIOUS
<1>1. /\ done[k] # <<>> /\ c.op = "READ" /\ NFC_Issue(d)
      /\ done' = [done EXCEPT ![k] = Tail(@)] /\ UNCHANGED <<buf, used>>
  BY DEF Copy
<1>2. k \in Keys /\ done \in [Keys -> Seq(S)] /\ \A x \in S : GoodCmd(x)
  BY NfcAssumption DEF Keys, CmdsIn
<1>3. c \in S
  BY <1>1, <1>2
<1>4. c.bm \in SUBSET Chunk
  BY <1>1, <1>2, <1>3 DEF GoodCmd
<1>5. BufsOf(d) = BufsOf(c) /\ InBuf(d)'
  BY <1>1, <1>4 DEF BufsOf, CmdInfo, InBuf
<1>6. buf' = [x \in Buf |-> buf'[x]]
  BY <1>1 DEF BufInv, DataInv
<1>7. DataInv'
  BY <1>1, <1>5, <1>6, IssueData
<1>8. InFlight \in Seq(S) /\ InFlight' = Append(InFlight, d)
  BY <1>1, Flight, FlightIssue
<1>9. OwnInv'
  BY <1>1, <1>2, <1>5, <1>8, OwnCopy DEF BufInv
<1>10. Io!HasDone(k) /\ Io!PopDone(k)
  BY <1>1, <1>2, TakenView
<1>11. AbsDie' = AbsDie /\ evt' = evt
  BY <1>1 DEF NFC_Issue, dieVars, AbsDie
<1>. QED BY <1>1, <1>7, <1>9, <1>10, <1>11, IssueView DEF BufInv, IoFirmware

LEMMA Collected ==
  ASSUME BufInv, NEW S, CmdsIn(S), NEW k \in Issuers, Collect(k)
  PROVE  BufInv' /\ IoFirmware
<1>1. /\ done[k] # <<>> /\ done' = [done EXCEPT ![k] = Tail(@)]
      /\ used' = used \ BufsOf(Head(done[k]))
      /\ UNCHANGED <<dieQ, cr, evts, pblk, din, dout, buf, evt>>
  BY DEF Collect, nfcVars, dieVars
<1>2. k \in Keys /\ done \in [Keys -> Seq(S)]
  BY NfcAssumption DEF Keys, CmdsIn
<1>3. InFlight' = InFlight
  BY <1>1, FlightSame
<1>4. OwnInv'
  BY <1>1, <1>2, <1>3, OwnCollect DEF BufInv
<1>5. DataInv'
  BY <1>1 DEF BufInv, DataInv, DieShape, InBuf, RunRead, RunPgm, AbsDie
<1>6. Io!HasDone(k) /\ Io!PopDone(k)
  BY <1>1, <1>2, TakenView
<1>7. AbsDie' = AbsDie
  BY <1>1 DEF AbsDie
<1>8. AbsNq' = AbsNq
  BY <1>1, <1>3, AbsIsView, AbsIsViewNext
<1>. QED BY <1>1, <1>4, <1>5, <1>6, <1>7, <1>8 DEF BufInv, IoFirmware

LEMMA PowerCycled ==
  ASSUME BufInv, NEW S, CmdsIn(S), PowerCycle
  PROVE  BufInv' /\ IoFirmware
<1>1. /\ Outstanding = 0 /\ cr' = Idle /\ dieQ' = <<>> /\ din' = NoChunks
      /\ used' = {} /\ evt' = {} /\ UNCHANGED <<pblk, buf, done>>
  BY DEF PowerCycle
<1>2. dieQ \in Seq(S) /\ done \in [Keys -> Seq(S)]
  BY DEF CmdsIn
<1>3. Len(dieQ) \in Nat /\ InDie \in Nat /\ \A k \in Keys : done[k] \in Seq(S) /\ Len(done[k]) \in Nat
  BY <1>2 DEF InDie
<1>4. /\ Len(done["User"]) \in Nat /\ Len(done["Meta"]) \in Nat
      /\ Len(done["Mig"]) \in Nat /\ Len(done["UErs"]) \in Nat
  BY <1>3 DEF Keys
<1>5. /\ Len(dieQ) = 0 /\ InDie = 0 /\ Len(done["User"]) = 0 /\ Len(done["Meta"]) = 0
      /\ Len(done["Mig"]) = 0 /\ Len(done["UErs"]) = 0
  <2> DEFINE u == Len(done["User"])
             m == Len(done["Meta"])
             g == Len(done["Mig"])
             h == Len(done["UErs"])
             q == Len(dieQ)
  <2>1. InDie + q + (u + m + g + h) = 0
    BY <1>1 DEF Outstanding, InDone
  <2>2. InDie \in Nat /\ q \in Nat /\ u \in Nat /\ m \in Nat /\ g \in Nat /\ h \in Nat
    BY <1>3, <1>4
  <2> HIDE DEF u, m, g, h, q
  <2>3. q = 0 /\ InDie = 0 /\ u = 0 /\ m = 0 /\ g = 0 /\ h = 0
    BY <2>1, <2>2
  <2>. QED BY <2>3 DEF u, m, g, h, q
<1>6. \A k \in Keys : Len(done[k]) = 0
  BY <1>5 DEF Keys
<1>7. dieQ = <<>> /\ cr.cmd = NoCmd /\ \A k \in Keys : done[k] = <<>>
  BY <1>2, <1>3, <1>5, <1>6 DEF InDie
<1>8. InFlight = <<>> /\ InFlight' = <<>>
  BY <1>1, <1>7 DEF InFlight, Idle
<1>9. OwnInv'
  BY <1>1, <1>7, <1>8, HeldNone DEF OwnInv
<1>10. DataInv'
  BY <1>1 DEF BufInv, DataInv, DieShape, NoChunks, Idle, NoCmd
<1>11. UNCHANGED <<AbsDie, AbsNq, AbsDone>>
  BY <1>1, <1>8, AbsSame
<1>. QED BY <1>1, <1>9, <1>10, <1>11 DEF BufInv, IoFirmware

LEMMA FirmwareSteps ==
  ASSUME BufInv, NEW S, CmdsIn(S), Firmware
  PROVE  BufInv' /\ (IoFirmware \/ UNCHANGED AbsVars)
<1>1. CASE TakeEvents
  <2>1. evt' = {} /\ UNCHANGED <<dieQ, cr, evts, pblk, din, dout, buf, used, done>>
    BY <1>1 DEF TakeEvents, nfcVars, dieVars
  <2>2. InFlight' = InFlight
    BY <2>1, FlightSame
  <2>3. OwnInv'
    BY <2>1, <2>2, OwnFrame DEF BufInv
  <2>4. DataInv'
    BY <2>1 DEF BufInv, DataInv, DieShape, InBuf, RunRead, RunPgm, AbsDie
  <2>5. UNCHANGED <<AbsDie, AbsNq, AbsDone>>
    BY <2>1, <2>2, AbsSame
  <2>. QED BY <2>1, <2>3, <2>4, <2>5 DEF BufInv, IoFirmware
<1>2. CASE PowerCycle
  BY <1>2, PowerCycled
<1>3. ASSUME NEW k \in Issuers, Collect(k) PROVE BufInv' /\ IoFirmware
  BY <1>3, Collected
<1>4. ASSUME NEW cb \in Issuers, NEW b \in AnyBlk,
             \/ \E w \in AnyWL : IO_Read(cb, b, w)
             \/ \E l \in 0 .. NUM_LPN - 1 : IO_Program(cb, b, l)
             \/ IO_Erase(cb, b)
             \/ Copy(cb, b)
      PROVE  BufInv' /\ IoFirmware
  BY <1>4, ReadIssued, ProgramIssued, EraseIssued, Copied
<1>. QED BY <1>1, <1>2, <1>3, <1>4 DEF Firmware

-----------------------------------------------------------------------------
(* The theorems.                                                           *)

LEMMA InitBufInv ==
  Init => /\ BufInv /\ AbsNq = <<>>
          /\ AbsDie = [b \in AnyBlk |-> [w \in AnyWL |-> ErasedFF]]
<1> SUFFICES ASSUME Init
             PROVE  /\ BufInv /\ AbsNq = <<>>
                    /\ AbsDie = [b \in AnyBlk |-> [w \in AnyWL |-> ErasedFF]]
  OBVIOUS
<1>1. InFlight = <<>> /\ \A k \in Keys : done[k] = <<>>
  BY DEF Init, Idle, InFlight, Keys
<1>2. OwnInv
  BY <1>1, HeldNone DEF Init, OwnInv
<1>3. DataInv
  BY DEF Init, Idle, NoCmd, DataInv, DieShape, NoChunks, NewBlk
<1>4. AbsNq = <<>>
  BY <1>1, AbsIsView DEF View
<1>5. AbsDie = [b \in AnyBlk |-> [w \in AnyWL |-> ErasedFF]]
  BY DEF Init, AbsDie, NewBlk, Blank
<1>. QED BY <1>2, <1>3, <1>4, <1>5 DEF BufInv

\* The invariant is inductive, and every step is one of FtlIo's or none.
LEMMA Steps ==
  ASSUME IInv, BufInv, [Next]_vars
  PROVE  IInv' /\ BufInv' /\ [AbsNext]_AbsVars
<1>1. PICK S : CmdsIn(S)
  BY DEF IInv
<1>2. IInv'
  BY IInvNext
<1>3. CASE Controller
  <2>1. PICK e \in NfcEvt : HandleEvt(e)
    BY <1>3 DEF Controller
  <2>. QED BY <1>1, <1>2, <2>1, ControllerSteps DEF IInv, AbsNext
<1>4. CASE Firmware
  BY <1>1, <1>2, <1>4, FirmwareSteps DEF AbsNext
<1>5. CASE UNCHANGED vars
  <2>1. UNCHANGED <<dieQ, cr, evts, pblk, din, dout, buf, used, done, evt>>
    BY <1>5 DEF vars, nfcVars, dieVars
  <2>2. InFlight' = InFlight
    BY <2>1, FlightSame
  <2>3. OwnInv'
    BY <2>1, <2>2, OwnFrame DEF BufInv
  <2>4. DataInv'
    BY <2>1 DEF BufInv, DataInv, DieShape, InBuf, RunRead, RunPgm, AbsDie
  <2>5. UNCHANGED <<AbsDie, AbsNq, AbsDone>>
    BY <1>1, <2>1, <2>2, AbsSame
  <2>. QED BY <1>2, <2>1, <2>3, <2>4, <2>5 DEF BufInv, AbsVars
<1>. QED BY <1>3, <1>4, <1>5 DEF Next

\* The buffers of all commands, issued or completed.
LEMMA AllOwn ==
  ASSUME OwnInv, NEW S, CmdsIn(S)
  PROVE  Own(AllCmds) /\ Held(AllCmds) \subseteq used
<1> DEFINE s1 == InFlight \o done["User"]
           s2 == s1 \o done["Meta"]
           s3 == s2 \o done["Mig"]
           s4 == s3 \o done["UErs"]
<1>1. InFlight \in Seq(S) /\ \A k \in Keys : done[k] \in Seq(S)
  BY Flight DEF CmdsIn
<1>2. "User" \in Keys /\ "Meta" \in Keys /\ "Mig" \in Keys /\ "UErs" \in Keys
  BY DEF Keys
<1>3. \A k \in Keys : /\ Own(done[k]) /\ Held(done[k]) \subseteq used
                      /\ Held(done[k]) \cap Held(InFlight) = {}
                      /\ \A m \in Keys : k # m => Held(done[k]) \cap Held(done[m]) = {}
  BY DEF OwnInv
<1>4. s1 \in Seq(S) /\ Own(s1) /\ Held(s1) = Held(InFlight) \cup Held(done["User"])
  BY <1>1, <1>2, <1>3, HeldConcat DEF OwnInv
<1> HIDE DEF s1
<1>5. s2 \in Seq(S) /\ Own(s2) /\ Held(s2) = Held(s1) \cup Held(done["Meta"])
  <2>1. Held(s1) \cap Held(done["Meta"]) = {}
    BY <1>2, <1>3, <1>4
  <2>. QED BY <1>1, <1>2, <1>3, <1>4, <2>1, HeldConcat
<1> HIDE DEF s2
<1>6. s3 \in Seq(S) /\ Own(s3) /\ Held(s3) = Held(s2) \cup Held(done["Mig"])
  <2>1. Held(s2) \cap Held(done["Mig"]) = {}
    BY <1>2, <1>3, <1>4, <1>5
  <2>. QED BY <1>1, <1>2, <1>3, <1>5, <2>1, HeldConcat
<1> HIDE DEF s3
<1>7. Own(s4) /\ Held(s4) = Held(s3) \cup Held(done["UErs"])
  <2>1. Held(s3) \cap Held(done["UErs"]) = {}
    BY <1>2, <1>3, <1>4, <1>5, <1>6
  <2>. QED BY <1>1, <1>2, <1>3, <1>6, <2>1, HeldConcat
<1>8. AllCmds = s4
  BY DEF AllCmds, s1, s2, s3
<1>9. Held(s4) \subseteq used
  BY <1>2, <1>3, <1>4, <1>5, <1>6, <1>7 DEF OwnInv
<1>. QED BY <1>7, <1>8, <1>9

LEMMA InvIsOwned ==
  ASSUME IInv, BufInv PROVE BuffersOwned
<1>1. PICK S : CmdsIn(S)
  BY DEF IInv
<1>2. Own(AllCmds) /\ Held(AllCmds) \subseteq used
  BY <1>1, AllOwn DEF BufInv
<1>. QED BY <1>2 DEF BuffersOwned, Own, Held

LEMMA InvIsData ==
  ASSUME IInv, BufInv PROVE DataWait
<1>1. PICK S : CmdsIn(S)
  BY DEF IInv
<1>2. DataInv /\ dieQ \in Seq(S) /\ DOMAIN dieQ = 1 .. Len(dieQ) /\ Len(dieQ) \in Nat
  BY <1>1 DEF BufInv, CmdsIn
<1>3. CASE cr.step = "WAIT_NEW_CMD"
  <2>1. InFlight = dieQ /\ cr.cmd = NoCmd
    BY <1>1, <1>3, Flight DEF CmdsIn
  <2>. QED BY <1>2, <2>1 DEF DataWait, DataInv, InBuf
<1>4. CASE cr.step # "WAIT_NEW_CMD"
  <2>1. InFlight = <<cr.cmd>> \o dieQ /\ cr.cmd \in S /\ cr.cmd # NoCmd
    BY <1>1, <1>4, Flight
  <2>2. /\ InFlight[1] = cr.cmd
        /\ \A i \in DOMAIN InFlight : i = 1 \/ (i - 1 \in DOMAIN dieQ /\ InFlight[i] = dieQ[i - 1])
    BY <1>2, <2>1
  <2>3. cr.step \in Step
    BY <1>1 DEF CmdsIn
  <2>4. cr.cmd.op = "PGM" =>
          \A x \in cr.cmd.bm :
            cr.cmd.data[x] = IF x \in (IF cr.step = "WAIT_CMD_IN" THEN cr.cmd.bm
                                       ELSE IF cr.step = "WAIT_DMA_IN" THEN cr.rest ELSE {})
                             THEN buf[cr.cmd.buf[x]] ELSE din[x]
    BY <1>2, <1>4, <2>3 DEF DataInv, RunPgm, InBuf, Step
  <2>5. \A i \in DOMAIN dieQ : dieQ[i].op = "PGM" =>
          \A x \in dieQ[i].bm : dieQ[i].data[x] = buf[dieQ[i].buf[x]]
    BY <1>2 DEF DataInv, InBuf
  <2> SUFFICES ASSUME NEW i \in DOMAIN InFlight, InFlight[i].op = "PGM", NEW x \in InFlight[i].bm
               PROVE  InFlight[i].data[x] =
                        IF x \in (IF ~(i = 1 /\ cr.cmd # NoCmd) \/ cr.step = "WAIT_CMD_IN" THEN InFlight[i].bm
                                  ELSE IF cr.step = "WAIT_DMA_IN" THEN cr.rest ELSE {})
                        THEN buf[InFlight[i].buf[x]] ELSE din[x]
    BY DEF DataWait
  <2>6. CASE i = 1
    BY <2>1, <2>2, <2>4, <2>6
  <2>7. CASE i # 1
    BY <2>2, <2>5, <2>7
  <2>. QED BY <2>6, <2>7
<1>. QED BY <1>3, <1>4

\* No two commands share a buffer, and a command's buffers are allocated from
\* its issue until the firmware has collected it: neither the controller's
\* transfers nor a move (the program of a page from the buffers it was read
\* into) ever touch a buffer given back to the pool.
THEOREM BuffersOwnedAlways == Spec => []BuffersOwned
<1>1. Init => IInv /\ BufInv
  BY InitIInv, InitBufInv
<1>2. IInv /\ BufInv /\ [Next]_vars => IInv' /\ BufInv'
  BY Steps
<1>3. IInv /\ BufInv => BuffersOwned
  BY InvIsOwned
<1>. QED BY <1>1, <1>2, <1>3, PTL DEF Spec

\* The data of every program that is not finished are in its buffers or, for
\* the chunks already transferred, in the latch of the die: the firmware may
\* go on before the controller has looked at a buffer.
THEOREM DataWaitAlways == Spec => []DataWait
<1>1. Init => IInv /\ BufInv
  BY InitIInv, InitBufInv
<1>2. IInv /\ BufInv /\ [Next]_vars => IInv' /\ BufInv'
  BY Steps
<1>3. IInv /\ BufInv => DataWait
  BY InvIsData
<1>. QED BY <1>1, <1>2, <1>3, PTL DEF Spec

\* The controller, step by step and with its buffers, implements the die of
\* FtlIo, which executes a command in one step, in issue order, on the data it
\* was issued with.
THEOREM ImplementsIoHolds == Spec => ImplementsIo
<1>1. Init => /\ IInv /\ BufInv /\ AbsNq = <<>>
              /\ AbsDie = [b \in AnyBlk |-> [w \in AnyWL |-> ErasedFF]]
  BY InitIInv, InitBufInv
<1>2. IInv /\ BufInv /\ [Next]_vars => IInv' /\ BufInv' /\ [AbsNext]_AbsVars
  BY Steps
<1>. QED BY <1>1, <1>2, PTL DEF Spec, ImplementsIo, IoSpec, AbsNext, AbsVars
=============================================================================
