-------------------------------- MODULE Nfc --------------------------------
(***************************************************************************)
(* The flash controller (hw/nfc.cpp), the die behind it (hw/die.cpp), the  *)
(* buffers they move pages through (hw/buf.cpp) and the firmware's side of *)
(* it (ftl/io.cpp).  FtlIo executes a command in one step; here it takes   *)
(* the steps of the controller, each one started by an event the step      *)
(* before put into the simulator's queue:                                  *)
(*                                                                         *)
(*   read     command in, busy, one DMA per chunk from the die             *)
(*   program  command in, one DMA per chunk to the die, busy               *)
(*   erase    command in, busy                                             *)
(*                                                                         *)
(* The firmware goes on in between: it issues commands, collects completed *)
(* ones and takes buffers from the pool and gives them back.  The times of *)
(* the steps are left out: they may take any.                              *)
(***************************************************************************)
EXTENDS Integers, FiniteSets, Sequences

CONSTANTS
  NUM_USER_BLK, NUM_META_BLK, NUM_WL, NUM_LPN, NUM_NAND_CMD,   \* as in FtlIo
  CHUNK_PER_BPG,    \* chunks of a page
  Masks,            \* the chunk sets commands transfer (bmChunk)
  Buf,              \* the buffers
  Issuers,          \* the CbKeys that issue commands
  MaxIssue          \* bound on the commands issued

Chunk == 0 .. CHUNK_PER_BPG - 1

ASSUME NfcAssumption ==
  /\ NUM_WL \in Nat \ {0}
  /\ CHUNK_PER_BPG \in Nat \ {0}
  /\ Masks \subseteq SUBSET Chunk /\ \A bm \in Masks : 0 \in bm
  /\ Issuers \subseteq {"User", "Meta", "Mig", "UErs"}
  /\ MaxIssue \in Nat

VARIABLES
  dieQ,     \* gstDieQue: commands the die has not started
  cr,       \* gastRun: step, command and chunks left of the running command
  evts,     \* how many events of each kind the simulator holds for the NFC
  pblk,     \* astPBlk: next page to program and word lines of every block
  din,      \* a4DIn: the chunks the next program stores
  dout,     \* ap4DOut: the page the next DMA to a buffer comes from
  buf,      \* gaMBuf, gaSBuf: what each buffer holds
  used,     \* gbAlloc: the allocated buffers
  done,     \* gaDone
  evt,      \* bmAsyncEvt
  nextIss,  \* per block, the page after the last one a program was issued for
  issued    \* commands issued so far

nfcVars == <<dieQ, cr, evts>>
dieVars == <<pblk, din, dout>>
vars    == <<nfcVars, dieVars, buf, used, done, evt, nextIss, issued>>

AnyBlk  == 0 .. NUM_USER_BLK + NUM_META_BLK - 1
AnyWL   == 0 .. NUM_WL - 1

\* What a chunk of a page or a buffer holds; Zero is memory set to 0.
Zero     == [k |-> "zero"]
ErasedFF == [k |-> "erased"]
PageOf(l) == [c \in Chunk |-> [k |-> "data", lpn |-> l, ver |-> c]]
Content  == [k : {"data"}, lpn : 0 .. NUM_LPN - 1, ver : Chunk] \cup {Zero, ErasedFF}

NoCmd == [op |-> "none"]
Step  == {"WAIT_NEW_CMD", "WAIT_CMD_IN", "WAIT_BUSY", "WAIT_DMA_IN", "WAIT_DMA_OUT"}

\* The events: bNewCmd and the chunk (nOffset) the step is about.
NfcEvt   == [new : BOOLEAN, off : Chunk]
NewCmdEvt == [new |-> TRUE, off |-> 0]
StepEvt  == [new |-> FALSE, off |-> 0]
DmaEvt(c) == [new |-> FALSE, off |-> c]
NoEvts   == [e \in NfcEvt |-> 0]

\* BIT_SCAN_LSB
Lsb(S) == CHOOSE c \in S : \A x \in S : c <= x

Idle == [step |-> "WAIT_NEW_CMD", cmd |-> NoCmd, rest |-> {}]

Blank   == [pgm |-> FALSE, chunk |-> [c \in Chunk |-> Zero]]
NewBlk  == [next |-> 0, wl |-> [w \in AnyWL |-> Blank]]
NoPage  == [ok |-> FALSE, blk |-> 0, wl |-> 0]
NoChunks == [c \in Chunk |-> Zero]

Init ==
  /\ dieQ = <<>> /\ cr = Idle /\ evts = NoEvts
  /\ pblk = [b \in AnyBlk |-> NewBlk]
  /\ din = NoChunks /\ dout = NoPage
  /\ buf = [x \in Buf |-> Zero] /\ used = {}
  /\ done = [k \in {"User", "Meta", "Mig", "UErs"} |-> <<>>]
  /\ evt = {}
  /\ nextIss = [b \in AnyBlk |-> 0] /\ issued = 0

-----------------------------------------------------------------------------
(* The controller.                                                         *)

\* The event in hand goes, the events of the bag `new' come.
Replace(e, new) ==
  evts' = [x \in NfcEvt |-> evts[x] - (IF x = e THEN 1 ELSE 0)
                                    + (IF x \in new THEN 1 ELSE 0)]

\* nfc_Trigger: an idle die with a waiting command is to be started.
Trigger(step, q) == IF step = "WAIT_NEW_CMD" /\ q # <<>> THEN {NewCmdEvt} ELSE {}

\* The next step of the running command, and the event that will start it.
Goto(e, step, rest, new) ==
  /\ cr' = [cr EXCEPT !.step = step, !.rest = rest]
  /\ Replace(e, {new})
  /\ UNCHANGED <<dieQ, done, evt>>

\* Mutant of DoneCmd: nfc_Trigger comes before eStep is set back.
X_TriggerEarly(e) ==
  /\ done' = [done EXCEPT ![cr.cmd.cb] = Append(@, cr.cmd)]
  /\ evt' = evt \cup {"NAND_CMD"}
  /\ cr' = Idle
  /\ Replace(e, Trigger(cr.step, dieQ))
  /\ UNCHANGED dieQ

(* The end of a command: nfc_DoneCmd hands it to io_CbDone, the die is     *)
(* idle, and the next command is triggered.                                *)
DoneCmd(e) ==
  /\ done' = [done EXCEPT ![cr.cmd.cb] = Append(@, cr.cmd)]
  /\ evt' = evt \cup {"NAND_CMD"}
  /\ cr' = Idle
  /\ Replace(e, Trigger("WAIT_NEW_CMD", dieQ))
  /\ UNCHANGED dieQ

HandleRead(e) ==
  /\ cr.cmd.op = "READ"
  /\ \/ /\ cr.step = "WAIT_CMD_IN"
        /\ Goto(e, "WAIT_BUSY", cr.cmd.bm, StepEvt)
        /\ UNCHANGED <<dout, buf>>
     \/ /\ cr.step = "WAIT_BUSY"                        \* DoRead
        /\ dout' = [ok  |-> pblk[cr.cmd.blk].wl[cr.cmd.wl].pgm,
                    blk |-> cr.cmd.blk, wl |-> cr.cmd.wl]
        /\ Goto(e, "WAIT_DMA_OUT", cr.cmd.bm, DmaEvt(Lsb(cr.cmd.bm)))
        /\ UNCHANGED buf
     \/ /\ cr.step = "WAIT_DMA_OUT"                     \* DataOut
        /\ buf' = [buf EXCEPT ![cr.cmd.buf[e.off]] =
                     IF dout.ok THEN pblk[dout.blk].wl[dout.wl].chunk[e.off]
                                ELSE ErasedFF]
        /\ LET rest == cr.rest \ {e.off} IN
           IF rest # {} THEN Goto(e, "WAIT_DMA_OUT", rest, DmaEvt(Lsb(rest)))
                        ELSE DoneCmd(e)
        /\ UNCHANGED dout
  /\ UNCHANGED <<pblk, din>>

HandleProgram(e) ==
  /\ cr.cmd.op = "PGM"
  /\ \/ /\ cr.step = "WAIT_CMD_IN"
        /\ Goto(e, "WAIT_DMA_IN", cr.cmd.bm, DmaEvt(Lsb(cr.cmd.bm)))
        /\ UNCHANGED <<pblk, din>>
     \/ /\ cr.step = "WAIT_DMA_IN"                      \* DataIn
        /\ din' = [din EXCEPT ![e.off] = buf[cr.cmd.buf[e.off]]]
        /\ LET rest == cr.rest \ {e.off} IN
           IF rest # {} THEN Goto(e, "WAIT_DMA_IN", rest, DmaEvt(Lsb(rest)))
                        ELSE Goto(e, "WAIT_BUSY", rest, StepEvt)
        /\ UNCHANGED pblk
     \/ /\ cr.step = "WAIT_BUSY"                        \* DoProg
        /\ pblk' = [pblk EXCEPT
             ![cr.cmd.blk] = [next |-> cr.cmd.wl + 1,
                              wl |-> [@.wl EXCEPT ![cr.cmd.wl] =
                                        [pgm |-> TRUE, chunk |-> din]]]]
        /\ DoneCmd(e)
        /\ UNCHANGED din
  /\ UNCHANGED <<dout, buf>>

\* Mutant of HandleErase: the erase resets nNextPgm and leaves bPgm alone.
X_EraseIndexOnly(e) ==
  /\ cr.cmd.op = "ERB"
  /\ \/ /\ cr.step = "WAIT_CMD_IN"
        /\ Goto(e, "WAIT_BUSY", cr.rest, StepEvt)
        /\ UNCHANGED pblk
     \/ /\ cr.step = "WAIT_BUSY"
        /\ pblk' = [pblk EXCEPT ![cr.cmd.blk].next = 0]
        /\ DoneCmd(e)
  /\ UNCHANGED <<din, dout, buf>>

HandleErase(e) ==
  /\ cr.cmd.op = "ERB"
  /\ \/ /\ cr.step = "WAIT_CMD_IN"
        /\ Goto(e, "WAIT_BUSY", cr.rest, StepEvt)
        /\ UNCHANGED pblk
     \/ /\ cr.step = "WAIT_BUSY"                        \* DoErase
        /\ pblk' = [pblk EXCEPT ![cr.cmd.blk] = NewBlk]
        /\ DoneCmd(e)
  /\ UNCHANGED <<din, dout, buf>>

\* A die that waits starts its next command on bNewCmd and ignores the rest.
HandleNew(e) ==
  /\ cr.step = "WAIT_NEW_CMD"
  /\ IF e.new /\ dieQ # <<>>
     THEN /\ cr' = [step |-> "WAIT_CMD_IN", cmd |-> Head(dieQ), rest |-> Chunk]
          /\ dieQ' = Tail(dieQ)
          /\ Replace(e, {StepEvt})
     ELSE Replace(e, {}) /\ UNCHANGED <<cr, dieQ>>
  /\ UNCHANGED <<dieVars, buf, done, evt>>

\* nfc_HandleEvt
HandleEvt(e) ==
  /\ evts[e] > 0
  /\ \/ HandleNew(e)
     \/ cr.step # "WAIT_NEW_CMD" /\ (HandleRead(e) \/ HandleProgram(e) \/ HandleErase(e))
  /\ UNCHANGED <<used, nextIss, issued>>

Controller == \E e \in NfcEvt : HandleEvt(e)

-----------------------------------------------------------------------------
(* The firmware.                                                           *)

InDie == IF cr.cmd = NoCmd THEN 0 ELSE 1
InDone == Len(done["User"]) + Len(done["Meta"]) + Len(done["Mig"]) + Len(done["UErs"])
Outstanding == InDie + Len(dieQ) + InDone

\* Mutant of NFC_Issue: every command triggers the idle die.
X_AlwaysTrigger(c) ==
  /\ Outstanding < NUM_NAND_CMD /\ issued < MaxIssue
  /\ issued' = issued + 1
  /\ dieQ' = Append(dieQ, c)
  /\ evts' = [e \in NfcEvt |-> evts[e] + (IF e \in Trigger(cr.step, dieQ') THEN 1 ELSE 0)]
  /\ UNCHANGED <<cr, dieVars, evt>>

\* NFC_Issue: only the first command of an empty queue triggers the die.
NFC_Issue(c) ==
  /\ Outstanding < NUM_NAND_CMD /\ issued < MaxIssue
  /\ issued' = issued + 1
  /\ dieQ' = Append(dieQ, c)
  /\ LET new == IF Len(dieQ) = 0 THEN Trigger(cr.step, dieQ') ELSE {}
     IN  evts' = [e \in NfcEvt |-> evts[e] + (IF e \in new THEN 1 ELSE 0)]
  /\ UNCHANGED <<cr, dieVars, evt>>

\* The buffers of a new command: one free buffer per chunk (BM_Alloc).
Allocs(bm) == {f \in [bm -> Buf \ used] : \A c, d \in bm : c # d => f[c] # f[d]}
BufsOf(c) == {c.buf[x] : x \in c.bm}

CmdInfo(op, cb, b, w, bm, f, data) ==
  [op |-> op, cb |-> cb, blk |-> b, wl |-> w, bm |-> bm, buf |-> f, data |-> data]

IO_Read(cb, b, w) ==
  \E bm \in Masks : \E f \in Allocs(bm) :
    /\ NFC_Issue(CmdInfo("READ", cb, b, w, bm, f, NoChunks))
    /\ used' = used \cup {f[c] : c \in bm}
    /\ UNCHANGED <<buf, done, nextIss>>

\* Mutant of IO_Program: the buffers are not taken from the pool.
X_NoAlloc(cb, b, l) ==
  \E bm \in Masks : \E f \in Allocs(bm) :
    /\ nextIss[b] < NUM_WL
    /\ buf' = [x \in Buf |-> IF \E c \in bm : f[c] = x
                             THEN PageOf(l)[CHOOSE c \in bm : f[c] = x] ELSE buf[x]]
    /\ NFC_Issue(CmdInfo("PGM", cb, b, nextIss[b], bm, f,
                         [c \in Chunk |-> IF c \in bm THEN PageOf(l)[c] ELSE Zero]))
    /\ nextIss' = [nextIss EXCEPT ![b] = @ + 1]
    /\ UNCHANGED <<used, done>>

(* A program of fresh data.  `data' is what the buffers hold when the      *)
(* command is issued; the controller looks at the buffers, not at it.      *)
IO_Program(cb, b, l) ==
  \E bm \in Masks : \E f \in Allocs(bm) :
    /\ nextIss[b] < NUM_WL
    /\ buf' = [x \in Buf |-> IF \E c \in bm : f[c] = x
                             THEN PageOf(l)[CHOOSE c \in bm : f[c] = x] ELSE buf[x]]
    /\ NFC_Issue(CmdInfo("PGM", cb, b, nextIss[b], bm, f,
                         [c \in Chunk |-> IF c \in bm THEN PageOf(l)[c] ELSE Zero]))
    /\ used' = used \cup {f[c] : c \in bm}
    /\ nextIss' = [nextIss EXCEPT ![b] = @ + 1]
    /\ UNCHANGED done

IO_Erase(cb, b) ==
  /\ NFC_Issue(CmdInfo("ERB", cb, b, 0, {}, <<>>, NoChunks))
  /\ nextIss' = [nextIss EXCEPT ![b] = 0]
  /\ UNCHANGED <<buf, used, done>>

\* IO_PopDone and IO_Free; the buffers go back to the pool (BM_Free).
Collect(k) ==
  /\ done[k] # <<>>
  /\ done' = [done EXCEPT ![k] = Tail(@)]
  /\ used' = used \ BufsOf(Head(done[k]))
  /\ UNCHANGED <<nfcVars, dieVars, buf, evt, nextIss, issued>>

\* Mutant of Copy: the buffers go back to the pool with the read command.
X_FreeOnCopy(k, b) ==
  /\ done[k] # <<>> /\ Head(done[k]).op = "READ"
  /\ nextIss[b] < NUM_WL
  /\ LET c == Head(done[k]) IN
     /\ NFC_Issue(CmdInfo("PGM", k, b, nextIss[b], c.bm, c.buf,
                          [x \in Chunk |-> IF x \in c.bm THEN buf[c.buf[x]] ELSE Zero]))
     /\ used' = used \ BufsOf(c)
  /\ done' = [done EXCEPT ![k] = Tail(@)]
  /\ nextIss' = [nextIss EXCEPT ![b] = @ + 1]
  /\ UNCHANGED buf

(* gc_HandleRead: the page just read is programmed from the buffers it was *)
(* read into, and the read command is freed after that.                    *)
Copy(k, b) ==
  /\ done[k] # <<>> /\ Head(done[k]).op = "READ"
  /\ nextIss[b] < NUM_WL
  /\ LET c == Head(done[k]) IN
     NFC_Issue(CmdInfo("PGM", k, b, nextIss[b], c.bm, c.buf,
                       [x \in Chunk |-> IF x \in c.bm THEN buf[c.buf[x]] ELSE Zero]))
  /\ done' = [done EXCEPT ![k] = Tail(@)]
  /\ nextIss' = [nextIss EXCEPT ![b] = @ + 1]
  /\ UNCHANGED <<buf, used>>

\* Sched_Run takes the events.
TakeEvents ==
  /\ evt # {} /\ evt' = {}
  /\ UNCHANGED <<nfcVars, dieVars, buf, used, done, nextIss, issued>>

(* Power off and on, which the host only does when nothing is under way    *)
(* (QuietAtPowerOff of Ftl): sim_PowerUp, BM_Init and NFC_Init.            *)
PowerCycle ==
  /\ Outstanding = 0
  /\ cr' = Idle /\ dieQ' = <<>> /\ evts' = NoEvts
  /\ din' = NoChunks /\ dout' = NoPage
  /\ used' = {} /\ evt' = {}
  /\ UNCHANGED <<pblk, buf, done, nextIss, issued>>

Firmware ==
  \/ \E cb \in Issuers, b \in AnyBlk :
       \/ \E w \in AnyWL : IO_Read(cb, b, w)
       \/ \E l \in 0 .. NUM_LPN - 1 : IO_Program(cb, b, l)
       \/ IO_Erase(cb, b)
       \/ Copy(cb, b)
  \/ \E k \in Issuers : Collect(k)
  \/ TakeEvents
  \/ PowerCycle

Next == Controller \/ Firmware

\* SIM_Run takes event after event.
Spec == Init /\ [][Next]_vars /\ WF_vars(Controller)

-----------------------------------------------------------------------------
(* Properties.                                                             *)

Count(S) == [e \in NfcEvt |-> IF e \in S THEN 1 ELSE 0]

(* The controller has exactly one event to go on with: an idle die with a  *)
(* waiting command one bNewCmd, a busy die the event of its step, and an   *)
(* idle die without commands none.  NFC_Issue triggers only when the queue *)
(* was empty (nfc.cpp:309), which is enough because each command that ends *)
(* triggers the next (nfc.cpp:128,198,233).                                *)
OneEvent ==
  IF cr.step = "WAIT_NEW_CMD"
  THEN evts = Count(Trigger(cr.step, dieQ))
  ELSE \E c \in Chunk :
         /\ evts = Count({DmaEvt(c)})
         /\ cr.step \in {"WAIT_DMA_IN", "WAIT_DMA_OUT"} =>
              c \in cr.rest /\ \A x \in cr.rest : c <= x

\* The commands not completed, oldest first.
InFlight == IF cr.cmd = NoCmd THEN dieQ ELSE <<cr.cmd>> \o dieQ

(* The data of a program are where the controller will take them from, the *)
(* die's latch for the chunks already transferred and the buffer for the   *)
(* others: the firmware hands over a buffer number, and the controller     *)
(* reads the buffer long after the call (nfc.cpp:165-167).                 *)
DataWait ==
  \A i \in DOMAIN InFlight :
    LET c == InFlight[i]
        running == i = 1 /\ cr.cmd # NoCmd
        left == IF ~running \/ cr.step = "WAIT_CMD_IN" THEN c.bm
                ELSE IF cr.step = "WAIT_DMA_IN" THEN cr.rest ELSE {}
    IN  c.op = "PGM" => \A x \in c.bm :
          c.data[x] = IF x \in left THEN buf[c.buf[x]] ELSE din[x]

(* No two commands share a buffer and every buffer of a command is         *)
(* allocated until the command is collected (the assertions of             *)
(* BM_GetMain, buf.cpp:15, hit by DMA and by io_Print).                    *)
AllCmds == InFlight \o done["User"] \o done["Meta"] \o done["Mig"] \o done["UErs"]
BuffersOwned ==
  \A i \in DOMAIN AllCmds :
    /\ BufsOf(AllCmds[i]) \subseteq used
    /\ \A j \in DOMAIN AllCmds : i # j => BufsOf(AllCmds[i]) \cap BufsOf(AllCmds[j]) = {}

(* Every command ends: none is left in the queue of an idle die for want   *)
(* of a trigger, and no step of a command is forgotten.                    *)
CommandsEnd ==
  /\ dieQ # <<>> ~> cr.step = "WAIT_CMD_IN"
  /\ cr.step # "WAIT_NEW_CMD" ~> cr.step = "WAIT_NEW_CMD"

-----------------------------------------------------------------------------
(* To the FTL the steps of a command are one step of FtlIo.  It works with *)
(* the first chunk of a page; the flash of FtlIo holds that one.           *)

AbsDie == [b \in AnyBlk |-> [w \in AnyWL |->
            IF pblk[b].wl[w].pgm THEN pblk[b].wl[w].chunk[0] ELSE ErasedFF]]
AbsCmd(c, read) ==
  [op |-> c.op, cb |-> c.cb, blk |-> c.blk, wl |-> c.wl, req |-> [cmd |-> "none"],
   pg |-> CASE c.op = "PGM"           -> c.data[0]
            [] c.op = "READ" /\ read -> buf[c.buf[0]]
            [] OTHER                  -> ErasedFF]
AbsNq   == [i \in DOMAIN InFlight |-> AbsCmd(InFlight[i], FALSE)]
AbsDone == [k \in DOMAIN done |-> [i \in DOMAIN done[k] |-> AbsCmd(done[k][i], TRUE)]]

Io == INSTANCE FtlIo WITH
        die <- AbsDie, nq <- AbsNq, done <- AbsDone, evt <- evt,
        rdy <- {}, run <- {}, wait <- <<>>, cur <- 0, mid <- FALSE

\* The firmware issues a command, collects one, or does both; or a round of
\* the scheduler takes the events.
IoFirmware ==
  /\ UNCHANGED AbsDie
  /\ \/ UNCHANGED AbsNq
     \/ AbsNq' # <<>> /\ Io!Issue(<<AbsNq'[Len(AbsNq')]>>)
  /\ \/ UNCHANGED AbsDone
     \/ \E k \in Issuers : Io!HasDone(k) /\ Io!PopDone(k)
  /\ evt' \in {{}, evt}

IoSpec == /\ AbsNq = <<>> /\ AbsDie = [b \in AnyBlk |-> [w \in AnyWL |-> ErasedFF]]
          /\ [][Io!NandDone \/ IoFirmware]_<<AbsDie, AbsNq, AbsDone, evt>>

(* The controller implements the die of FtlIo: commands take effect one    *)
(* after the other in issue order, a program stores the data it was issued *)
(* with, a read returns the page as it is when the command ends, and the   *)
(* interrupt comes with the effect.                                        *)
ImplementsIo == IoSpec
=============================================================================
