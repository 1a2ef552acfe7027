------------------------------ MODULE IoQueues ------------------------------
(***************************************************************************)
(* The containers of com/templ.h as the command layer (ftl/io.cpp), the    *)
(* controller (hw/nfc.cpp) and the buffer manager (hw/buf.cpp) use them.   *)
(* FtlIo and Nfc keep pools and queues as sequences and sets; here they    *)
(* are what the code has: linked lists that share the one pNext of a       *)
(* command, and rings that wrap.                                           *)
(*                                                                         *)
(* A command goes round the places: the pool, its owner (IO_Alloc), the    *)
(* queue of the die (NFC_Issue), the die, the done list of its key         *)
(* (io_CbDone), its owner again (IO_PopDone), the pool (IO_Free).          *)
(***************************************************************************)
EXTENDS Integers, FiniteSets, Sequences, Functions

CONSTANTS
  NUM_NAND_CMD,     \* the commands
  CbKeys,           \* CbKey: one done list for each
  NUM_IOCB,         \* what gaKeys holds for a command of the pool
  NIL,              \* nullptr
  NUM_QUE,          \* slots of gstDieQue and of gstDoneQue
  NUM_BUF,          \* the buffers
  MaxBoot           \* bound on the restarts

ASSUME QueuesAssumption ==
  /\ NUM_NAND_CMD \in Nat \ {0} /\ NUM_BUF \in Nat \ {0}
  /\ NUM_QUE \in Nat \ {0} /\ NUM_NAND_CMD <= NUM_QUE
  /\ NIL \notin Int /\ "Pool" \notin CbKeys /\ NUM_IOCB \notin CbKeys
  /\ MaxBoot \in Nat

Cmd  == 0 .. NUM_NAND_CMD - 1
Buf  == 0 .. NUM_BUF - 1
List == {"Pool"} \cup CbKeys      \* gNCmdPool and gaDone

VARIABLES
  next,     \* pNext of every command
  lists,    \* nCount, pHead and pTail of every LinkedQueue
  gaKeys,   \* whose command it is
  dieQ,     \* gstDieQue
  doneQ,    \* gstDoneQue
  free,     \* gFreeQue
  used,     \* gbAlloc
  run,      \* the command in the die
  fresh,    \* commands allocated and not issued
  got,      \* commands collected and not freed
  nIdx,     \* the next command IO_Init frees
  boot,     \* restarts so far
  seq,      \* history: what each list should hold, in order
  dieSeq,   \* history: what gstDieQue should hold
  bufSeq    \* history: what gFreeQue should hold

queVars  == <<next, lists, gaKeys, seq>>
dieVars  == <<dieQ, dieSeq, doneQ, run>>
bufVars  == <<free, used, bufSeq>>
ownVars  == <<fresh, got>>
vars     == <<queVars, dieVars, bufVars, ownVars, nIdx, boot>>

-----------------------------------------------------------------------------
(* Queue<T, SIZE>.                                                         *)

NewRing(q) == [data |-> q.data, head |-> 0, tail |-> 0, count |-> 0]

RingPush(q, size, x) ==
  [data |-> [q.data EXCEPT ![q.tail] = x], head |-> q.head,
   tail |-> (q.tail + 1) % size, count |-> q.count + 1]

RingHead(q) == q.data[q.head]

RingPop(q, size) ==
  [data |-> q.data, head |-> (q.head + 1) % size, tail |-> q.tail, count |-> q.count - 1]

(* LinkedQueue<CmdInfo>.                                                   *)

NoList == [count |-> 0, head |-> NIL, tail |-> NIL]

\* Mutant of PushTail: pNext of the pushed command is not cleared.
PushTail_Linked(l, c) ==
  /\ next' = IF lists[l].count = 0 THEN next ELSE [next EXCEPT ![lists[l].tail] = c]
  /\ lists' = [lists EXCEPT ![l] =
                 [count |-> lists[l].count + 1, tail |-> c,
                  head  |-> IF lists[l].count = 0 THEN c ELSE lists[l].head]]
  /\ seq' = [seq EXCEPT ![l] = Append(seq[l], c)]

PushTail(l, c) ==
  /\ next' = IF lists[l].count = 0 THEN [next EXCEPT ![c] = NIL]
             ELSE [next EXCEPT ![c] = NIL, ![lists[l].tail] = c]
  /\ lists' = [lists EXCEPT ![l] =
                 [count |-> lists[l].count + 1, tail |-> c,
                  head  |-> IF lists[l].count = 0 THEN c ELSE lists[l].head]]
  /\ seq' = [seq EXCEPT ![l] = Append(seq[l], c)]

PopHead(l) ==
  /\ lists[l].count > 0
  /\ lists' = [lists EXCEPT ![l] =
                 [count |-> lists[l].count - 1, head |-> next[lists[l].head],
                  tail  |-> IF lists[l].count = 1 THEN NIL ELSE lists[l].tail]]
  /\ next' = [next EXCEPT ![lists[l].head] = NIL]
  /\ seq' = [seq EXCEPT ![l] = Tail(seq[l])]

-----------------------------------------------------------------------------
(* Power on: static memory is zero; IO_Init and BM_Init run before any     *)
(* task does.  gaDone has no Init of its own: it is empty as memory or as  *)
(* the firmware left it.                                                   *)

Zeros(size) == [data |-> [i \in 0 .. size - 1 |-> 0], head |-> 0, tail |-> 0, count |-> 0]

\* BM_Init: every buffer is free, in the order of its number.
FullRing(q) == [data  |-> [i \in DOMAIN q.data |-> IF i \in Buf THEN i ELSE q.data[i]],
                head  |-> 0, tail |-> NUM_BUF, count |-> NUM_BUF]
AllBufs == [i \in 1 .. NUM_BUF |-> i - 1]

Init ==
  /\ next = [c \in Cmd |-> NIL] /\ lists = [l \in List |-> NoList]
  /\ gaKeys = [c \in Cmd |-> NUM_IOCB]
  /\ dieQ = Zeros(NUM_QUE) /\ doneQ = Zeros(NUM_QUE) /\ run = NIL
  /\ free = FullRing(Zeros(NUM_BUF + 1)) /\ used = {}
  /\ fresh = {} /\ got = {} /\ nIdx = 0 /\ boot = 0
  /\ seq = [l \in List |-> <<>>] /\ dieSeq = <<>> /\ bufSeq = AllBufs

Ready == nIdx = NUM_NAND_CMD

\* IO_Free, as IO_Init calls it for each command.
InitFree ==
  /\ ~Ready
  /\ PushTail("Pool", nIdx)
  /\ gaKeys' = [gaKeys EXCEPT ![nIdx] = NUM_IOCB]
  /\ nIdx' = nIdx + 1
  /\ UNCHANGED <<dieVars, bufVars, ownVars, boot>>

\* FTL_Init after a restart: NFC_Init, gNCmdPool.Init, BM_Init.  Power goes
\* off when all commands are back in the pool (Ftl!QuietAtPowerOff).
Restart ==
  /\ Ready /\ boot < MaxBoot /\ lists["Pool"].count = NUM_NAND_CMD
  /\ lists' = [lists EXCEPT !["Pool"] = NoList]
  /\ seq' = [seq EXCEPT !["Pool"] = <<>>]
  /\ dieQ' = NewRing(dieQ) /\ doneQ' = NewRing(doneQ) /\ dieSeq' = <<>> /\ run' = NIL
  /\ free' = FullRing(free) /\ used' = {} /\ bufSeq' = AllBufs
  /\ nIdx' = 0 /\ boot' = boot + 1
  /\ UNCHANGED <<next, gaKeys, ownVars>>

-----------------------------------------------------------------------------
(* Commands.                                                               *)

IO_Alloc(k) ==
  /\ Ready
  /\ PopHead("Pool")
  /\ gaKeys' = [gaKeys EXCEPT ![lists["Pool"].head] = k]
  /\ fresh' = fresh \cup {lists["Pool"].head}
  /\ UNCHANGED <<dieVars, bufVars, got, nIdx, boot>>

NFC_Issue(c) ==
  /\ dieQ' = RingPush(dieQ, NUM_QUE, c)
  /\ dieSeq' = Append(dieSeq, c)
  /\ fresh' = fresh \ {c}
  /\ UNCHANGED <<queVars, doneQ, run, bufVars, got, nIdx, boot>>

\* nfc_HandleEvt: an idle die takes the next command.
Start ==
  /\ run = NIL /\ dieQ.count > 0
  /\ run' = RingHead(dieQ) /\ dieQ' = RingPop(dieQ, NUM_QUE)
  /\ dieSeq' = Tail(dieSeq)
  /\ UNCHANGED <<queVars, doneQ, bufVars, ownVars, nIdx, boot>>

\* nfc_DoneCmd and the callback it makes, io_CbDone: the command is pushed to
\* gstDoneQue, popped (NFC_GetDone) and pushed to the done list of its key.
Complete ==
  /\ run # NIL
  /\ LET q == RingPush(doneQ, NUM_QUE, run) IN
       /\ PushTail(gaKeys[RingHead(q)], RingHead(q))
       /\ doneQ' = RingPop(q, NUM_QUE)
  /\ run' = NIL
  /\ UNCHANGED <<gaKeys, dieQ, dieSeq, bufVars, ownVars, nIdx, boot>>

IO_PopDone(k) ==
  /\ PopHead(k)
  /\ got' = got \cup {lists[k].head}
  /\ UNCHANGED <<gaKeys, dieVars, bufVars, fresh, nIdx, boot>>

\* Mutant of IO_Free: the key stays.
IO_Free_Kept(c) ==
  /\ PushTail("Pool", c)
  /\ got' = got \ {c}
  /\ UNCHANGED <<gaKeys, dieVars, bufVars, fresh, nIdx, boot>>

IO_Free(c) ==
  /\ PushTail("Pool", c)
  /\ gaKeys' = [gaKeys EXCEPT ![c] = NUM_IOCB]
  /\ got' = got \ {c}
  /\ UNCHANGED <<dieVars, bufVars, fresh, nIdx, boot>>

(* Buffers.                                                                *)

BM_Alloc ==
  /\ Ready /\ free.count > 0
  /\ free' = RingPop(free, NUM_BUF + 1)
  /\ used' = used \cup {RingHead(free)}
  /\ bufSeq' = Tail(bufSeq)
  /\ UNCHANGED <<queVars, dieVars, ownVars, nIdx, boot>>

BM_Free(b) ==
  /\ free' = RingPush(free, NUM_BUF + 1, b)
  /\ used' = used \ {b}
  /\ bufSeq' = Append(bufSeq, b)
  /\ UNCHANGED <<queVars, dieVars, ownVars, nIdx, boot>>

Next ==
  \/ InitFree \/ Restart
  \/ \E k \in CbKeys : IO_Alloc(k) \/ IO_PopDone(k)
  \/ \E c \in fresh : NFC_Issue(c)
  \/ Start \/ Complete
  \/ \E c \in got : IO_Free(c)
  \/ BM_Alloc \/ \E b \in used : BM_Free(b)

Spec == Init /\ [][Next]_vars

-----------------------------------------------------------------------------
(* Properties.                                                             *)

\* A linked list is the sequence s: its head, its chain, its tail, its count.
Chained(q, s) ==
  /\ q.count = Len(s)
  /\ s = <<>> => q = NoList
  /\ s # <<>> => /\ q.head = s[1] /\ q.tail = s[Len(s)]
                 /\ \A i \in 1 .. Len(s) - 1 : next[s[i]] = s[i + 1]
                 /\ next[s[Len(s)]] = NIL

\* Where the i-th entry of a ring is.
Slot(h, i, size) == IF h + i - 1 < size THEN h + i - 1 ELSE h + i - 1 - size

\* A ring is the sequence s: no entry was overwritten or passed over.
Ringed(q, size, s) ==
  /\ q.count = Len(s) /\ q.count <= size
  /\ q.head \in 0 .. size - 1
  /\ q.tail = Slot(q.head, q.count + 1, size)
  /\ \A i \in 1 .. Len(s) : q.data[Slot(q.head, i, size)] = s[i]

\* The pool, the done lists, the queue of the die and the free buffers hold
\* exactly what was put into them and not yet taken, first in first out; the
\* asserts of templ.h (an empty list has no head, a ring is never over full)
\* cannot fire.  Two lists that share a command's pNext would break it.
QueuesHold ==
  /\ \A l \in List : Chained(lists[l], seq[l])
  /\ Ringed(dieQ, NUM_QUE, dieSeq)
  /\ Ringed(doneQ, NUM_QUE, <<>>)
  /\ Ringed(free, NUM_BUF + 1, bufSeq)

\* Where commands are, as sets.
Content(l) == Range(seq[l])
Listed     == UNION {Content(l) : l \in List}
Queued     == Range(dieSeq)
Owned      == fresh \cup got
InDie      == {run} \ {NIL}

NoTwice ==
  /\ \A l \in List : IsInjective(seq[l])
  /\ \A l, m \in List : l # m => Content(l) \cap Content(m) = {}
  /\ IsInjective(dieSeq) /\ IsInjective(bufSeq)

Apart ==
  /\ Queued \cap (Listed \cup Owned \cup InDie) = {}
  /\ Listed \cap (Owned \cup InDie) = {}
  /\ InDie \cap Owned = {} /\ fresh \cap got = {}
  /\ Listed \cup Queued \cup Owned \cup InDie = IF Ready THEN Cmd ELSE 0 .. nIdx - 1

KeysFit ==
  /\ \A k \in CbKeys : \A c \in Content(k) : gaKeys[c] = k
  /\ \A c \in Content("Pool") : gaKeys[c] = NUM_IOCB
  /\ \A c \in Queued \cup Owned \cup InDie : gaKeys[c] \in CbKeys

BufsOnce == Range(bufSeq) \cap used = {} /\ Range(bufSeq) \cup used = Buf

\* Every command is in one place and there once: the pool, a done list, the
\* queue of the die, the die or its owner's hands (while IO_Init has not come
\* to it: in none).  A done list holds its key's commands, the pool commands
\* of nobody.  Every buffer is either allocated or once in the free ring.
OnePlace == NoTwice /\ Apart /\ KeysFit /\ BufsOnce
=============================================================================
