------------------------------- MODULE FtlIo --------------------------------
(***************************************************************************)
(* The NAND command layer (ftl/io.cpp) over the NAND device (hw/nfc.cpp,   *)
(* hw/die.cpp).  There is one die: commands complete in the order they     *)
(* were issued, and the interrupt of each completion appends it to the     *)
(* done queue of the task family that issued it.                           *)
(***************************************************************************)
EXTENDS FtlSched, Sequences

CONSTANTS
  NUM_USER_BLK,     \* blocks for user data, numbered 0 .. NUM_USER_BLK - 1
  NUM_META_BLK,     \* blocks for meta data, numbered after the user blocks
  NUM_WL,           \* pages (word lines) of a block
  NUM_LPN,          \* logical pages
  NUM_NAND_CMD      \* size of the command pool

ASSUME SizeAssumption ==
  /\ NUM_USER_BLK \in Nat \ {0} /\ NUM_USER_BLK < 1023
  /\ NUM_META_BLK \in Nat \ {0}
  /\ NUM_WL \in Nat \ {0} /\ NUM_WL < 32767
  /\ NUM_LPN \in Nat \ {0}
  /\ NUM_NAND_CMD \in Nat \ {0}

VARIABLES
  die,    \* die[b][w]: what page w of block b holds
  nq,     \* commands issued and not completed, in issue order
  done    \* gaDone: completed commands not collected yet, per issuer

ioVars == <<die, nq, done>>

UBlk == 0 .. NUM_USER_BLK - 1
Blk  == 0 .. NUM_USER_BLK + NUM_META_BLK - 1
WL   == 0 .. NUM_WL - 1
LPN  == 0 .. NUM_LPN - 1

\* meta_MtBlk2PBN
MtBlk2PBN(bo) == NUM_USER_BLK + bo

CbKey == {"User", "Meta", "Mig", "UErs"}

\* Page contents.  The spare area of an erased page reads as MARK_ERS.
Erased == [k |-> "erased"]
DataPage(l, v) == [k |-> "data", lpn |-> l, ver |-> v]
IsErased(pg) == pg.k = "erased"
IsData(pg)   == pg.k = "data"

\* No host request: the commands of GC and META carry none.
NoReq == [cmd |-> "none"]

Cmd(op, cb, b, w, pg, r) ==
  [op |-> op, cb |-> cb, blk |-> b, wl |-> w, pg |-> pg, req |-> r]

ReadCmd(cb, b, w)      == Cmd("READ", cb, b, w, Erased, NoReq)
PgmCmd(cb, b, w, pg)   == Cmd("PGM", cb, b, w, pg, NoReq)
EraseCmd(cb, b)        == Cmd("ERB", cb, b, 0, Erased, NoReq)

IoInit ==
  /\ die = [b \in Blk |-> [w \in WL |-> Erased]]
  /\ nq = <<>>
  /\ done = [k \in CbKey |-> <<>>]

\* NFC_Issue of one command or of several.
Issue(cmds) == nq' = nq \o cmds

\* IO_PopDone followed by IO_Free: the command returns to the pool.
PopDone(k) == done' = [done EXCEPT ![k] = Tail(@)]

HasDone(k) == done[k] # <<>>
DoneHead(k) == Head(done[k])

Outstanding == Len(nq) + Len(done["User"]) + Len(done["Meta"])
                       + Len(done["Mig"]) + Len(done["UErs"])

\* IO_CountFree: the commands of the pool.
IO_CountFree == NUM_NAND_CMD - Outstanding

(***************************************************************************)
(* The die executes its oldest command and raises the completion interrupt *)
(* (io_CbDone).  A read returns the page as it is now.                     *)
(***************************************************************************)
NandDone ==
  /\ nq # <<>>
  /\ LET c == Head(nq) IN
     /\ die' = CASE c.op = "ERB" -> [die EXCEPT ![c.blk] = [w \in WL |-> Erased]]
                 [] c.op = "PGM" -> [die EXCEPT ![c.blk][c.wl] = c.pg]
                 [] OTHER        -> die
     /\ done' = [done EXCEPT ![c.cb] =
                   Append(@, IF c.op = "READ" THEN [c EXCEPT !.pg = die[c.blk][c.wl]]
                                              ELSE c)]
  /\ nq' = Tail(nq)
  /\ TrigAsync("NAND_CMD")
=============================================================================
