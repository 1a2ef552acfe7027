------------------------------ MODULE FtlMeta -------------------------------
(***************************************************************************)
(* The meta data (ftl/page_meta.cpp): the logical to physical map, the     *)
(* valid page count and state of every user block, the open block of each  *)
(* write stream, and the journal of map changes since the last save.  A    *)
(* save programs one page of the meta ring: the journal and the next slice *)
(* of the map.                                                             *)
(***************************************************************************)
EXTENDS FtlIo

CONSTANTS
  MAX_JNL_ENTRY,    \* entries of a journal
  NUM_MAP_SLICE     \* saves it takes to write the whole map

ASSUME MetaAssumption ==
  /\ MAX_JNL_ENTRY \in Nat \ {0}
  /\ NUM_MAP_SLICE \in Nat \ {0}

VARIABLES
  map,        \* gstMeta.astL2P
  vpc,        \* gstMeta.astBI[].nVPC
  bst,        \* gstMeta.astBI[].eState
  opn,        \* gaOpen: the next address of each write stream
  jnl,        \* gstJnlSet
  gbRequest,  \* a save is requested
  mctx,       \* gstMetaCtx: where, with which age and slice, to save next
  mt          \* the step of the META task

mapVars == <<map, vpc, bst, opn>>
jnlVars == <<jnl, gbRequest>>

OpenType == {"USER", "GC"}
BlkState == {"Closed", "Open", "Victim", "InFree"}

\* A VAddr.  All bits set (FF32) means unmapped: nBN has 10 bits, nWL 15.
VAddr(b, w) == [blk |-> b, wl |-> w]
FF32 == VAddr(1023, 32767)

\* Slice of the map that holds the entry of l.
SliceOf(l) == (l * NUM_MAP_SLICE) \div NUM_LPN

\* Blocks that hold the valid page of some logical page, counted.
CountValid(m, b) == Cardinality({l \in LPN : m[l].blk = b})

-----------------------------------------------------------------------------
(* The journal: JnlSet.                                                    *)

EmptyJnl == [busy |-> FALSE, ent |-> <<>>]

JnlWrite(l, a, o) == [t |-> "W", opn |-> o, lpn |-> l, addr |-> a]
JnlErase(b, o)    == [t |-> "ERB", opn |-> o, blk |-> b]

\* AddWrite and AddErase return JR_Busy otherwise.
JnlAccepts == ~jnl.busy /\ Len(jnl.ent) < MAX_JNL_ENTRY

\* The journal after AddWrite; it becomes busy when the entry fills it.
JnlPlusWrite(l, a, o) ==
  LET e == Append(jnl.ent, JnlWrite(l, a, o))
  IN  [busy |-> Len(e) = MAX_JNL_ENTRY, ent |-> e]

\* Mutant of JnlPlusErase: the journal takes more entries after an erase.
JnlPlusErase_NotBusy(b, o) ==
  LET e == Append(jnl.ent, JnlErase(b, o))
  IN  [busy |-> Len(e) = MAX_JNL_ENTRY, ent |-> e]

\* The journal after AddErase: always busy, an erase must be saved at once.
JnlPlusErase(b, o) == [busy |-> TRUE, ent |-> Append(jnl.ent, JnlErase(b, o))]

-----------------------------------------------------------------------------
(* Operations the other tasks call.                                        *)

META_Ready == mt = "Ready"

\* Mutant of VpcMoved: an overwritten page stays counted.
VpcMoved_NoDecrement(old, new) ==
  [b \in UBlk |-> vpc[b] + (IF new.blk = b THEN 1 ELSE 0)]

\* vpc when the entry of a logical page changes from `old' to `new'.
VpcMoved(old, new) ==
  [b \in UBlk |-> vpc[b] - (IF old.blk = b THEN 1 ELSE 0)
                         + (IF new.blk = b THEN 1 ELSE 0)]

META_GetMap(l) == IF l \in LPN THEN map[l] ELSE FF32

\* META_Update of l returns JR_Busy and does nothing.
UpdateBusy(l) == l \in LPN /\ ~JnlAccepts

\* META_Update otherwise; a page outside the map is ignored.
MetaUpdate(l, a, o) ==
  /\ ~UpdateBusy(l)
  /\ IF l \in LPN
     THEN /\ jnl' = JnlPlusWrite(l, a, o)
          /\ map' = [map EXCEPT ![l] = a]
          /\ vpc' = VpcMoved(map[l], a)
     ELSE UNCHANGED <<jnl, map, vpc>>

\* META_ReqSave, unless `asked' is FALSE; its event is in META_ReqEvt.
META_ReqSave(asked) == gbRequest' = (gbRequest \/ asked)

META_ReqEvt(asked)  == IF asked THEN {"META"} ELSE {}

\* META_SetOpen of a freshly erased block.
META_SetOpen(o, b) ==
  /\ opn' = [opn EXCEPT ![o] = VAddr(b, 0)]
  /\ bst' = [bst EXCEPT ![b] = "Open"]

-----------------------------------------------------------------------------
(* Saving: meta_Save_SM, called by meta_Run.  PAGE_PER_META is 1, so one   *)
(* command is under way at a time.                                         *)

SavedPage ==
  [k |-> "meta", age |-> mctx.age, slice |-> mctx.slice, ent |-> jnl.ent,
   map |-> [l \in {x \in LPN : SliceOf(x) = mctx.slice} |-> map[l]]]

MetaPgm   == PgmCmd("Meta", MtBlk2PBN(mctx.bo), mctx.wl, SavedPage)
MetaErase == EraseCmd("Meta", MtBlk2PBN(mctx.bo))

\* Mutant of NextSave: the slice is not advanced.
NextSave_SameSlice ==
  LET full == mctx.wl + 1 >= NUM_WL
  IN  [age   |-> mctx.age + 1,
       slice |-> mctx.slice,
       wl    |-> IF full THEN 0 ELSE mctx.wl + 1,
       bo    |-> IF full THEN (mctx.bo + 1) % NUM_META_BLK ELSE mctx.bo]

\* gstMetaCtx after a page of the ring has been programmed.
NextSave ==
  LET full == mctx.wl + 1 >= NUM_WL
  IN  [age   |-> mctx.age + 1,
       slice |-> (mctx.slice + 1) % NUM_MAP_SLICE,
       wl    |-> IF full THEN 0 ELSE mctx.wl + 1,
       bo    |-> IF full THEN (mctx.bo + 1) % NUM_META_BLK ELSE mctx.bo]

MetaIdle ==
  /\ mt = "Ready" /\ ~gbRequest
  /\ WaitFor(TID_META, {"META"}, {})
  /\ UNCHANGED <<ioVars, mapVars, jnlVars, mctx, mt>>

\* Mutant of MetaNeedsErase: one page late.
MetaNeedsErase_Late == mctx.wl = NUM_WL - 1
MetaNeedsErase == mctx.wl = 0

MetaSaveStart ==
  /\ mt = "Ready" /\ gbRequest
  /\ gbRequest' = FALSE
  /\ IF MetaNeedsErase
     THEN mt' = "SaveErase" /\ Issue(<<MetaErase>>)
     ELSE mt' = "SaveProgram" /\ Issue(<<MetaPgm>>)
  /\ WaitFor(TID_META, {"NAND_CMD"}, {})
  /\ UNCHANGED <<die, done, mapVars, jnl, mctx>>

MetaSaveWait ==
  /\ mt \in {"SaveErase", "SaveProgram"} /\ ~HasDone("Meta")
  /\ WaitFor(TID_META, {"NAND_CMD"}, {})
  /\ UNCHANGED <<ioVars, mapVars, jnlVars, mctx, mt>>

MetaSaveErased ==
  /\ mt = "SaveErase" /\ HasDone("Meta")
  /\ PopDone("Meta")
  /\ Issue(<<MetaPgm>>)
  /\ mt' = "SaveProgram"
  /\ WaitFor(TID_META, {"NAND_CMD"}, {"IO_FREE"})
  /\ UNCHANGED <<die, mapVars, jnlVars, mctx>>

\* Mutant of MetaSaveDone: the journal is not started anew.
MetaSaveDone_KeepsJnl ==
  /\ mt = "SaveProgram" /\ HasDone("Meta")
  /\ PopDone("Meta")
  /\ mctx' = NextSave
  /\ mt' = "Ready"
  /\ Yield(TID_META, {"IO_FREE", "META"})
  /\ UNCHANGED <<die, nq, mapVars, jnl, gbRequest>>

\* The page is programmed: META_StartJnl empties the journal, EVT_META.
MetaSaveDone ==
  /\ mt = "SaveProgram" /\ HasDone("Meta")
  /\ PopDone("Meta")
  /\ mctx' = NextSave
  /\ jnl' = EmptyJnl
  /\ mt' = "Ready"
  /\ Yield(TID_META, {"IO_FREE", "META"})
  /\ UNCHANGED <<die, nq, mapVars, gbRequest>>

MetaSave ==
  MetaIdle \/ MetaSaveStart \/ MetaSaveWait \/ MetaSaveErased \/ MetaSaveDone
=============================================================================
