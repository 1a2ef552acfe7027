----------------------------- MODULE MapProofs ------------------------------
(***************************************************************************)
(* Counting. The counts of valid pages agree with the map at every moment  *)
(* the map is in use (MapIntegrity), for every size of the device. And     *)
(* what is under way: the commands of an issuer are those queued in the    *)
(* die and those completed but not collected; how many of an issuer and a  *)
(* kind a sequence holds, what Append, concatenation and Tail do to that,  *)
(* what issuing, completing and collecting does to the commands of each    *)
(* issuer, and the last of an issuer in the queue.                         *)
(***************************************************************************)
EXTENDS Ftl, FiniteSetTheorems, SequenceTheorems, WellFoundedInduction, TLAPS

-----------------------------------------------------------------------------
(* Counting the pages of a block.                                          *)

LEMMA LpnFinite == IsFiniteSet(LPN)
<1>1. 0 \in Int /\ NUM_LPN - 1 \in Int
  BY SizeAssumption
<1>. QED
  BY <1>1, FS_Interval DEF LPN

(* The pages m maps to b are finitely many, so their count is a number.    *)
LEMMA CountType ==
  ASSUME NEW m, NEW b
  PROVE  /\ IsFiniteSet({l \in LPN : m[l].blk = b})
         /\ CountValid(m, b) \in Nat
<1>1. IsFiniteSet({l \in LPN : m[l].blk = b})
  <2>1. {l \in LPN : m[l].blk = b} \subseteq LPN
    OBVIOUS
  <2>. QED
    BY <2>1, LpnFinite, FS_Subset
<1>. QED
  BY <1>1, FS_CardinalityType DEF CountValid

(* Where a logical page moves from one block to another, the first loses   *)
(* one page and the second gains one: what META_Update does to nVPC is     *)
(* what happens to the counts.                                             *)
LEMMA CountMoved ==
  ASSUME NEW m, NEW n, NEW l \in LPN, NEW b,
         \A x \in LPN : x # l => n[x] = m[x]
  PROVE  CountValid(n, b) = CountValid(m, b) - (IF m[l].blk = b THEN 1 ELSE 0)
                                             + (IF n[l].blk = b THEN 1 ELSE 0)
<1> DEFINE P == {x \in LPN : m[x].blk = b}
           Q == {x \in LPN : n[x].blk = b}
           R == {x \in LPN \ {l} : m[x].blk = b}
<1>1. IsFiniteSet(R)
  <2>1. R \subseteq LPN
    OBVIOUS
  <2>. QED
    BY <2>1, LpnFinite, FS_Subset
<1>2. l \notin R
  OBVIOUS
<1>3. P = IF m[l].blk = b THEN R \cup {l} ELSE R
  OBVIOUS
<1>4. Q = IF n[l].blk = b THEN R \cup {l} ELSE R
  OBVIOUS
<1>5. Cardinality(R \cup {l}) = Cardinality(R) + 1 /\ Cardinality(R) \in Nat
  BY <1>1, <1>2, FS_AddElement, FS_CardinalityType
<1>6. Cardinality(P) = IF m[l].blk = b THEN Cardinality(R) + 1 ELSE Cardinality(R)
  BY <1>3, <1>5
<1>7. Cardinality(Q) = IF n[l].blk = b THEN Cardinality(R) + 1 ELSE Cardinality(R)
  BY <1>4, <1>5
<1> HIDE DEF P, Q, R
<1>8. CountValid(m, b) = Cardinality(P) /\ CountValid(n, b) = Cardinality(Q)
  BY DEF CountValid, P, Q
<1>. QED
  BY <1>5, <1>6, <1>7, <1>8

(* Nothing is mapped: no block holds a valid page.                         *)
LEMMA CountUnmapped ==
  ASSUME NEW b \in UBlk
  PROVE  CountValid(AllUnmapped, b) = 0
<1>1. b # 1023
  BY SizeAssumption DEF UBlk
<1>2. {l \in LPN : AllUnmapped[l].blk = b} = {}
  BY <1>1 DEF AllUnmapped, FF32, VAddr
<1>. QED
  BY <1>2, FS_EmptySet DEF CountValid

-----------------------------------------------------------------------------
(* The inductive invariant.  The map may only be counted on where it is    *)
(* loaded, so the invariant must also say that nobody but META touches it  *)
(* before, and that a device found empty (meta_Format) has an empty map.   *)

Counted == \A b \in UBlk : vpc[b] = CountValid(map, b)

Opening == mt \in {"Init", "Open", "Assert"}

MapInv ==
  /\ "step" \in DOMAIN os
  /\ map = [l \in LPN |-> map[l]]
  /\ Opening => reqSt = "WaitOpen" /\ gcSt = "WaitOpen"
  /\ Phase("BlkScan") => map = AllUnmapped
  /\ Loaded \/ Scanning => Counted

(* META_Update keeps map and counts in step, for any address.              *)
LEMMA UpdateKeepsCounts ==
  ASSUME map = [x \in LPN |-> map[x]],
         NEW l, NEW a, NEW o, MetaUpdate(l, a, o), Counted
  PROVE  Counted'
<1>1. CASE l \notin LPN
  BY <1>1 DEF MetaUpdate, Counted, CountValid
<1>2. CASE l \in LPN
  <2>1. /\ map' = [map EXCEPT ![l] = a]
        /\ vpc' = VpcMoved(map[l], a)
    BY <1>2 DEF MetaUpdate
  <2>2. map'[l] = a /\ \A x \in LPN : x # l => map'[x] = map[x]
    BY <1>2, <2>1
  <2>3. SUFFICES ASSUME NEW b \in UBlk
                 PROVE  vpc'[b] = CountValid(map', b)
    BY DEF Counted, CountValid
  <2>4. vpc'[b] = CountValid(map, b) - (IF map[l].blk = b THEN 1 ELSE 0)
                                     + (IF a.blk = b THEN 1 ELSE 0)
    BY <2>1 DEF VpcMoved, Counted
  <2>5. CountValid(map', b) = CountValid(map, b) - (IF map[l].blk = b THEN 1 ELSE 0)
                                                 + (IF map'[l].blk = b THEN 1 ELSE 0)
    BY <1>2, <2>2, CountMoved
  <2>. QED
    BY <2>2, <2>4, <2>5
<1>. QED
  BY <1>1, <1>2

LEMMA UpdateKeepsDomain ==
  ASSUME map = [x \in LPN |-> map[x]], NEW l, NEW a, NEW o, MetaUpdate(l, a, o)
  PROVE  map' = [x \in LPN |-> map'[x]]
  BY DEF MetaUpdate

(* A step of REQ, GC or the host that leaves the map alone.                *)
LEMMA MapKept ==
  ASSUME MapInv, UNCHANGED <<map, vpc, mt, os>>,
         Opening => UNCHANGED <<reqSt, gcSt>>
  PROVE  MapInv'
  BY DEF MapInv, Opening, Phase, Loaded, Scanning, Counted, CountValid

(* A step of REQ or GC that updates it: the map is loaded then.            *)
LEMMA MapUpdated ==
  ASSUME MapInv, NEW l, NEW a, NEW o, MetaUpdate(l, a, o),
         UNCHANGED <<mt, os>>, ~Opening
  PROVE  MapInv'
<1>1. map' = [x \in LPN |-> map'[x]]
  BY UpdateKeepsDomain DEF MapInv
<1>2. Loaded \/ Scanning => Counted'
  BY UpdateKeepsCounts DEF MapInv
<1>. QED
  BY <1>1, <1>2 DEF MapInv, Opening, Phase, Loaded, Scanning

-----------------------------------------------------------------------------
(* Every step keeps it.                                                    *)

LEMMA ReqKeepsMap ==
  ASSUME MapInv, Req_Run \/ ReqResp_Run
  PROVE  MapInv'
<1> USE DEF otherThanReq, mapVars, openVars, reqVars, gcVars
<1>1. CASE ReqWaitOpen
  BY <1>1, MapKept DEF ReqWaitOpen
<1>2. CASE ReqOpened
  <2>1. ~Opening
    BY <1>2 DEF ReqOpened, META_Ready, Opening
  <2>. QED
    BY <1>2, <2>1, MapKept DEF ReqOpened
<1>3. CASE ReqIdle
  BY <1>3, MapKept DEF ReqIdle
<1>4. ASSUME NEW r, NEW at, Handling(r, at), ReqStep(r, at)
      PROVE  MapInv'
  <2>1. ~Opening
    BY <1>4 DEF Handling, MapInv
  <2>2. CASE ReqReadMapped(r, at)
    BY <2>1, <2>2, MapKept DEF ReqReadMapped
  <2>3. CASE ReqReadUnmapped(r, at)
    BY <2>1, <2>3, MapKept DEF ReqReadUnmapped
  <2>4. CASE ReqNeedsBlk(r, at)
    BY <2>1, <2>4, MapKept DEF ReqNeedsBlk
  <2>5. CASE ReqErasing(r, at)
    BY <2>1, <2>5, MapKept DEF ReqErasing
  <2>6. CASE ReqNewBlk(r, at)
    BY <2>1, <2>6, MapKept DEF ReqNewBlk
  <2>7. CASE ReqProgram(r, at)
    BY <2>1, <2>7, MapUpdated DEF ReqProgram
  <2>8. CASE ReqJnlBusy(r, at)
    BY <2>1, <2>8, MapKept DEF ReqJnlBusy
  <2>9. CASE ShutdownWaitIo(r, at)
    BY <2>1, <2>9, MapKept DEF ShutdownWaitIo
  <2>10. CASE ShutdownSudden(r, at)
    BY <2>1, <2>10, MapKept DEF ShutdownSudden
  <2>11. CASE ShutdownSave(r, at)
    BY <2>1, <2>11, MapKept DEF ShutdownSave
  <2>12. CASE ShutdownSaving(r, at)
    BY <2>1, <2>12, MapKept DEF ShutdownSaving
  <2>13. CASE ShutdownSaved(r, at)
    BY <2>1, <2>13, MapKept DEF ShutdownSaved
  <2>. QED
    BY <1>4, <2>2, <2>3, <2>4, <2>5, <2>6, <2>7, <2>8, <2>9, <2>10, <2>11, <2>12,
       <2>13 DEF ReqStep
<1>5. CASE ReqResp_Run
  BY <1>5, MapKept DEF ReqResp_Run, RespWait, RespDone
<1>. QED
  BY <1>1, <1>2, <1>3, <1>4, <1>5 DEF Req_Run

LEMMA GcKeepsMap ==
  ASSUME MapInv, GC_Run, UNCHANGED reqVars
  PROVE  MapInv'
<1> USE DEF otherThanGc, openVars, reqVars, gcVars
<1>1. CASE GcWaitOpen
  BY <1>1, MapKept DEF GcWaitOpen
<1>2. CASE GcResume
  <2>1. ~Opening
    BY <1>2 DEF GcResume, META_Ready, Opening
  <2>. QED
    BY <1>2, <2>1, MapKept DEF GcResume
<1>3. CASE GcOpened
  <2>1. ~Opening
    BY <1>3 DEF GcOpened, META_Ready, Opening
  <2>. QED
    BY <1>3, <2>1, MapKept DEF GcOpened
<1>4. CASE gcSt # "WaitOpen"
  <2>1. ~Opening
    BY <1>4 DEF MapInv
  <2>2. CASE GcReadMoved
    BY <2>1, <2>2, MapUpdated DEF GcReadMoved
  <2>3. CASE GcWaitReq \/ GcGetDst \/ GcErsDst \/ GcErsDstDone \/ GcStop
    BY <2>1, <2>3, MapKept DEF GcWaitReq, GcGetDst, GcErsDst, GcErsDstDone, GcStop
  <2>4. CASE \/ GcPgmDone \/ GcReadDropped \/ GcDstFull \/ GcNewSrc
             \/ GcReadNext \/ GcSrcDone \/ GcMoveWait
    BY <2>1, <2>4, MapKept
       DEF GcPgmDone, GcReadDropped, GcDstFull, GcNewSrc, GcReadNext, GcSrcDone, GcMoveWait
  <2>. QED
    BY <1>4, <2>2, <2>3, <2>4 DEF GC_Run, GcMove, GcWaitOpen, GcResume, GcOpened
<1>. QED
  BY <1>1, <1>2, <1>3, <1>4
     DEF GC_Run, GcMove, GcWaitReq, GcGetDst, GcErsDst, GcErsDstDone, GcStop,
         GcPgmDone, GcReadMoved, GcReadDropped, GcDstFull, GcNewSrc, GcReadNext,
         GcSrcDone, GcMoveWait, Moving, Collected

LEMMA SaveKeepsMap ==
  ASSUME MapInv, MetaSave, UNCHANGED <<os, reqSt, gcSt>>
  PROVE  MapInv'
<1>1. UNCHANGED <<map, vpc>> /\ ~Opening /\ ~Opening' /\ Loaded
  BY DEF MetaSave, MetaIdle, MetaSaveStart, MetaSaveWait, MetaSaveErased, MetaSaveDone,
         mapVars, Opening, Loaded
<1>. QED
  BY <1>1 DEF MapInv, Opening, Phase, Loaded, Scanning, Counted, CountValid

LEMMA OpenKeepsMap ==
  ASSUME MapInv, MetaOpen, UNCHANGED <<reqSt, gcSt>>
  PROVE  MapInv'
<1> USE DEF mapVars, openVars, jnlVars
<1>1. CASE MetaInit
  BY <1>1 DEF MetaInit, OsIdle, MapInv, Opening, Phase, Loaded, Scanning, AllUnmapped
<1>2. CASE BlkScanIssue \/ BlkScanPop \/ BlkScanReturn
  <2>1. UNCHANGED <<map, mt>> /\ Phase("BlkScan")
    BY <1>2 DEF BlkScanIssue, BlkScanPop, BlkScanReturn
  <2>2. os'.step = os.step /\ "step" \in DOMAIN os'
    BY <1>2 DEF BlkScanIssue, BlkScanPop, BlkScanReturn, MapInv
  <2>. QED
    BY <2>1, <2>2 DEF MapInv, Opening, Phase, Loaded, Scanning
<1>3. CASE MetaFormat
  <2>1. /\ map' = AllUnmapped /\ vpc' = [b \in UBlk |-> 0]
        /\ mt' = "Ready"
        /\ os' = OsIdle
    BY <1>3 DEF MetaFormat, MapInv
  <2>2. Counted'
    BY <2>1, CountUnmapped DEF Counted, CountValid
  <2>. QED
    BY <2>1, <2>2 DEF MapInv, Opening, Phase, AllUnmapped, OsIdle
<1>4. CASE \/ BlkScanDone \/ PageScanPop \/ PageScanReturn \/ PageScanDone
           \/ MtLoadPop \/ MtLoadReturn
  <2>1. /\ map' = [l \in LPN |-> map'[l]]
        /\ mt = "Open" /\ mt' \in {"Open", "Assert"}
        /\ os'.step \in {"PageScan", "MtLoad"} /\ "step" \in DOMAIN os'
    BY <1>4 DEF BlkScanDone, PageScanPop, PageScanReturn, PageScanDone, MtLoadPop,
                MtLoadReturn, Phase, OsIdle, AllUnmapped, MapInv
  <2>. QED
    BY <2>1 DEF MapInv, Opening, Phase, Loaded, Scanning
<1>5. CASE MtLoadDone
  <2>1. map' = map /\ mt = "Open" /\ mt' = mt /\ os' = [OsIdle EXCEPT !.step = "GcScan"]
    BY <1>5 DEF MtLoadDone, Phase
  <2>2. Counted'
    BY <1>5 DEF MtLoadDone, RecountVpc, Counted, CountValid
  <2>. QED
    BY <2>1, <2>2 DEF MapInv, Opening, Phase, OsIdle
<1>6. ASSUME NEW o \in OpenType, ScanPop(o)
      PROVE  MapInv'
  <2>1. Scanning /\ UNCHANGED <<mt, os>>
    BY <1>6 DEF ScanPop, ScanPhase, Scanning
  <2>2. CASE UNCHANGED <<map, vpc>>
    BY <2>1, <2>2, MapKept
  <2>3. ASSUME NEW l, NEW a, MetaUpdate(l, a, o)
        PROVE  MapInv'
    <3>1. Counted' /\ map' = [x \in LPN |-> map'[x]]
      BY <2>1, <2>3, UpdateKeepsCounts, UpdateKeepsDomain DEF MapInv
    <3>. QED
      BY <2>1, <3>1 DEF MapInv, Opening, Phase, Scanning
  <2>. QED
    BY <1>6, <2>2, <2>3 DEF ScanPop
<1>7. CASE \E o \in OpenType : ScanReturn(o)
  BY <1>7, MapKept DEF ScanReturn
<1>8. CASE GcScanDone
  <2>1. /\ UNCHANGED <<map, vpc, mt>> /\ Scanning /\ mt = "Open"
        /\ os' = [OsIdle EXCEPT !.step = "UserScan"]
    BY <1>8 DEF GcScanDone, ScanOver, ScanPhase, Scanning, Phase
  <2>. QED
    BY <2>1 DEF MapInv, Opening, Phase, Loaded, Scanning, Counted, CountValid, OsIdle
<1>9. CASE UserScanDone
  <2>1. UNCHANGED <<map, vpc>> /\ Scanning /\ mt' = "Ready" /\ os' = OsIdle
    BY <1>9 DEF UserScanDone, ScanOver, ScanPhase, Scanning
  <2>. QED
    BY <2>1 DEF MapInv, Opening, Phase, Counted, CountValid, OsIdle
<1>. QED
  BY <1>1, <1>2, <1>3, <1>4, <1>5, <1>6, <1>7, <1>8, <1>9 DEF MetaOpen

LEMMA MapInductive ==
  ASSUME MapInv, [Next]_vars
  PROVE  MapInv'
<1>1. CASE TaskReq \/ TaskResp
  BY <1>1, ReqKeepsMap DEF TaskReq, TaskResp
<1>2. CASE TaskGc
  BY <1>2, GcKeepsMap DEF TaskGc
<1>3. CASE TaskMeta
  BY <1>3, SaveKeepsMap, OpenKeepsMap DEF TaskMeta, openVars, reqVars, gcVars
<1>4. CASE SchedRound \/ Nand
  BY <1>4, MapKept
     DEF SchedRound, RoundWith, otherThanSched, Nand, mapVars, openVars, reqVars, gcVars
<1>5. CASE Host
  <2>1. PICK r : Submit(r)
    BY <1>5 DEF Host, HostWrite, HostRead, HostShutdown
  <2>. QED
    BY <2>1, MapKept DEF Submit, mapVars, openVars, gcVars
<1>6. CASE PowerCycle
  BY <1>6 DEF PowerCycle, MapInv, Phase, Loaded, Scanning, AllUnmapped, OsIdle
<1>7. CASE UNCHANGED vars
  BY <1>7, MapKept DEF vars, mapVars, openVars, reqVars, gcVars
<1>. QED
  BY <1>1, <1>2, <1>3, <1>4, <1>5, <1>6, <1>7 DEF Next, Task

(* dbg_MapIntegrity holds at every moment from the end of the load on, in  *)
(* every execution: REQ, GC and the scans change map and counts together,  *)
(* and loading or formatting makes them agree.                             *)
THEOREM MapIntegrityHolds == Spec => []MapIntegrity
<1>1. Init => MapInv
  BY DEF Init, GcInit, ReqInit, MapInv, Phase, Loaded, Scanning, AllUnmapped, OsIdle
<1>2. MapInv /\ [Next]_vars => MapInv'
  BY MapInductive
<1>3. MapInv => MapIntegrity
  BY DEF MapInv, MapIntegrity, Counted
<1>. QED
  BY <1>1, <1>2, <1>3, PTL DEF Spec

-----------------------------------------------------------------------------
(* Counting the commands of a queue.                                       *)

Ops == {"READ", "PGM", "ERB"}

Elems(s) == {s[i] : i \in DOMAIN s}
IsSeq(s) == s \in Seq(Elems(s))

\* The commands of s that are of a key in K and of the kind o, by their index.
Hits(s, K, o) == {i \in DOMAIN s : s[i].cb \in K /\ s[i].op = o}
Num(s, K, o)  == Cardinality(Hits(s, K, o))
Match(c, K, o) == c.cb \in K /\ c.op = o

LEMMA SeqOfAny ==
  ASSUME NEW S, NEW s \in Seq(S)
  PROVE  IsSeq(s) /\ Elems(s) \subseteq S
<1>1. Len(s) \in Nat /\ DOMAIN s = 1 .. Len(s) /\ s \in [1 .. Len(s) -> S]
  BY LenProperties
<1>2. s \in [1 .. Len(s) -> Elems(s)]
  BY <1>1 DEF Elems
<1>3. s \in Seq(Elems(s))
  BY <1>1, <1>2
<1>4. Elems(s) \subseteq S
  BY <1>1 DEF Elems
<1>. QED
  BY <1>3, <1>4 DEF IsSeq

LEMMA SeqFacts ==
  ASSUME NEW s, IsSeq(s)
  PROVE  Len(s) \in Nat /\ DOMAIN s = 1 .. Len(s)
  BY LenProperties DEF IsSeq

LEMMA NumType ==
  ASSUME NEW s, IsSeq(s), NEW K, NEW o
  PROVE  /\ IsFiniteSet(Hits(s, K, o)) /\ Num(s, K, o) \in Nat
         /\ Num(s, K, o) = 0 <=> \A c \in Elems(s) : ~Match(c, K, o)
<1>1. Len(s) \in Nat /\ DOMAIN s = 1 .. Len(s)
  BY SeqFacts
<1>2. IsFiniteSet(1 .. Len(s))
  BY <1>1, FS_Interval
<1>3. Hits(s, K, o) \subseteq 1 .. Len(s)
  BY <1>1 DEF Hits
<1>4. IsFiniteSet(Hits(s, K, o))
  BY <1>2, <1>3, FS_Subset
<1>5. Num(s, K, o) \in Nat /\ (Num(s, K, o) = 0 <=> Hits(s, K, o) = {})
  BY <1>4, FS_CardinalityType, FS_EmptySet DEF Num
<1>6. Hits(s, K, o) = {} <=> \A c \in Elems(s) : ~Match(c, K, o)
  BY DEF Hits, Elems, Match
<1>. QED
  BY <1>4, <1>5, <1>6

LEMMA NoneFacts ==
  ASSUME NEW K, NEW o
  PROVE  IsSeq(<<>>) /\ Elems(<<>>) = {} /\ Num(<<>>, K, o) = 0
<1>1. IsSeq(<<>>) /\ Elems(<<>>) = {}
  BY DEF IsSeq, Elems
<1>. QED
  BY <1>1, NumType

LEMMA OneFacts ==
  ASSUME NEW c, NEW K, NEW o
  PROVE  /\ IsSeq(<<c>>) /\ Elems(<<c>>) = {c} /\ Len(<<c>>) = 1
         /\ Num(<<c>>, K, o) = IF Match(c, K, o) THEN 1 ELSE 0
<1>1. <<c>> \in Seq({c}) /\ Len(<<c>>) = 1 /\ <<c>>[1] = c /\ DOMAIN <<c>> = {1}
  OBVIOUS
<1>2. IsSeq(<<c>>)
  BY <1>1, SeqOfAny
<1>4. Elems(<<c>>) = {c}
  <2>1. Elems(<<c>>) = {<<c>>[i] : i \in {1}}
    BY <1>1 DEF Elems
  <2>. QED
    BY <1>1, <2>1
<1>3. Hits(<<c>>, K, o) = IF Match(c, K, o) THEN {1} ELSE {}
  BY <1>1 DEF Hits, Match
<1>. QED
  BY <1>1, <1>2, <1>3, <1>4, FS_Singleton, FS_EmptySet DEF Num

(* Two queues one after the other hold what both hold.                     *)
LEMMA ConcatFacts ==
  ASSUME NEW s, NEW t, IsSeq(s), IsSeq(t)
  PROVE  /\ IsSeq(s \o t) /\ Elems(s \o t) = Elems(s) \cup Elems(t)
         /\ Len(s \o t) = Len(s) + Len(t)
         /\ \A K, o : Num(s \o t, K, o) = Num(s, K, o) + Num(t, K, o)
<1> DEFINE S == Elems(s) \cup Elems(t)
           u == s \o t
<1>1. s \in Seq(S) /\ t \in Seq(S)
  BY SeqMonotonic DEF IsSeq
<1>2. /\ u \in Seq(S)
      /\ Len(u) = Len(s) + Len(t)
      /\ \A i \in 1 .. Len(s) + Len(t) : u[i] = IF i <= Len(s) THEN s[i] ELSE t[i - Len(s)]
  BY <1>1, ConcatProperties
<1>3. /\ Len(s) \in Nat /\ DOMAIN s = 1 .. Len(s)
      /\ Len(t) \in Nat /\ DOMAIN t = 1 .. Len(t)
  BY SeqFacts
<1>4. IsSeq(u) /\ Elems(u) \subseteq S /\ DOMAIN u = 1 .. Len(u)
  BY <1>2, SeqOfAny, SeqFacts
<1> HIDE DEF u, S
<1>5. S \subseteq Elems(u)
  <2>1. SUFFICES ASSUME NEW c \in S
                 PROVE  \E i \in DOMAIN u : u[i] = c
    BY DEF Elems
  <2>2. CASE c \in Elems(s)
    <3>1. PICK i \in 1 .. Len(s) : s[i] = c
      BY <2>2, <1>3 DEF Elems
    <3>2. i \in 1 .. Len(s) + Len(t) /\ i <= Len(s)
      BY <1>3
    <3>. QED
      BY <3>1, <3>2, <1>2, <1>4
  <2>3. CASE c \in Elems(t)
    <3>1. PICK j \in 1 .. Len(t) : t[j] = c
      BY <2>3, <1>3 DEF Elems
    <3>2. Len(s) + j \in 1 .. Len(s) + Len(t) /\ ~(Len(s) + j <= Len(s))
          /\ Len(s) + j - Len(s) = j
      BY <1>3
    <3>3. u[Len(s) + j] = t[j]
      BY <3>2, <1>2
    <3>. QED
      BY <3>1, <3>2, <3>3, <1>2, <1>4
  <2>. QED
    BY <2>2, <2>3 DEF S
<1>6. ASSUME NEW K, NEW o
      PROVE  Num(u, K, o) = Num(s, K, o) + Num(t, K, o)
  <2> DEFINE A == Hits(s, K, o)
             T == Hits(t, K, o)
             B == {i \in Len(s) + 1 .. Len(s) + Len(t) : Match(t[i - Len(s)], K, o)}
             f == [j \in T |-> j + Len(s)]
  <2>1. IsFiniteSet(A) /\ IsFiniteSet(T)
    BY NumType
  <2>2. A \subseteq 1 .. Len(s) /\ T \subseteq 1 .. Len(t)
    BY <1>3 DEF Hits
  <2>3. f \in Bijection(T, B)
    <3>1. f \in [T -> B]
      <4>1. SUFFICES ASSUME NEW j \in T
                     PROVE  j + Len(s) \in B
        OBVIOUS
      <4>2. j \in 1 .. Len(t) /\ Match(t[j], K, o)
        BY <1>3 DEF Hits, Match
      <4>3. j + Len(s) \in Len(s) + 1 .. Len(s) + Len(t) /\ j + Len(s) - Len(s) = j
        BY <1>3, <4>2
      <4>. QED
        BY <4>2, <4>3
    <3>2. \A i, j \in T : f[i] = f[j] => i = j
      <4>1. SUFFICES ASSUME NEW i \in T, NEW j \in T, i + Len(s) = j + Len(s)
                     PROVE  i = j
        OBVIOUS
      <4>2. i \in Int /\ j \in Int
        BY <2>2
      <4>. QED
        BY <4>1, <4>2, <1>3
    <3>3. \A b \in B : \E j \in T : f[j] = b
      <4>1. SUFFICES ASSUME NEW b \in B
                     PROVE  \E j \in T : f[j] = b
        OBVIOUS
      <4>2. b \in Len(s) + 1 .. Len(s) + Len(t) /\ Match(t[b - Len(s)], K, o)
        OBVIOUS
      <4>3. b - Len(s) \in 1 .. Len(t) /\ (b - Len(s)) + Len(s) = b
        BY <4>2, <1>3
      <4>4. b - Len(s) \in T
        BY <4>2, <4>3, <1>3 DEF Hits, Match
      <4>. QED
        BY <4>3, <4>4
    <3>. QED
      BY <3>1, <3>2, <3>3 DEF Bijection, Injection, Surjection, IsInjective
  <2>4. IsFiniteSet(B) /\ Cardinality(B) = Cardinality(T)
    <3> HIDE DEF f, B, T
    <3>. QED
      BY <2>1, <2>3, FS_Bijection DEF ExistsBijection
  <2>5. A \cap B = {}
    BY <2>2, <1>3
  <2>6. Hits(u, K, o) = A \cup B
    <3>1. \A i : i \in DOMAIN u <=> i \in 1 .. Len(s) \/ i \in Len(s) + 1 .. Len(s) + Len(t)
      BY <1>2, <1>3, <1>4
    <3>2. \A i \in 1 .. Len(s) : u[i] = s[i]
      BY <1>2, <1>3
    <3>3. \A i \in Len(s) + 1 .. Len(s) + Len(t) : u[i] = t[i - Len(s)]
      BY <1>2, <1>3
    <3>. QED
      BY <3>1, <3>2, <3>3, <1>3 DEF Hits, Match
  <2>7. Cardinality(A \cup B) = Cardinality(A) + Cardinality(B) - Cardinality({})
    <3> HIDE DEF A, B, T, f
    <3>. QED
      BY <2>1, <2>4, <2>5, FS_Union
  <2>8. Cardinality({}) = 0 /\ Cardinality(A) \in Nat /\ Cardinality(B) \in Nat
    BY <2>1, <2>4, FS_EmptySet, FS_CardinalityType
  <2>. QED
    BY <2>4, <2>6, <2>7, <2>8 DEF Num
<1>. QED
  BY <1>2, <1>4, <1>5, <1>6 DEF S, u

LEMMA AppendFacts ==
  ASSUME NEW s, NEW c, IsSeq(s)
  PROVE  /\ IsSeq(Append(s, c)) /\ Elems(Append(s, c)) = Elems(s) \cup {c}
         /\ Len(Append(s, c)) = Len(s) + 1
         /\ \A K, o : Num(Append(s, c), K, o) = Num(s, K, o) + (IF Match(c, K, o) THEN 1 ELSE 0)
<1>1. s \in Seq(Elems(s) \cup {c})
  BY SeqMonotonic DEF IsSeq
<1>2. Append(s, c) = s \o <<c>>
  BY <1>1
<1>. QED
  BY <1>2, ConcatFacts, OneFacts

(* A queue without its head.                                               *)
LEMMA TailFacts ==
  ASSUME NEW s, IsSeq(s), s # <<>>
  PROVE  /\ IsSeq(Tail(s)) /\ Elems(s) = {Head(s)} \cup Elems(Tail(s))
         /\ Len(Tail(s)) = Len(s) - 1
         /\ \A K, o : Num(s, K, o) = Num(Tail(s), K, o) + (IF Match(Head(s), K, o) THEN 1 ELSE 0)
<1>1. Head(s) \in Elems(s) /\ Tail(s) \in Seq(Elems(s)) /\ Len(Tail(s)) = Len(s) - 1
  BY HeadTailProperties DEF IsSeq
<1>2. IsSeq(Tail(s))
  BY <1>1, SeqOfAny
<1>3. s = <<Head(s)>> \o Tail(s)
  <2>1. s \in Seq(Elems(s))
    BY DEF IsSeq
  <2>. QED
    BY <1>1, <2>1
<1>5. IsSeq(<<Head(s)>>) /\ Elems(<<Head(s)>>) = {Head(s)}
  BY OneFacts
<1>4. /\ Elems(s) = {Head(s)} \cup Elems(Tail(s))
      /\ \A K, o : Num(s, K, o) = Num(<<Head(s)>>, K, o) + Num(Tail(s), K, o)
  <2> DEFINE h == <<Head(s)>>
             r == Tail(s)
  <2>1. IsSeq(h) /\ IsSeq(r) /\ s = h \o r /\ Elems(h) = {Head(s)}
    BY <1>2, <1>3, <1>5
  <2> HIDE DEF h, r
  <2>2. /\ Elems(s) = {Head(s)} \cup Elems(r)
        /\ \A K, o : Num(s, K, o) = Num(h, K, o) + Num(r, K, o)
    BY <2>1, ConcatFacts
  <2>. QED
    BY <2>2 DEF h, r
<1>. QED
  BY <1>1, <1>2, <1>4, OneFacts, NumType

(* A queue of like commands.                                               *)
LEMMA LikeFacts ==
  ASSUME NEW t, IsSeq(t), NEW K, NEW o, \A c \in Elems(t) : Match(c, K, o)
  PROVE  Num(t, K, o) = Len(t)
<1>1. Len(t) \in Nat /\ DOMAIN t = 1 .. Len(t)
  BY SeqFacts
<1>2. Hits(t, K, o) = 1 .. Len(t)
  BY <1>1 DEF Hits, Elems, Match
<1>3. Cardinality(1 .. Len(t)) = Len(t)
  <2>1. 1 \in Int /\ Len(t) \in Int /\ Len(t) - 1 + 1 = Len(t) /\ (1 > Len(t) => Len(t) = 0)
    BY <1>1
  <2>. QED
    BY <2>1, FS_Interval
<1>. QED
  BY <1>2, <1>3 DEF Num

-----------------------------------------------------------------------------
(* Commands, and what they may write to a meta block.                      *)

MBlk == NUM_USER_BLK .. NUM_USER_BLK + NUM_META_BLK - 1

GoodEnt(e)  == IF e.t = "W" THEN e.addr.blk \in UBlk /\ e.addr.wl \in Nat ELSE e.blk \in UBlk
GoodEnts(s) == IsSeq(s) /\ \A e \in Elems(s) : GoodEnt(e)
MetaPg(pg)  == ~IsErased(pg) => pg.age \in Nat /\ GoodEnts(pg.ent)

GoodCmd(c) ==
  /\ c = [op |-> c.op, cb |-> c.cb, blk |-> c.blk, wl |-> c.wl, pg |-> c.pg, req |-> c.req]
  /\ c.op \in Ops /\ c.cb \in CbKey
  /\ c.req.cmd # "shutdown"
  /\ c.blk \in MBlk /\ c.wl \in WL => MetaPg(c.pg)

GoodCmds(s) == IsSeq(s) /\ \A c \in Elems(s) : GoodCmd(c)

IoTypes ==
  /\ GoodCmds(nq)
  /\ done = [k \in CbKey |-> done[k]]
  /\ \A k \in CbKey : GoodCmds(done[k]) /\ \A c \in Elems(done[k]) : c.cb = k
  /\ die = [b \in Blk |-> [w \in WL |-> die[b][w]]]
  /\ \A b \in MBlk, w \in WL : MetaPg(die[b][w])

\* The commands of issuer k that are under way or not yet collected, and how
\* many of each kind they are.
Under == [k \in CbKey |-> {c \in Elems(nq) : c.cb = k} \cup Elems(done[k])]
Cnt   == [k \in CbKey |-> [o \in Ops |-> CmdsOf(k, o)]]

CmdsIn(q, d, k, o) ==
  Cardinality({i \in DOMAIN q : q[i].cb = k /\ q[i].op = o})
    + Cardinality({i \in DOMAIN d : d[i].op = o})

LEMMA CountSplit ==
  ASSUME NEW q, NEW d, NEW k \in CbKey, NEW o, GoodCmds(q), GoodCmds(d)
  PROVE  /\ CmdsIn(q, d, k, o) = Num(q, {k}, o) + Num(d, CbKey, o)
         /\ Num(q, {k}, o) \in Nat /\ Num(d, CbKey, o) \in Nat
<1>1. {i \in DOMAIN q : q[i].cb = k /\ q[i].op = o} = Hits(q, {k}, o)
  BY DEF Hits
<1>2. {i \in DOMAIN d : d[i].op = o} = Hits(d, CbKey, o)
  BY DEF Hits, GoodCmds, GoodCmd, Elems
<1>3. Num(q, {k}, o) \in Nat /\ Num(d, CbKey, o) \in Nat
  BY NumType DEF GoodCmds
<1>. QED
  BY <1>1, <1>2, <1>3 DEF Num, CmdsIn

LEMMA CntIs ==
  ASSUME IoTypes
  PROVE  /\ Cnt \in [CbKey -> [Ops -> Nat]]
         /\ \A k \in CbKey, o \in Ops :
              /\ Cnt[k][o] = Num(nq, {k}, o) + Num(done[k], CbKey, o)
              /\ Num(nq, {k}, o) \in Nat /\ Num(done[k], CbKey, o) \in Nat
<1>1. ASSUME NEW k \in CbKey, NEW o \in Ops
      PROVE  /\ Cnt[k][o] = Num(nq, {k}, o) + Num(done[k], CbKey, o)
             /\ Num(nq, {k}, o) \in Nat /\ Num(done[k], CbKey, o) \in Nat
  <2>1. GoodCmds(nq) /\ GoodCmds(done[k])
    BY DEF IoTypes
  <2>2. Cnt[k][o] = CmdsOf(k, o)
    BY DEF Cnt
  <2>3. /\ CmdsOf(k, o) = Num(nq, {k}, o) + Num(done[k], CbKey, o)
        /\ Num(nq, {k}, o) \in Nat /\ Num(done[k], CbKey, o) \in Nat
    <3>1. CmdsOf(k, o) = CmdsIn(nq, done[k], k, o)
      BY DEF CmdsOf, CmdsIn
    <3>. QED
      BY <2>1, <3>1, CountSplit
  <2> HIDE DEF Cnt
  <2>. QED
    BY <2>2, <2>3
<1>2. \A k \in CbKey, o \in Ops : Cnt[k][o] \in Nat
  <2> TAKE k \in CbKey, o \in Ops
  <2>1. /\ Cnt[k][o] = Num(nq, {k}, o) + Num(done[k], CbKey, o)
        /\ Num(nq, {k}, o) \in Nat /\ Num(done[k], CbKey, o) \in Nat
    BY <1>1
  <2> HIDE DEF Cnt
  <2>. QED
    BY <2>1
<1>3. Cnt \in [CbKey -> [Ops -> Nat]]
  BY <1>2 DEF Cnt
<1>. QED
  BY <1>1, <1>3

LEMMA CntIsPrimed ==
  ASSUME IoTypes'
  PROVE  /\ Cnt' \in [CbKey -> [Ops -> Nat]]
         /\ \A k \in CbKey, o \in Ops :
              /\ Cnt'[k][o] = Num(nq', {k}, o) + Num(done'[k], CbKey, o)
              /\ Num(nq', {k}, o) \in Nat /\ Num(done'[k], CbKey, o) \in Nat
<1>1. ASSUME NEW k \in CbKey, NEW o \in Ops
      PROVE  /\ Cnt'[k][o] = Num(nq', {k}, o) + Num(done'[k], CbKey, o)
             /\ Num(nq', {k}, o) \in Nat /\ Num(done'[k], CbKey, o) \in Nat
  <2>1. GoodCmds(nq') /\ GoodCmds(done'[k])
    BY DEF IoTypes
  <2>2. Cnt'[k][o] = CmdsOf(k, o)'
    BY DEF Cnt
  <2>3. /\ CmdsOf(k, o)' = Num(nq', {k}, o) + Num(done'[k], CbKey, o)
        /\ Num(nq', {k}, o) \in Nat /\ Num(done'[k], CbKey, o) \in Nat
    <3>1. CmdsOf(k, o)' = CmdsIn(nq', done'[k], k, o)
      BY DEF CmdsOf, CmdsIn
    <3>. QED
      BY <2>1, <3>1, CountSplit
  <2> HIDE DEF Cnt
  <2>. QED
    BY <2>2, <2>3
<1>2. \A k \in CbKey, o \in Ops : Cnt'[k][o] \in Nat
  <2> TAKE k \in CbKey, o \in Ops
  <2>1. /\ Cnt'[k][o] = Num(nq', {k}, o) + Num(done'[k], CbKey, o)
        /\ Num(nq', {k}, o) \in Nat /\ Num(done'[k], CbKey, o) \in Nat
    BY <1>1
  <2> HIDE DEF Cnt
  <2>. QED
    BY <2>1
<1>3. Cnt' \in [CbKey -> [Ops -> Nat]]
  BY <1>2 DEF Cnt
<1>. QED
  BY <1>1, <1>3

(* A count is zero exactly if there is no such command.                    *)
LEMMA CntZero ==
  ASSUME IoTypes, NEW k \in CbKey
  PROVE  \A o \in Ops : Cnt[k][o] = 0 <=> \A c \in Under[k] : c.op # o
<1> TAKE o \in Ops
<1>1. IsSeq(nq) /\ IsSeq(done[k])
  BY DEF IoTypes, GoodCmds
<1>2. Num(nq, {k}, o) = 0 <=> \A c \in Elems(nq) : ~Match(c, {k}, o)
  BY <1>1, NumType
<1>3. Num(done[k], CbKey, o) = 0 <=> \A c \in Elems(done[k]) : ~Match(c, CbKey, o)
  BY <1>1, NumType
<1>4. \A c \in Elems(done[k]) : c.cb \in CbKey
  BY DEF IoTypes, GoodCmds
<1>5. Cnt[k][o] = 0 <=> Num(nq, {k}, o) = 0 /\ Num(done[k], CbKey, o) = 0
  <2>1. /\ Cnt[k][o] = Num(nq, {k}, o) + Num(done[k], CbKey, o)
        /\ Num(nq, {k}, o) \in Nat /\ Num(done[k], CbKey, o) \in Nat
    BY CntIs
  <2>. QED
    BY <2>1
<1>6. Under[k] = {c \in Elems(nq) : c.cb = k} \cup Elems(done[k])
  BY DEF Under
<1> HIDE DEF Cnt, Under
<1>. QED
  BY <1>2, <1>3, <1>4, <1>5, <1>6 DEF Match

LEMMA HeadUnder ==
  ASSUME IoTypes, NEW k \in CbKey, HasDone(k)
  PROVE  /\ DoneHead(k) \in Under[k] /\ GoodCmd(DoneHead(k))
         /\ DoneHead(k).cb = k /\ DoneHead(k).op \in Ops
         /\ Cnt[k][DoneHead(k).op] > 0
<1>1. GoodCmds(done[k]) /\ done[k] # <<>> /\ \A c \in Elems(done[k]) : c.cb = k
  BY DEF IoTypes, HasDone
<1>2. Head(done[k]) \in Elems(done[k])
  BY <1>1, TailFacts DEF GoodCmds
<1>3. DoneHead(k) \in Under[k] /\ GoodCmd(DoneHead(k)) /\ DoneHead(k).cb = k
  BY <1>1, <1>2 DEF DoneHead, Under, GoodCmds
<1>4. DoneHead(k).op \in Ops
  BY <1>3 DEF GoodCmd
<1>5. Cnt[k][DoneHead(k).op] \in Nat /\ Cnt[k][DoneHead(k).op] # 0
  BY <1>3, <1>4, CntIs, CntZero
<1> HIDE DEF Cnt
<1>. QED
  BY <1>3, <1>4, <1>5

-----------------------------------------------------------------------------
(* What issuing and collecting do to the counts.                           *)

\* A turn that issues the commands t and collects a command of each key in P.
Turns(t, P) ==
  /\ GoodCmds(t) /\ nq' = nq \o t /\ die' = die
  /\ P \in SUBSET CbKey /\ \A k \in P : HasDone(k)
  /\ done' = [k \in CbKey |-> IF k \in P THEN Tail(done[k]) ELSE done[k]]

Popped(P, k, o) == IF k \in P /\ DoneHead(k).op = o THEN 1 ELSE 0
UnderNow(t, k)  == Under[k] \cup {c \in Elems(t) : c.cb = k}

CountsMove(t, P) ==
  \A k \in CbKey :
    /\ Under'[k] \subseteq UnderNow(t, k)
    /\ \A o \in Ops : Cnt'[k][o] = Cnt[k][o] + Num(t, {k}, o) - Popped(P, k, o)

LEMMA StepFacts ==
  ASSUME IoTypes, NEW t, NEW P, Turns(t, P)
  PROVE  IoTypes' /\ Cnt' \in [CbKey -> [Ops -> Nat]] /\ CountsMove(t, P)
<1>1. /\ IsSeq(nq') /\ Elems(nq') = Elems(nq) \cup Elems(t)
      /\ \A K, o : Num(nq', K, o) = Num(nq, K, o) + Num(t, K, o)
  BY ConcatFacts DEF IoTypes, GoodCmds, Turns
<1>2. ASSUME NEW k \in P
      PROVE  /\ IsSeq(Tail(done[k])) /\ Elems(Tail(done[k])) \subseteq Elems(done[k])
             /\ \A K, o : Num(done[k], K, o) = Num(Tail(done[k]), K, o)
                                                 + (IF Match(DoneHead(k), K, o) THEN 1 ELSE 0)
  <2>1. IsSeq(done[k]) /\ done[k] # <<>>
    BY DEF IoTypes, GoodCmds, HasDone, Turns
  <2>. QED
    BY <2>1, TailFacts DEF DoneHead
<1>3. IoTypes'
  <2>1. GoodCmds(nq')
    BY <1>1 DEF IoTypes, GoodCmds, Turns
  <2>2. \A k \in CbKey : GoodCmds(done'[k]) /\ \A c \in Elems(done'[k]) : c.cb = k
    BY <1>2 DEF IoTypes, GoodCmds, Turns
  <2>. QED
    BY <2>1, <2>2 DEF IoTypes, Turns
<1>4. ASSUME NEW k \in CbKey
      PROVE  Under'[k] \subseteq UnderNow(t, k)
  <2>1. Elems(done'[k]) \subseteq Elems(done[k])
    BY <1>2 DEF Turns
  <2>. QED
    BY <1>1, <2>1 DEF Under, UnderNow
<1>5. ASSUME NEW k \in CbKey, NEW o \in Ops
      PROVE  Cnt'[k][o] = Cnt[k][o] + Num(t, {k}, o) - Popped(P, k, o)
  <2>1. /\ Cnt[k][o] = Num(nq, {k}, o) + Num(done[k], CbKey, o)
        /\ Num(nq, {k}, o) \in Nat /\ Num(done[k], CbKey, o) \in Nat
    BY CntIs
  <2>2. Cnt'[k][o] = Num(nq', {k}, o) + Num(done'[k], CbKey, o) /\ Num(done'[k], CbKey, o) \in Nat
    BY <1>3, CntIsPrimed
  <2>3. Num(t, {k}, o) \in Nat
    BY NumType DEF GoodCmds, Turns
  <2>4. Num(done[k], CbKey, o) = Num(done'[k], CbKey, o) + Popped(P, k, o)
        /\ Popped(P, k, o) \in {0, 1}
    <3>1. CASE k \in P
      <4>1. Match(DoneHead(k), CbKey, o) <=> DoneHead(k).op = o
        BY <3>1, HeadUnder DEF Match, Turns
      <4>2. Num(done[k], CbKey, o) = Num(Tail(done[k]), CbKey, o)
                                       + (IF Match(DoneHead(k), CbKey, o) THEN 1 ELSE 0)
        BY <3>1, <1>2
      <4>. QED
        BY <3>1, <4>1, <4>2 DEF Popped, Turns
    <3>2. CASE k \notin P
      BY <3>2, <2>1 DEF Popped, Turns
    <3>. QED
      BY <3>1, <3>2
  <2> HIDE DEF Cnt
  <2>. QED
    BY <1>1, <2>1, <2>2, <2>3, <2>4
<1>6. Cnt' \in [CbKey -> [Ops -> Nat]]
  BY <1>3, CntIsPrimed
<1>. QED
  BY <1>3, <1>4, <1>5, <1>6 DEF CountsMove

LEMMA SameIo ==
  ASSUME IoTypes, UNCHANGED ioVars
  PROVE  IoTypes' /\ Cnt' = Cnt /\ Under' = Under
<1>1. nq' = nq /\ done' = done /\ die' = die
  BY DEF ioVars
<1>2. IoTypes'
  BY <1>1 DEF IoTypes
<1>3. Under' = Under
  BY <1>1 DEF Under
<1>4. Cnt' = Cnt
  BY <1>1 DEF Cnt, CmdsOf
<1>. QED
  BY <1>2, <1>3, <1>4

LEMMA SeqPlusNone == ASSUME NEW s, IsSeq(s) PROVE s \o <<>> = s
<1>1. s \in Seq(Elems(s))
  BY DEF IsSeq
<1>. QED
  BY <1>1, ConcatEmptySeq

\* One command issued.
LEMMA IssueOne ==
  ASSUME IoTypes, NEW c, GoodCmd(c), Issue(<<c>>), UNCHANGED <<die, done>>
  PROVE  /\ IoTypes' /\ Cnt' \in [CbKey -> [Ops -> Nat]]
         /\ \A k \in CbKey, o \in Ops :
              Cnt'[k][o] = Cnt[k][o] + (IF c.cb = k /\ c.op = o THEN 1 ELSE 0)
         /\ \A k \in CbKey : Under'[k] \subseteq Under[k] \cup {x \in {c} : x.cb = k}
<1> DEFINE t == <<c>>
           P == {}
<1>1. /\ IsSeq(t) /\ Elems(t) = {c}
      /\ \A K, o : Num(t, K, o) = IF Match(c, K, o) THEN 1 ELSE 0
  BY OneFacts
<1>2. Turns(t, P)
  BY <1>1 DEF GoodCmds, IoTypes, Issue, Turns
<1>3. \A k, o : Popped(P, k, o) = 0
  BY DEF Popped
<1>4. Cnt \in [CbKey -> [Ops -> Nat]]
  BY CntIs
<1> HIDE DEF t, P, Cnt, Under
<1>5. IoTypes' /\ Cnt' \in [CbKey -> [Ops -> Nat]] /\ CountsMove(t, P)
  BY <1>2, StepFacts
<1>6. ASSUME NEW k \in CbKey, NEW o \in Ops
      PROVE  Cnt'[k][o] = Cnt[k][o] + (IF c.cb = k /\ c.op = o THEN 1 ELSE 0)
  <2>1. Cnt'[k][o] = Cnt[k][o] + Num(t, {k}, o) - Popped(P, k, o)
    BY <1>5 DEF CountsMove
  <2>2. Num(t, {k}, o) = IF c.cb = k /\ c.op = o THEN 1 ELSE 0
    BY <1>1 DEF Match
  <2>3. Cnt[k][o] \in Nat
    BY <1>4
  <2>. QED
    BY <1>3, <2>1, <2>2, <2>3
<1>7. \A k \in CbKey : Under'[k] \subseteq Under[k] \cup {x \in {c} : x.cb = k}
  BY <1>1, <1>5 DEF CountsMove, UnderNow
<1>. QED
  BY <1>5, <1>6, <1>7

\* One command collected.
LEMMA PopOne ==
  ASSUME IoTypes, NEW k \in CbKey, HasDone(k), PopDone(k), UNCHANGED <<die, nq>>
  PROVE  /\ IoTypes' /\ Cnt' \in [CbKey -> [Ops -> Nat]]
         /\ \A j \in CbKey, o \in Ops :
              Cnt'[j][o] = Cnt[j][o] - (IF j = k /\ DoneHead(k).op = o THEN 1 ELSE 0)
         /\ \A j \in CbKey : Under'[j] \subseteq Under[j]
<1> DEFINE t == <<>>
           P == {k}
<1>1. IsSeq(t) /\ Elems(t) = {} /\ \A K, o : Num(t, K, o) = 0
  BY NoneFacts
<1>2. Turns(t, P)
  BY <1>1, SeqPlusNone DEF GoodCmds, IoTypes, PopDone, Turns
<1>3. \A j, o : Popped(P, j, o) = IF j = k /\ DoneHead(k).op = o THEN 1 ELSE 0
  BY DEF Popped
<1>4. Cnt \in [CbKey -> [Ops -> Nat]]
  BY CntIs
<1> HIDE DEF t, P, Cnt, Under
<1>5. IoTypes' /\ Cnt' \in [CbKey -> [Ops -> Nat]] /\ CountsMove(t, P)
  BY <1>2, StepFacts
<1>6. ASSUME NEW j \in CbKey, NEW o \in Ops
      PROVE  Cnt'[j][o] = Cnt[j][o] - (IF j = k /\ DoneHead(k).op = o THEN 1 ELSE 0)
  <2>1. Cnt'[j][o] = Cnt[j][o] + Num(t, {j}, o) - Popped(P, j, o)
    BY <1>5 DEF CountsMove
  <2>2. Num(t, {j}, o) = 0
    BY <1>1
  <2>3. Cnt[j][o] \in Nat
    BY <1>4
  <2>. QED
    BY <1>3, <2>1, <2>2, <2>3
<1>7. \A j \in CbKey : Under'[j] \subseteq Under[j]
  BY <1>1, <1>5 DEF CountsMove, UnderNow
<1>. QED
  BY <1>5, <1>6, <1>7

\* One collected, and another of the same issuer issued in its place.
LEMMA PopIssue ==
  ASSUME IoTypes, NEW k \in CbKey, HasDone(k), PopDone(k),
         NEW c, GoodCmd(c), c.cb = k, Issue(<<c>>), die' = die
  PROVE  /\ IoTypes' /\ Cnt' \in [CbKey -> [Ops -> Nat]]
         /\ \A j \in CbKey \ {k}, o \in Ops : Cnt'[j][o] = Cnt[j][o]
         /\ \A o \in Ops : Cnt'[k][o] = Cnt[k][o] + (IF c.op = o THEN 1 ELSE 0)
                                          - (IF DoneHead(k).op = o THEN 1 ELSE 0)
         /\ \A j \in CbKey \ {k} : Under'[j] \subseteq Under[j]
<1> DEFINE t == <<c>>
           P == {k}
<1>1. /\ IsSeq(t) /\ Elems(t) = {c}
      /\ \A K, o : Num(t, K, o) = IF Match(c, K, o) THEN 1 ELSE 0
  BY OneFacts
<1>2. Turns(t, P)
  BY <1>1 DEF GoodCmds, IoTypes, PopDone, Issue, Turns
<1>3. \A j, o : Popped(P, j, o) = IF j = k /\ DoneHead(k).op = o THEN 1 ELSE 0
  BY DEF Popped
<1>4. Cnt \in [CbKey -> [Ops -> Nat]]
  BY CntIs
<1> HIDE DEF t, P, Cnt, Under
<1>5. IoTypes' /\ Cnt' \in [CbKey -> [Ops -> Nat]] /\ CountsMove(t, P)
  BY <1>2, StepFacts
<1>6. ASSUME NEW j \in CbKey, NEW o \in Ops
      PROVE  Cnt'[j][o] = Cnt[j][o] + (IF k = j /\ c.op = o THEN 1 ELSE 0)
                            - (IF j = k /\ DoneHead(k).op = o THEN 1 ELSE 0)
  <2>1. Cnt'[j][o] = Cnt[j][o] + Num(t, {j}, o) - Popped(P, j, o)
    BY <1>5 DEF CountsMove
  <2>2. Num(t, {j}, o) = IF k = j /\ c.op = o THEN 1 ELSE 0
    BY <1>1 DEF Match
  <2>. QED
    BY <1>3, <2>1, <2>2
<1>7. \A j \in CbKey \ {k} : Under'[j] \subseteq Under[j]
  BY <1>1, <1>5 DEF CountsMove, UnderNow
<1>8. \A j \in CbKey \ {k}, o \in Ops : Cnt'[j][o] = Cnt[j][o]
  BY <1>4, <1>6
<1>9. \A o \in Ops : Cnt'[k][o] = Cnt[k][o] + (IF c.op = o THEN 1 ELSE 0)
                                    - (IF DoneHead(k).op = o THEN 1 ELSE 0)
  BY <1>6
<1>. QED
  BY <1>5, <1>7, <1>8, <1>9

\* A run of reads issued by META.
LEMMA IssueReads ==
  ASSUME IoTypes, NEW t, GoodCmds(t), \A c \in Elems(t) : c.cb = "Meta" /\ c.op = "READ",
         Issue(t), UNCHANGED <<die, done>>
  PROVE  /\ IoTypes' /\ Cnt' \in [CbKey -> [Ops -> Nat]]
         /\ \A k \in CbKey, o \in Ops :
              Cnt'[k][o] = Cnt[k][o] + (IF k = "Meta" /\ o = "READ" THEN Len(t) ELSE 0)
         /\ Under'["Meta"] \subseteq Under["Meta"] \cup Elems(t)
         /\ \A k \in CbKey \ {"Meta"} : Under'[k] \subseteq Under[k]
<1> DEFINE P == {}
<1>1. Turns(t, P)
  BY DEF IoTypes, Issue, Turns
<1>2. \A k, o : Popped(P, k, o) = 0
  BY DEF Popped
<1>3. Cnt \in [CbKey -> [Ops -> Nat]] /\ "Meta" \in CbKey /\ "READ" \in Ops
  BY CntIs DEF CbKey, Ops
<1>4. IsSeq(t) /\ Len(t) \in Nat
  BY SeqFacts DEF GoodCmds
<1> HIDE DEF P, Cnt, Under
<1>5. IoTypes' /\ Cnt' \in [CbKey -> [Ops -> Nat]] /\ CountsMove(t, P)
  BY <1>1, StepFacts
<1>6. \A c \in Elems(t) : Match(c, {"Meta"}, "READ")
  BY DEF Match
<1>7. Num(t, {"Meta"}, "READ") = Len(t)
  BY <1>4, <1>6, LikeFacts
<1>8. ASSUME NEW k \in CbKey, NEW o \in Ops, ~(k = "Meta" /\ o = "READ")
      PROVE  Num(t, {k}, o) = 0
  <2>1. \A c \in Elems(t) : ~Match(c, {k}, o)
    BY <1>8 DEF Match
  <2>. QED
    BY <1>4, <2>1, NumType
<1>9. ASSUME NEW k \in CbKey, NEW o \in Ops
      PROVE  Cnt'[k][o] = Cnt[k][o] + (IF k = "Meta" /\ o = "READ" THEN Len(t) ELSE 0)
  <2>1. Cnt'[k][o] = Cnt[k][o] + Num(t, {k}, o) - Popped(P, k, o)
    BY <1>5 DEF CountsMove
  <2>2. Num(t, {k}, o) = IF k = "Meta" /\ o = "READ" THEN Len(t) ELSE 0
    BY <1>7, <1>8
  <2>3. Cnt[k][o] \in Nat
    BY <1>3
  <2>. QED
    BY <1>2, <1>4, <2>1, <2>2, <2>3
<1>10. Under'["Meta"] \subseteq Under["Meta"] \cup Elems(t)
  BY <1>3, <1>5 DEF CountsMove, UnderNow
<1>11. \A k \in CbKey \ {"Meta"} : Under'[k] \subseteq Under[k]
  <2> TAKE k \in CbKey \ {"Meta"}
  <2>1. Under'[k] \subseteq UnderNow(t, k)
    BY <1>5 DEF CountsMove
  <2>2. {c \in Elems(t) : c.cb = k} = {}
    OBVIOUS
  <2>. QED
    BY <2>1, <2>2 DEF UnderNow
<1>. QED
  BY <1>5, <1>9, <1>10, <1>11
-----------------------------------------------------------------------------
(* What a completion does, and what GC_Stop returns to the pool.           *)

\* The commands of k are the same in number, kind and address.
SameFor(k) ==
  /\ \A o \in Ops : Cnt'[k][o] = Cnt[k][o]
  /\ \A c \in Under'[k] : \E d \in Under[k] : c.blk = d.blk /\ c.wl = d.wl

\* The command c as its completion leaves it.
Answered(c) == IF c.op = "READ" THEN [c EXCEPT !.pg = die[c.blk][c.wl]] ELSE c

LEMMA AnsweredIsGood ==
  ASSUME IoTypes, NEW c, GoodCmd(c)
  PROVE  /\ GoodCmd(Answered(c))
         /\ Answered(c).cb = c.cb /\ Answered(c).op = c.op
         /\ Answered(c).blk = c.blk /\ Answered(c).wl = c.wl
<1>1. CASE c.op # "READ"
  BY <1>1 DEF Answered
<1>2. CASE c.op = "READ"
  <2>1. Answered(c) = [op |-> c.op, cb |-> c.cb, blk |-> c.blk, wl |-> c.wl,
                       pg |-> die[c.blk][c.wl], req |-> c.req]
    BY <1>2 DEF Answered, GoodCmd
  <2>2. /\ Answered(c).op = c.op /\ Answered(c).cb = c.cb /\ Answered(c).blk = c.blk
        /\ Answered(c).wl = c.wl /\ Answered(c).pg = die[c.blk][c.wl]
        /\ Answered(c).req = c.req
    BY <2>1
  <2>3. c.blk \in MBlk /\ c.wl \in WL => MetaPg(die[c.blk][c.wl])
    BY DEF IoTypes
  <2>4. c.op \in Ops /\ c.cb \in CbKey /\ c.req.cmd # "shutdown"
    BY DEF GoodCmd
  <2>5. Answered(c) = [op |-> Answered(c).op, cb |-> Answered(c).cb, blk |-> Answered(c).blk,
                       wl |-> Answered(c).wl, pg |-> Answered(c).pg, req |-> Answered(c).req]
    BY <2>1, <2>2
  <2>. QED
    BY <2>2, <2>3, <2>4, <2>5 DEF GoodCmd
<1>. QED
  BY <1>1, <1>2

LEMMA NandKeepsIo ==
  ASSUME IoTypes, NandDone
  PROVE  IoTypes' /\ \A k \in CbKey : SameFor(k)
<1> DEFINE c == Head(nq)
           a == Answered(c)
<1>1. IsSeq(nq) /\ nq # <<>> /\ nq' = Tail(nq)
  BY DEF IoTypes, GoodCmds, NandDone
<1>2. /\ IsSeq(nq') /\ Elems(nq) = {c} \cup Elems(nq')
      /\ \A K, o : Num(nq, K, o) = Num(nq', K, o) + (IF Match(c, K, o) THEN 1 ELSE 0)
  BY <1>1, TailFacts
<1>3. GoodCmd(c)
  BY <1>2 DEF IoTypes, GoodCmds
<1>4. GoodCmd(a) /\ a.cb = c.cb /\ a.op = c.op /\ a.blk = c.blk /\ a.wl = c.wl
  BY <1>3, AnsweredIsGood
<1>5. c.cb \in CbKey /\ done' = [done EXCEPT ![c.cb] = Append(@, a)]
  BY <1>3 DEF NandDone, Answered, GoodCmd
<1> HIDE DEF a, c
<1>6. /\ \A k \in CbKey : k # c.cb => done'[k] = done[k]
      /\ done'[c.cb] = Append(done[c.cb], a)
      /\ done' = [k \in CbKey |-> done'[k]]
  BY <1>5 DEF IoTypes
<1>7. /\ IsSeq(done'[c.cb]) /\ Elems(done'[c.cb]) = Elems(done[c.cb]) \cup {a}
      /\ \A K, o : Num(done'[c.cb], K, o) = Num(done[c.cb], K, o)
                                              + (IF Match(a, K, o) THEN 1 ELSE 0)
  BY <1>5, <1>6, AppendFacts DEF IoTypes, GoodCmds
<1>8. /\ die' = [b \in Blk |-> [w \in WL |-> die'[b][w]]]
      /\ \A b \in MBlk, w \in WL : MetaPg(die'[b][w])
  <2>1. MBlk \subseteq Blk
    BY SizeAssumption DEF MBlk, Blk
  <2>2. MetaPg(Erased)
    BY DEF MetaPg, IsErased, Erased
  <2>3. CASE c.op = "ERB"
    <3>1. die' = [die EXCEPT ![c.blk] = [w \in WL |-> Erased]]
      BY <2>3 DEF NandDone, c
    <3>2. \A b \in Blk : die'[b] = IF b = c.blk THEN [w \in WL |-> Erased] ELSE die[b]
      BY <3>1 DEF IoTypes
    <3>3. die' = [b \in Blk |-> [w \in WL |-> die'[b][w]]]
      BY <3>1 DEF IoTypes
    <3>4. \A b \in MBlk, w \in WL : MetaPg(die[b][w])
      BY DEF IoTypes
    <3>5. \A b \in MBlk, w \in WL : MetaPg(die'[b][w])
      BY <2>1, <2>2, <3>2, <3>4
    <3>. QED
      BY <3>3, <3>5
  <2>4. CASE c.op = "PGM"
    <3>1. die' = [die EXCEPT ![c.blk][c.wl] = c.pg]
      BY <2>4 DEF NandDone, c
    <3>2. \A b \in Blk : die'[b] = IF b = c.blk THEN [die[b] EXCEPT ![c.wl] = c.pg] ELSE die[b]
      BY <3>1 DEF IoTypes
    <3>3. \A b \in Blk, w \in WL :
             die'[b][w] = IF b = c.blk /\ w = c.wl THEN c.pg ELSE die[b][w]
      BY <3>2 DEF IoTypes
    <3>4. \A b \in MBlk, w \in WL : MetaPg(die'[b][w])
      BY <2>1, <3>3, <1>3 DEF IoTypes, GoodCmd
    <3>5. die' = [b \in Blk |-> die'[b]]
      BY <3>1 DEF IoTypes
    <3>6. \A b \in Blk : die'[b] = [w \in WL |-> die'[b][w]]
      BY <3>2 DEF IoTypes
    <3>. QED
      BY <3>4, <3>5, <3>6
  <2>5. CASE c.op \notin {"ERB", "PGM"}
    <3>1. die' = die
      BY <2>5 DEF NandDone, c
    <3>. QED
      BY <3>1 DEF IoTypes
  <2>. QED
    BY <2>3, <2>4, <2>5
<1>9. IoTypes'
  <2>1. GoodCmds(nq')
    BY <1>2 DEF IoTypes, GoodCmds
  <2>2. \A k \in CbKey : GoodCmds(done'[k]) /\ \A x \in Elems(done'[k]) : x.cb = k
    BY <1>4, <1>5, <1>6, <1>7 DEF IoTypes, GoodCmds
  <2>. QED
    BY <1>6, <1>8, <2>1, <2>2 DEF IoTypes
<1>10. ASSUME NEW k \in CbKey, NEW o \in Ops
       PROVE  Cnt'[k][o] = Cnt[k][o]
  <2>1. /\ Cnt[k][o] = Num(nq, {k}, o) + Num(done[k], CbKey, o)
        /\ Num(nq, {k}, o) \in Nat /\ Num(done[k], CbKey, o) \in Nat
    BY CntIs
  <2>2. /\ Cnt'[k][o] = Num(nq', {k}, o) + Num(done'[k], CbKey, o)
        /\ Num(nq', {k}, o) \in Nat /\ Num(done'[k], CbKey, o) \in Nat
    BY <1>9, CntIsPrimed
  <2>3. Num(nq, {k}, o) = Num(nq', {k}, o) + (IF c.cb = k /\ c.op = o THEN 1 ELSE 0)
    BY <1>2 DEF Match
  <2>4. Num(done'[k], CbKey, o) = Num(done[k], CbKey, o)
                                    + (IF c.cb = k /\ c.op = o THEN 1 ELSE 0)
    <3>1. CASE k = c.cb
      BY <3>1, <1>4, <1>5, <1>7 DEF Match
    <3>2. CASE k # c.cb
      BY <3>2, <1>6, <2>1
    <3>. QED
      BY <3>1, <3>2
  <2> HIDE DEF Cnt
  <2>. QED
    BY <2>1, <2>2, <2>3, <2>4
<1>11. ASSUME NEW k \in CbKey, NEW x \in Under'[k]
       PROVE  \E d \in Under[k] : x.blk = d.blk /\ x.wl = d.wl
  <2>1. (x \in Elems(nq') /\ x.cb = k) \/ x \in Elems(done'[k])
    BY <1>11 DEF Under
  <2>2. Under[k] = {d \in Elems(nq) : d.cb = k} \cup Elems(done[k])
    BY DEF Under
  <2>3. CASE k = c.cb
    BY <2>1, <2>2, <2>3, <1>2, <1>4, <1>7
  <2>4. CASE k # c.cb
    BY <2>1, <2>2, <2>4, <1>2, <1>6
  <2>. QED
    BY <2>3, <2>4
<1>. QED
  BY <1>9, <1>10, <1>11 DEF SameFor

LEMMA StopKeepsIo ==
  ASSUME IoTypes, UNCHANGED <<die, nq>>, done' = [done EXCEPT !["Mig"] = <<>>]
  PROVE  /\ IoTypes' /\ \A k \in CbKey \ {"Mig"} : SameFor(k)
         /\ \A o \in Ops : Cnt["Mig"][o] = 0 => Cnt'["Mig"][o] = 0
<1>1. /\ \A k \in CbKey \ {"Mig"} : done'[k] = done[k]
      /\ "Mig" \in CbKey /\ done'["Mig"] = <<>>
      /\ done' = [k \in CbKey |-> done'[k]]
  BY DEF IoTypes, CbKey
<1>2. /\ IsSeq(<<>>) /\ Elems(<<>>) = {} /\ \A K, o : Num(<<>>, K, o) = 0
  BY NoneFacts
<1>3. IoTypes'
  BY <1>1, <1>2 DEF IoTypes, GoodCmds
<1>4. \A k \in CbKey \ {"Mig"} : Under'[k] = Under[k]
  BY <1>1 DEF Under
<1>5. ASSUME NEW k \in CbKey, NEW o \in Ops
      PROVE  /\ k # "Mig" => Cnt'[k][o] = Cnt[k][o]
             /\ k = "Mig" /\ Cnt[k][o] = 0 => Cnt'[k][o] = 0
  <2>1. /\ Cnt[k][o] = Num(nq, {k}, o) + Num(done[k], CbKey, o)
        /\ Num(nq, {k}, o) \in Nat /\ Num(done[k], CbKey, o) \in Nat
    BY CntIs
  <2>2. Cnt'[k][o] = Num(nq', {k}, o) + Num(done'[k], CbKey, o)
    BY <1>3, CntIsPrimed
  <2>3. nq' = nq
    OBVIOUS
  <2> HIDE DEF Cnt
  <2>. QED
    BY <1>1, <1>2, <2>1, <2>2, <2>3
<1>. QED
  BY <1>1, <1>3, <1>4, <1>5 DEF SameFor

-----------------------------------------------------------------------------
(* Nothing under way.                                                      *)

NoneOf(k) == \A o \in Ops : Cnt[k][o] = 0

LEMMA FiveSum ==
  ASSUME NEW a \in Nat, NEW b \in Nat, NEW c \in Nat, NEW d \in Nat, NEW e \in Nat
  PROVE  /\ a + b + c + d + e \in Nat
         /\ a + b + c + d + e = 0 <=> a = 0 /\ b = 0 /\ c = 0 /\ d = 0 /\ e = 0
  OBVIOUS

LEMMA NoneUnder ==
  ASSUME IoTypes
  PROVE  Outstanding = 0 <=> \A k \in CbKey : NoneOf(k)
<1>1. /\ IsSeq(nq) /\ \A k \in CbKey : IsSeq(done[k])
      /\ {"User", "Meta", "Mig", "UErs"} = CbKey
  BY DEF IoTypes, GoodCmds, CbKey
<1>2. \A s : IsSeq(s) => Len(s) \in Nat /\ (Len(s) = 0 <=> Elems(s) = {})
  <2>1. SUFFICES ASSUME NEW s, IsSeq(s)
                 PROVE  Len(s) \in Nat /\ (Len(s) = 0 <=> Elems(s) = {})
    OBVIOUS
  <2>2. Len(s) \in Nat /\ DOMAIN s = 1 .. Len(s)
    BY <2>1, SeqFacts
  <2>3. Len(s) = 0 <=> DOMAIN s = {}
    BY <2>2
  <2>4. DOMAIN s = {} <=> Elems(s) = {}
    BY DEF Elems
  <2>. QED
    BY <2>2, <2>3, <2>4
<1>3. Outstanding = 0 <=> Elems(nq) = {} /\ \A k \in CbKey : Elems(done[k]) = {}
  <2>1. Len(nq) \in Nat /\ (Len(nq) = 0 <=> Elems(nq) = {})
    BY <1>1, <1>2
  <2>2. ASSUME NEW k \in CbKey
        PROVE  Len(done[k]) \in Nat /\ (Len(done[k]) = 0 <=> Elems(done[k]) = {})
    BY <1>1, <1>2
  <2>3. /\ Len(done["User"]) \in Nat /\ Len(done["Meta"]) \in Nat
        /\ Len(done["Mig"]) \in Nat /\ Len(done["UErs"]) \in Nat
    BY <2>2 DEF CbKey
  <2>4. Outstanding = 0 <=> /\ Len(nq) = 0 /\ Len(done["User"]) = 0 /\ Len(done["Meta"]) = 0
                            /\ Len(done["Mig"]) = 0 /\ Len(done["UErs"]) = 0
    <3> DEFINE a == Len(nq)
               b == Len(done["User"])
               c == Len(done["Meta"])
               d == Len(done["Mig"])
               e == Len(done["UErs"])
    <3>1. a \in Nat /\ b \in Nat /\ c \in Nat /\ d \in Nat /\ e \in Nat
      BY <2>1, <2>3
    <3>2. Outstanding = a + b + c + d + e
      BY DEF Outstanding
    <3> HIDE DEF a, b, c, d, e
    <3>3. a + b + c + d + e = 0 <=> a = 0 /\ b = 0 /\ c = 0 /\ d = 0 /\ e = 0
      BY <3>1, FiveSum
    <3>. QED
      BY <3>2, <3>3 DEF a, b, c, d, e
  <2>. QED
    BY <2>1, <2>2, <2>4 DEF CbKey
<1>4. ASSUME NEW k \in CbKey
      PROVE  NoneOf(k) <=> (\A c \in Elems(nq) : c.cb # k) /\ Elems(done[k]) = {}
  <2>1. NoneOf(k) <=> \A o \in Ops : \A c \in Under[k] : c.op # o
    BY CntZero DEF NoneOf
  <2>2. \A c \in Under[k] : c.op \in Ops
    BY DEF Under, IoTypes, GoodCmds, GoodCmd
  <2>3. NoneOf(k) <=> Under[k] = {}
    BY <2>1, <2>2
  <2>. QED
    BY <2>3 DEF Under
<1>5. \A c \in Elems(nq) : c.cb \in CbKey
  BY DEF IoTypes, GoodCmds, GoodCmd
<1>. QED
  BY <1>3, <1>4, <1>5

LEMMA IoDoneMeansNone ==
  ASSUME IoTypes, AllIoDone
  PROVE  Outstanding = 0
<1>1. Len(nq) \in Nat /\ \A k \in CbKey : Len(done[k]) \in Nat
  BY SeqFacts DEF IoTypes, GoodCmds
<1>2. /\ Len(done["User"]) \in Nat /\ Len(done["Meta"]) \in Nat
      /\ Len(done["Mig"]) \in Nat /\ Len(done["UErs"]) \in Nat
  BY <1>1 DEF CbKey
<1>3. Outstanding \in Nat
  <2> DEFINE a == Len(nq)
             b == Len(done["User"])
             c == Len(done["Meta"])
             d == Len(done["Mig"])
             e == Len(done["UErs"])
  <2>1. Outstanding = a + b + c + d + e
    BY DEF Outstanding
  <2>2. a \in Nat /\ b \in Nat /\ c \in Nat /\ d \in Nat /\ e \in Nat
    BY <1>1, <1>2
  <2> HIDE DEF a, b, c, d, e
  <2>. QED
    BY <2>1, <2>2, FiveSum
<1>4. NUM_NAND_CMD - Outstanding >= NUM_NAND_CMD /\ NUM_NAND_CMD \in Nat
  BY SizeAssumption DEF AllIoDone, IO_CountFree
<1> HIDE DEF Outstanding
<1>. QED
  BY <1>3, <1>4

-----------------------------------------------------------------------------
(* The last index of a set of indices is one of them, and none is higher.  *)

LEMMA LastIsIn ==
  ASSUME NEW n \in Nat, NEW S \in SUBSET (1 .. n), S # {}
  PROVE  LastIn(S) \in S /\ \A j \in S : j <= LastIn(S)
<1> DEFINE R == {n - i : i \in S}
<1>1. R \subseteq Nat /\ R # {}
  <2>1. \A i \in S : n - i \in Nat
    OBVIOUS
  <2>. QED
    BY <2>1
<1> HIDE DEF R
<1>2. PICK m \in R : \A y \in R : ~(<<y, m>> \in OpToRel(<, Nat))
  BY <1>1, WFMin, NatLessThanWellFounded
<1>3. \A y \in R : m <= y
  <2> TAKE y \in R
  <2>1. y \in Nat /\ m \in Nat
    BY <1>1
  <2>2. ~(y < m)
    BY <1>2, <2>1 DEF OpToRel
  <2> QED
    BY <2>1, <2>2
<1>4. PICK i \in S : m = n - i
  BY DEF R
<1>5. ASSUME NEW j \in S
      PROVE  j <= i
  <2>1. n - i <= n - j
    BY <1>3, <1>4 DEF R
  <2>. QED
    BY <2>1
<1>. QED
  BY <1>5 DEF LastIn
=============================================================================
