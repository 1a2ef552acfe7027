------------------------------ MODULE BlockDev ------------------------------
(***************************************************************************)
(* What the FTL promises its host: a device of NUM_LPN pages that keeps,   *)
(* across power cycles, the last write of every page.  Requests are        *)
(* answered one at a time; a page never written reads as erased.           *)
(***************************************************************************)
EXTENDS Integers

CONSTANTS
  NUM_LPN,      \* pages of the device
  ShutdownOpt,  \* ways to shut it down
  NoReq,        \* no request is outstanding
  Erased        \* the contents of a page that was never written

VARIABLES
  latest,   \* per page, the number of its last write; 0 before the first
  pend,     \* the request the host waits for
  rsp,      \* the last answer: its request, and the page a read returned
  pwr       \* the device is switched on

devVars == <<latest, pend, rsp, pwr>>

LPN == 0 .. NUM_LPN - 1

DevInit ==
  /\ latest = [l \in LPN |-> 0]
  /\ pend = NoReq
  /\ rsp = [req |-> NoReq, pg |-> Erased]
  /\ pwr = TRUE

DevSubmit(r) ==
  /\ pwr /\ pend = NoReq
  /\ pend' = r
  /\ rsp' = [req |-> NoReq, pg |-> Erased]
  /\ UNCHANGED pwr

DevWrite(l) ==
  /\ DevSubmit([cmd |-> "write", lpn |-> l, ver |-> latest[l] + 1])
  /\ latest' = [latest EXCEPT ![l] = @ + 1]

DevRead(l) ==
  /\ DevSubmit([cmd |-> "read", lpn |-> l])
  /\ UNCHANGED latest

DevShutdown(opt) ==
  /\ DevSubmit([cmd |-> "shutdown", opt |-> opt])
  /\ UNCHANGED latest

\* The page a read of l returns.
Contents(l) ==
  IF latest[l] = 0 THEN Erased ELSE [k |-> "data", lpn |-> l, ver |-> latest[l]]

\* The outstanding request is answered; the power goes off with the answer
\* to a shutdown.
DevAnswer ==
  /\ pwr /\ pend # NoReq
  /\ rsp' = [req |-> pend, pg |-> IF pend.cmd = "read" THEN Contents(pend.lpn) ELSE Erased]
  /\ pend' = NoReq
  /\ pwr' = (pend.cmd # "shutdown")
  /\ UNCHANGED latest

DevPowerOn ==
  /\ ~pwr
  /\ pwr' = TRUE
  /\ UNCHANGED <<latest, pend, rsp>>

DevNext ==
  \/ \E l \in LPN : DevWrite(l) \/ DevRead(l)
  \/ \E opt \in ShutdownOpt : DevShutdown(opt)
  \/ DevAnswer
  \/ DevPowerOn

DevSpec == DevInit /\ [][DevNext]_devVars
=============================================================================
