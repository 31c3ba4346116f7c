---------------------------- MODULE BlockDevice ----------------------------
(***************************************************************************)
(* What fat.c takes from disk.c: a device that is opened once and then     *)
(* serves one read request at a time.  A request is answered exactly once; *)
(* status 0 promises the requested sectors, any other status promises      *)
(* nothing about the buffer.                                               *)
(***************************************************************************)
EXTENDS Integers

CONSTANTS Lbas,      \* sector numbers that may be requested
          Counts     \* sector counts that may be requested

VARIABLES phase,     \* "off", "ready", "busy", "done" or "dead"
          lba, count,\* the request being served, or the last one
          status,    \* answer to the last request, Pending while busy
          data       \* the caller's buffer: the sectors it holds

vars == <<phase, lba, count, status, data>>

Pending == -1
Nothing == <<>>
Sectors(l, n) == [k \in 0 .. n - 1 |-> l + k]

Init ==
  /\ phase = "off"
  /\ lba = 0
  /\ count = 0
  /\ status = Pending
  /\ data = Nothing

Open ==
  /\ phase = "off"
  /\ phase' \in {"ready", "dead"}
  /\ UNCHANGED <<lba, count, status, data>>

Request(l, n) ==
  /\ phase \in {"ready", "done"}
  /\ phase' = "busy"
  /\ lba' = l
  /\ count' = n
  /\ status' = Pending
  /\ data' = Nothing

Answer ==
  /\ phase = "busy"
  /\ phase' = "done"
  /\ \/ /\ status' = 0
        /\ data' = Sectors(lba, count)
     \/ /\ status' \in Nat \ {0}
        /\ UNCHANGED data
  /\ UNCHANGED <<lba, count>>

Next ==
  \/ Open
  \/ \E l \in Lbas, n \in Counts : Request(l, n)
  \/ Answer

Spec == Init /\ [][Next]_vars

\* A pending request is eventually answered.
FairSpec == Spec /\ WF_vars(Answer)
=============================================================================
