---------------------------- MODULE JobLifecycle ----------------------------
(***************************************************************************)
(* What the asynchronous outfit API promises about its durable job rows,   *)
(* whatever the handler, the worker, the sweeper, the caches and the       *)
(* process do: a job only moves forward along                              *)
(*                                                                         *)
(*    absent -> pending -> processing -> completed | failed -> reaped      *)
(*                                                                         *)
(* a finished job never changes its verdict, and a client is never given   *)
(* the id of a job that was not stored.  Nothing here knows about Redis,   *)
(* slots, time or crashes; OutfitJobs is shown to implement it.            *)
(***************************************************************************)
CONSTANT Jobs

VARIABLES
  st,         \* st[j]: the durable status of job j
  accepted    \* the job ids some client has been told

vars == <<st, accepted>>

Terminal == {"completed", "failed"}
Rows     == {"pending", "processing"} \cup Terminal
Statuses == Rows \cup {"absent", "reaped"}

\* The only ways a status may change in one step.
Edge ==
  {<<"absent", "pending">>, <<"pending", "processing">>}
    \cup ({"pending", "processing"} \X Terminal)
    \cup (Rows \X {"reaped"})

Init ==
  /\ st = [j \in Jobs |-> "absent"]
  /\ accepted = {}

\* Several rows may move at once (the boot-time recovery updates many).
Advance ==
  /\ st' \in [Jobs -> Statuses]
  /\ \A j \in Jobs : st'[j] # st[j] => <<st[j], st'[j]>> \in Edge
  /\ UNCHANGED accepted

\* A 202 hands out an id, of a new job or, on an idempotent replay, of an
\* earlier one.
Accept(j) ==
  /\ st[j] # "absent"
  /\ accepted' = accepted \cup {j}
  /\ UNCHANGED st

Next == Advance \/ \E j \in Jobs : Accept(j)

Spec == Init /\ [][Next]_vars
=============================================================================
