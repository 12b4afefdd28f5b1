---------------------------- MODULE MCBackground ----------------------------
(***************************************************************************)
(* The components the user's app talks to in the background, one after the *)
(* other: "part" says which one a behaviour is about, the others stay in   *)
(* their initial state.  They share no state.  Detection is looked at with *)
(* all photos and no fault, and with one photo and faults.                 *)
(***************************************************************************)
EXTENDS DetectJobs, WardrobeItems, Sessions

CONSTANT p1  \* the photo of the behaviours with faults

VARIABLE part

Parts == {"detect", "faulty", "items", "session"}
Detecting == part \in {"detect", "faulty"}

BackgroundTypeOK ==
  part \in Parts /\ DetectTypeOK /\ ItemTypeOK /\ SessTypeOK

MCInit == DetectInit /\ ItemInit /\ SessInit /\ part \in Parts

MCNext ==
  \/ /\ Detecting /\ DetectNext /\ UNCHANGED <<itemVars, sessVars, part>>
     /\ part = "detect" => detFaults' = 0
     /\ part = "faulty" => \A p \in Photos \ {p1} : app'[p].loop = "idle"
  \/ part = "items" /\ ItemNext /\ UNCHANGED <<detectVars, sessVars, part>>
  \/ part = "session" /\ SessNext /\ UNCHANGED <<detectVars, itemVars, part>>

\* The fairness of each component, for the behaviours that are about it.
MCFairness ==
  /\ \A p \in Photos : /\ WF_detectVars(Detecting /\ ServerStep(p))
                       /\ WF_detectVars(Detecting /\ AppStep(p))
  /\ WF_detectVars(Detecting /\ DetectTick)
  /\ WF_itemVars(part = "items" /\ DetectStep) /\ WF_itemVars(part = "items" /\ WorkerTicks)
  /\ \A p \in Passes : WF_itemVars(part = "items" /\ PassStep(p))
  /\ \A u \in Updates : /\ WF_itemVars(part = "items" /\ UpdateStep(u))
                        /\ WF_itemVars(part = "items" /\ MakePng(u))
  /\ WF_sessVars(part = "session" /\ RefreshStep)

MCSpec == MCInit /\ [][MCNext]_<<detectVars, itemVars, sessVars, part>> /\ MCFairness

-----------------------------------------------------------------------------
\* RetriesEnd, of the behaviours that are about an item.
ItemRetriesEnd == part = "items" => RetriesEnd

\* Nothing the app waits for, a detection or a refresh, keeps it waiting for ever.
WaitingEnds == DetectionResolves /\ RequestsResolve
=============================================================================
