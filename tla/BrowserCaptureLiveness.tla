----------------------- MODULE BrowserCaptureLiveness -----------------------
(***************************************************************************)
(* What the reconciler of BrowserCapture must do in the end.  As in        *)
(* JobDeliveryLiveness, "calm" marks the time after the last fault.        *)
(***************************************************************************)
EXTENDS BrowserCapture

VARIABLE calm   \* no fault happens any more, and no POST has outlived its client

calmVars == <<vars, calm>>

CalmDown ==
  /\ ~calm /\ ~outlived
  /\ calm' = TRUE
  /\ UNCHANGED vars

CalmNext ==
  \/ Work /\ UNCHANGED calm
  \/ ~calm /\ Fault /\ UNCHANGED calm
  \/ CalmDown

CalmInit == Init /\ calm = FALSE

\* The event loop and the controller's threads keep running, the reconciler
\* comes round every two seconds as long as it has not died, and asyncio.Lock is
\* first come first served, so users who press Stop again and again cannot shut
\* the reconciler out.
CalmSpec ==
  /\ CalmInit /\ [][CalmNext]_calmVars
  /\ WF_calmVars((Serve \/ Operation) /\ UNCHANGED calm)
  /\ WF_calmVars(Watch /\ UNCHANGED calm)
  /\ WF_calmVars((SweepStatus \/ SweepLooks) /\ UNCHANGED calm)
  /\ SF_calmVars(SweepStops /\ UNCHANGED calm)

-----------------------------------------------------------------------------
\* The controller holds the finished audio of a job that waits for it.
Waiting(j) ==
  row[j].stage = "recording" /\ record[j].state # "recording" /\ record[j].audio

\* Another recording, listed before this one, has ended and cannot be imported:
\* its error ends every round of the reconciler before it gets here.  One that
\* is still under way is passed over and blocks nobody.
Broken(j) ==
  row[j].stage = "recording" /\ record[j].state # "recording" /\ ~record[j].audio

Blocked(j) ==
  \E i, k \in 1 .. Len(listing) : i < k /\ listing[k] = j /\ Broken(listing[i])

\* "A background reconciler imports it into the durable station queue even
\* when the UI is closed" (docs/APPLIANCE_ARCHITECTURE.md).
\* A reconciler that died of a database error is not held to it.
RetainedAudioIsImported ==
  \A j \in Jobs : calm /\ sweep.alive /\ Waiting(j) ~> row[j].archived

\* What the reconciler does achieve: as long as it lives, only a broken newer
\* recording stops it.
OnlyBrokenBlocks ==
  \A j \in Jobs : calm /\ sweep.alive /\ Waiting(j) ~> row[j].archived \/ Blocked(j)
=============================================================================
