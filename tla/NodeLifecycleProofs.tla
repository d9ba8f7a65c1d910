------------------------- MODULE NodeLifecycleProofs -------------------------
(***************************************************************************)
(* NodeLifecycle for every set of interfaces and every set of failures: a  *)
(* stopped node keeps its links, a Start that reports success has brought  *)
(* them back, and a Delete leaves nothing behind.                          *)
(***************************************************************************)
EXTENDS NodeLifecycle, TLAPS

StopPc    == {"stop", "park", "capture", "capture-move", "capture-rollback", "stop-container",
              "relink"}
StartPc   == {"start", "start-restore", "start-undo", "start-repoint", "start-link"}
DeletePc  == {"delete", "delete-container", "delete-done", "delete-failed"}
RestorePc == {"restore", "restore-move", "restore-rollback", "restore-failed"}

Control   == {"idle"} \cup StopPc \cup StartPc \cup DeletePc \cup RestorePc

(***************************************************************************)
(* The inductive invariant, in parts.                                      *)
(***************************************************************************)

\* The code that runs belongs to the command, and RestoreTo to its caller.
CommandMatches ==
    /\ pc \in StopPc => cmd \in {"stop", "restart"}
    /\ pc \in StartPc => cmd \in {"start", "restart"}
    /\ pc \in DeletePc => cmd = "delete" /\ removed
    /\ pc \in RestorePc =>
          cmd \in IF caller = "Start" THEN {"start", "restart"} ELSE {"stop", "restart"}

\* Interfaces are parked only in a parking namespace that exists.
ParkedInNamespace ==
    /\ ~ parkNs => \A i \in Iface : place[i] # "parking"
    /\ pc \in {"capture", "capture-move", "capture-rollback", "restore-move", "restore-rollback"} =>
          parkNs
    /\ pc = "start-link" => ~ parkNs

\* The container and its interfaces are gone before Delete can report success.
DeletedBeforeDone ==
    pc = "delete-done" => status = "notfound" /\ \A i \in Iface : place[i] # "container"

All(p) == \A i \in Iface : place[i] = p
Kept   == \A i \in Iface : place[i] # "gone"

Attached == status = "running" /\ All("container") /\ ~ parkNs /\ symlink # "parking"
Parked   == status = "stopped" /\ All("parking") /\ parkNs /\ symlink # "container"

\* The container runs while its interfaces are on their way: those of S are in p.
OnTheWay(S, p) == /\ status = "running" /\ parkNs /\ Kept
                  /\ \A i \in Iface : i \in S <=> place[i] = p

\* Who is about to restore: ParkEndpoints and Stop have met a failure already, Start
\* has started the container.
Restoring == \/ caller = "ParkEndpoints" /\ faults > 0 /\ symlink # "parking"
             \/ caller = "Stop" /\ faults > 0
             \/ caller = "Start" /\ started /\ symlink = "container"

\* A restore that has failed was called by Start.
RestoreFailing == caller = "Start" /\ started /\ faults > 0

\* Where the interfaces are at every point of a command that has met at most one
\* failure, on a node that nobody has tried to delete.
Undisturbed ==
    /\ pc \in {"idle", "stop", "start"} => Attached \/ Parked
    /\ pc \in {"stop", "park"} => moved = {}
    /\ pc = "park" => Attached
    /\ pc = "capture" => /\ status = "running" /\ All("container") /\ parkNs
                         /\ symlink # "parking" /\ moved = {}
    /\ pc = "capture-move" => /\ OnTheWay(todo, "container") /\ OnTheWay(moved, "parking")
                              /\ symlink # "parking"
    /\ pc = "capture-rollback" => /\ OnTheWay(moved, "parking") /\ faults > 0
                                  /\ symlink # "parking"
    /\ pc = "stop-container" => /\ status = "running" /\ All("parking") /\ parkNs
                                /\ symlink = "parking"
    /\ pc = "relink" => status = "running" /\ All("container") /\ ~ parkNs /\ faults > 0
    /\ pc = "restore" => status = "running" /\ All("parking") /\ parkNs /\ Restoring
    /\ pc = "restore-move" => /\ OnTheWay(todo, "parking") /\ OnTheWay(moved, "container")
                              /\ moved \subseteq up /\ Restoring
    /\ pc = "restore-rollback" => OnTheWay(moved, "container") /\ RestoreFailing
    /\ pc = "restore-failed" => /\ status = "running" /\ All("parking") /\ parkNs
                                /\ RestoreFailing
    /\ pc = "start-restore" => /\ status = "running" /\ All("parking") /\ parkNs
                               /\ symlink = "container" /\ started
    /\ pc = "start-undo" => /\ status = "running" /\ All("parking") /\ parkNs
                            /\ started /\ faults > 0
    /\ pc = "start-repoint" => status = "stopped" /\ All("parking") /\ parkNs /\ faults > 0
    /\ pc = "start-link" => /\ status = "running" /\ All("container") /\ up = Iface
                            /\ symlink = "container"

Calm == ~ disturbed /\ ~ removed

\* What a command has achieved when it reports success.
ResultsHold ==
    pc = "idle" =>
        /\ cmd \in {"start", "restart"} /\ result = "ok" =>
              /\ ~ parkNs
              /\ hasParkingState /\ Calm => All("container") /\ up = Iface /\ symlink = "container"
        /\ cmd = "delete" /\ result # "none" =>
              /\ parkNs => disturbed
              /\ result = "ok" => /\ ~ parkNs /\ status = "notfound"
                                  /\ \A i \in Iface : place[i] # "container"

LifeInv == /\ TypeOK /\ CommandMatches /\ ParkedInNamespace /\ DeletedBeforeDone /\ ResultsHold
           /\ Calm => Undisturbed
(***************************************************************************)
(* Types.                                                                  *)
(***************************************************************************)

\* A step that makes calls meets one failure or none.
LEMMA FaultTypes ==
    ASSUME NEW f, disturbed \in BOOLEAN, faults \in 0..MaxFaults, Fault(f) \/ NoFault
    PROVE  disturbed' \in BOOLEAN /\ faults' \in 0..MaxFaults
<1>1. disturbed' \in BOOLEAN
  BY Zenon DEF Fault, NoFault, faultVars
<1>2. faults' \in 0..MaxFaults
  BY FaultAssumption DEF Fault, NoFault, faultVars
<1> QED
  BY <1>1, <1>2

\* The count of the failures.
LEMMA NextFaultTypes ==
    ASSUME TypeOK, [Next]_vars PROVE disturbed' \in BOOLEAN /\ faults' \in 0..MaxFaults
<1> USE FaultTypes, FaultAssumption DEF TypeOK, faultVars, cleanupParkingNetNS,
   cleanupFails, LinkFails
<1>1. CASE \E c \in Command : begin(c)
  BY <1>1 DEF begin
<1>2. CASE Stop
  BY <1>2 DEF Stop
<1>3. CASE ParkEndpoints
  BY <1>3 DEF ParkEndpoints
<1>4. CASE captureCandidates
  BY <1>4 DEF captureCandidates
<1>5. CASE \E i \in Iface : CaptureFrom(i)
  BY <1>5 DEF CaptureFrom
<1>6. CASE \E i \in Iface : captureFails(i)
  BY <1>6 DEF captureFails
<1>7. CASE \E i \in Iface : captureRollback(i)
  BY <1>7 DEF captureRollback
<1>8. CASE captureAbort
  BY <1>8 DEF captureAbort
<1>9. CASE RepointSymlink
  BY <1>9 DEF RepointSymlink
<1>10. CASE LifecycleStopContainers
  BY <1>10 DEF LifecycleStopContainers
<1>11. CASE relinkAfterStop
  BY <1>11 DEF relinkAfterStop
<1>12. CASE DiscoverOwnedEndpoints
  BY <1>12 DEF DiscoverOwnedEndpoints
<1>13. CASE \E i \in Iface : RestoreTo(i)
  BY <1>13 DEF RestoreTo
<1>14. CASE \E i \in Iface : restoreFails(i)
  BY <1>14 DEF restoreFails
<1>15. CASE \E i \in Iface : restoreRollback(i)
  BY <1>15 DEF restoreRollback
<1>16. CASE restoreGivesUp
  BY <1>16 DEF restoreGivesUp
<1>17. CASE RestoreEndpoints
  <2>1. NoFault \/ Fault("cleanup")
    BY <1>17 DEF RestoreEndpoints
  <2> QED
    BY <2>1
<1>18. CASE restoreFailed
  BY <1>18 DEF restoreFailed
<1>19. CASE Start
  BY <1>19 DEF Start
<1>20. CASE startRestore
  BY <1>20 DEF startRestore
<1>21. CASE undoStart
  BY <1>21 DEF undoStart
<1>22. CASE repointToParking
  BY <1>22 DEF repointToParking
<1>23. CASE linkContainerNetNSSymlink
  BY <1>23 DEF linkContainerNetNSSymlink
<1>24. CASE Delete
  BY <1>24 DEF Delete
<1>25. CASE DeleteContainer
  BY <1>25 DEF DeleteContainer
<1>26. CASE deferredCleanup
  BY <1>26 DEF deferredCleanup
<1>27. CASE kill
  BY <1>27 DEF kill
<1>28. CASE containerExit
  BY <1>28 DEF containerExit
<1>29. CASE dockerStart
  BY <1>29 DEF dockerStart
<1>30. CASE UNCHANGED vars
  BY <1>30 DEF vars
<1> QED
  BY <1>1, <1>2, <1>3, <1>4, <1>5, <1>6, <1>7, <1>8, <1>9, <1>10, <1>11, <1>12, <1>13,
     <1>14, <1>15, <1>16, <1>17, <1>18, <1>19, <1>20, <1>21, <1>22, <1>23, <1>24, <1>25,
     <1>26, <1>27, <1>28, <1>29, <1>30 DEF Next, CommandStep, IfaceStep

\* The flags of the state.
LEMMA NextBooleans ==
    ASSUME TypeOK, [Next]_vars PROVE /\ parkNs' \in BOOLEAN /\ started' \in BOOLEAN
           /\ hasParkingState' \in BOOLEAN /\ removed' \in BOOLEAN
<1> USE DEF TypeOK, worldVars, startVars, loopVars, cleanupParkingNetNS, cleanupFails
<1>1. CASE \E c \in Command : begin(c)
  BY <1>1, Zenon DEF begin
<1>2. CASE Stop
  BY <1>2, Zenon DEF Stop
<1>3. CASE ParkEndpoints
  BY <1>3, Zenon DEF ParkEndpoints
<1>4. CASE captureCandidates
  BY <1>4, Zenon DEF captureCandidates
<1>5. CASE \E i \in Iface : CaptureFrom(i)
  BY <1>5, Zenon DEF CaptureFrom
<1>6. CASE \E i \in Iface : captureFails(i)
  BY <1>6, Zenon DEF captureFails
<1>7. CASE \E i \in Iface : captureRollback(i)
  BY <1>7, Zenon DEF captureRollback
<1>8. CASE captureAbort
  BY <1>8, Zenon DEF captureAbort
<1>9. CASE RepointSymlink
  BY <1>9, Zenon DEF RepointSymlink
<1>10. CASE LifecycleStopContainers
  BY <1>10, Zenon DEF LifecycleStopContainers
<1>11. CASE relinkAfterStop
  BY <1>11, Zenon DEF relinkAfterStop
<1>12. CASE DiscoverOwnedEndpoints
  BY <1>12, Zenon DEF DiscoverOwnedEndpoints
<1>13. CASE \E i \in Iface : RestoreTo(i)
  BY <1>13, Zenon DEF RestoreTo
<1>14. CASE \E i \in Iface : restoreFails(i)
  BY <1>14, Zenon DEF restoreFails
<1>15. CASE \E i \in Iface : restoreRollback(i)
  BY <1>15, Zenon DEF restoreRollback
<1>16. CASE restoreGivesUp
  BY <1>16, Zenon DEF restoreGivesUp
<1>17. CASE RestoreEndpoints
  BY <1>17, Zenon DEF RestoreEndpoints
<1>18. CASE restoreFailed
  BY <1>18, Zenon DEF restoreFailed
<1>19. CASE Start
  BY <1>19, Zenon DEF Start
<1>20. CASE startRestore
  BY <1>20, Zenon DEF startRestore
<1>21. CASE undoStart
  BY <1>21, Zenon DEF undoStart
<1>22. CASE repointToParking
  BY <1>22, Zenon DEF repointToParking
<1>23. CASE linkContainerNetNSSymlink
  BY <1>23, Zenon DEF linkContainerNetNSSymlink
<1>24. CASE Delete
  BY <1>24, Zenon DEF Delete
<1>25. CASE DeleteContainer
  BY <1>25, Zenon DEF DeleteContainer
<1>26. CASE deferredCleanup
  BY <1>26, Zenon DEF deferredCleanup
<1>27. CASE kill
  BY <1>27, Zenon DEF kill
<1>28. CASE containerExit
  BY <1>28, Zenon DEF containerExit
<1>29. CASE dockerStart
  BY <1>29, Zenon DEF dockerStart
<1>30. CASE UNCHANGED vars
  BY <1>30, Zenon DEF vars
<1> QED
  BY <1>1, <1>2, <1>3, <1>4, <1>5, <1>6, <1>7, <1>8, <1>9, <1>10, <1>11, <1>12, <1>13,
     <1>14, <1>15, <1>16, <1>17, <1>18, <1>19, <1>20, <1>21, <1>22, <1>23, <1>24, <1>25,
     <1>26, <1>27, <1>28, <1>29, <1>30 DEF Next, CommandStep, IfaceStep

\* The interfaces and the control.
LEMMA NextRest ==
    ASSUME TypeOK, [Next]_vars PROVE /\ status' \in {"running", "stopped", "notfound"}
           /\ place' \in [Iface -> {"container", "parking", "gone"}] /\ up' \subseteq Iface
           /\ symlink' \in {"container", "parking", "none"}
           /\ todo' \subseteq Iface /\ moved' \subseteq Iface
           /\ caller' \in {"none", "ParkEndpoints", "Stop", "Start"}
<1> USE IfaceAssumption DEF TypeOK, worldVars, loopVars, In, Lose, Moved,
   cleanupParkingNetNS, cleanupFails, containerStops, LinkFails
<1>1. CASE \E c \in Command : begin(c)
  BY <1>1 DEF begin
<1>2. CASE Stop
  BY <1>2 DEF Stop
<1>3. CASE ParkEndpoints
  BY <1>3 DEF ParkEndpoints
<1>4. CASE captureCandidates
  BY <1>4 DEF captureCandidates
<1>5. CASE \E i \in Iface : CaptureFrom(i)
  BY <1>5 DEF CaptureFrom
<1>6. CASE \E i \in Iface : captureFails(i)
  BY <1>6 DEF captureFails
<1>7. CASE \E i \in Iface : captureRollback(i)
  BY <1>7 DEF captureRollback
<1>8. CASE captureAbort
  BY <1>8 DEF captureAbort
<1>9. CASE RepointSymlink
  BY <1>9 DEF RepointSymlink
<1>10. CASE LifecycleStopContainers
  BY <1>10 DEF LifecycleStopContainers
<1>11. CASE relinkAfterStop
  BY <1>11 DEF relinkAfterStop
<1>12. CASE DiscoverOwnedEndpoints
  BY <1>12 DEF DiscoverOwnedEndpoints
<1>13. CASE \E i \in Iface : RestoreTo(i)
  BY <1>13 DEF RestoreTo
<1>14. CASE \E i \in Iface : restoreFails(i)
  BY <1>14 DEF restoreFails
<1>15. CASE \E i \in Iface : restoreRollback(i)
  BY <1>15 DEF restoreRollback
<1>16. CASE restoreGivesUp
  BY <1>16 DEF restoreGivesUp
<1>17. CASE RestoreEndpoints
  BY <1>17 DEF RestoreEndpoints
<1>18. CASE restoreFailed
  BY <1>18 DEF restoreFailed
<1>19. CASE Start
  BY <1>19 DEF Start
<1>20. CASE startRestore
  BY <1>20 DEF startRestore
<1>21. CASE undoStart
  BY <1>21 DEF undoStart
<1>22. CASE repointToParking
  BY <1>22 DEF repointToParking
<1>23. CASE linkContainerNetNSSymlink
  BY <1>23 DEF linkContainerNetNSSymlink
<1>24. CASE Delete
  BY <1>24 DEF Delete
<1>25. CASE DeleteContainer
  BY <1>25 DEF DeleteContainer
<1>26. CASE deferredCleanup
  BY <1>26 DEF deferredCleanup
<1>27. CASE kill
  BY <1>27 DEF kill
<1>28. CASE containerExit
  BY <1>28 DEF containerExit
<1>29. CASE dockerStart
  BY <1>29 DEF dockerStart
<1>30. CASE UNCHANGED vars
  BY <1>30 DEF vars
<1> QED
  BY <1>1, <1>2, <1>3, <1>4, <1>5, <1>6, <1>7, <1>8, <1>9, <1>10, <1>11, <1>12, <1>13,
     <1>14, <1>15, <1>16, <1>17, <1>18, <1>19, <1>20, <1>21, <1>22, <1>23, <1>24, <1>25,
     <1>26, <1>27, <1>28, <1>29, <1>30 DEF Next, CommandStep, IfaceStep

\* The command and where it is.
LEMMA NextControl ==
    ASSUME TypeOK, [Next]_vars PROVE cmd' \in Command \cup {"none"} /\ pc' \in Control /\ result' \in {"none", "ok", "error"}
<1> USE DEF TypeOK, Command, Control, StopPc, StartPc, DeletePc, RestorePc, Goto, Return,
   StopOk, AfterRestore
<1>1. CASE \E c \in Command : begin(c)
  BY <1>1 DEF begin
<1>2. CASE Stop
  BY <1>2 DEF Stop
<1>3. CASE ParkEndpoints
  BY <1>3 DEF ParkEndpoints
<1>4. CASE captureCandidates
  BY <1>4 DEF captureCandidates
<1>5. CASE \E i \in Iface : CaptureFrom(i)
  BY <1>5 DEF CaptureFrom
<1>6. CASE \E i \in Iface : captureFails(i)
  BY <1>6 DEF captureFails
<1>7. CASE \E i \in Iface : captureRollback(i)
  BY <1>7 DEF captureRollback
<1>8. CASE captureAbort
  BY <1>8 DEF captureAbort
<1>9. CASE RepointSymlink
  BY <1>9 DEF RepointSymlink
<1>10. CASE LifecycleStopContainers
  BY <1>10 DEF LifecycleStopContainers
<1>11. CASE relinkAfterStop
  BY <1>11 DEF relinkAfterStop
<1>12. CASE DiscoverOwnedEndpoints
  BY <1>12 DEF DiscoverOwnedEndpoints
<1>13. CASE \E i \in Iface : RestoreTo(i)
  BY <1>13 DEF RestoreTo
<1>14. CASE \E i \in Iface : restoreFails(i)
  BY <1>14 DEF restoreFails
<1>15. CASE \E i \in Iface : restoreRollback(i)
  BY <1>15 DEF restoreRollback
<1>16. CASE restoreGivesUp
  BY <1>16 DEF restoreGivesUp
<1>17. CASE RestoreEndpoints
  BY <1>17 DEF RestoreEndpoints
<1>18. CASE restoreFailed
  BY <1>18 DEF restoreFailed
<1>19. CASE Start
  BY <1>19 DEF Start
<1>20. CASE startRestore
  BY <1>20 DEF startRestore
<1>21. CASE undoStart
  BY <1>21 DEF undoStart
<1>22. CASE repointToParking
  BY <1>22 DEF repointToParking
<1>23. CASE linkContainerNetNSSymlink
  BY <1>23 DEF linkContainerNetNSSymlink
<1>24. CASE Delete
  BY <1>24 DEF Delete
<1>25. CASE DeleteContainer
  BY <1>25 DEF DeleteContainer
<1>26. CASE deferredCleanup
  BY <1>26 DEF deferredCleanup
<1>27. CASE kill
  BY <1>27 DEF kill
<1>28. CASE containerExit
  BY <1>28 DEF containerExit
<1>29. CASE dockerStart
  BY <1>29 DEF dockerStart
<1>30. CASE UNCHANGED vars
  BY <1>30 DEF vars
<1> QED
  BY <1>1, <1>2, <1>3, <1>4, <1>5, <1>6, <1>7, <1>8, <1>9, <1>10, <1>11, <1>12, <1>13,
     <1>14, <1>15, <1>16, <1>17, <1>18, <1>19, <1>20, <1>21, <1>22, <1>23, <1>24, <1>25,
     <1>26, <1>27, <1>28, <1>29, <1>30 DEF Next, CommandStep, IfaceStep

\* All of the state.
LEMMA NextTypeOK == TypeOK /\ [Next]_vars => TypeOK'
  BY NextFaultTypes, NextBooleans, NextRest, NextControl
     DEF TypeOK, Control, StopPc, StartPc, DeletePc, RestorePc

(***************************************************************************)
(* The other parts.                                                        *)
(***************************************************************************)

\* A deployed node is attached.
LEMMA InitLifeInv == Init => LifeInv
<1> SUFFICES ASSUME Init PROVE LifeInv
  OBVIOUS
<1>1. TypeOK
  <2>1. /\ parkNs \in BOOLEAN /\ started \in BOOLEAN /\ hasParkingState \in BOOLEAN
        /\ removed \in BOOLEAN /\ disturbed \in BOOLEAN
    BY Zenon DEF Init
  <2>2. place \in [Iface -> {"container", "parking", "gone"}] /\ faults \in 0..MaxFaults
    BY FaultAssumption DEF Init
  <2> QED
    BY <2>1, <2>2 DEF Init, TypeOK
<1>2. CommandMatches /\ ParkedInNamespace /\ DeletedBeforeDone /\ ResultsHold
  BY DEF Init, CommandMatches, ParkedInNamespace, DeletedBeforeDone, ResultsHold,
         StopPc, StartPc, DeletePc, RestorePc
<1>3. Undisturbed
  BY DEF Init, Undisturbed, Attached, All
<1> QED
  BY <1>1, <1>2, <1>3 DEF LifeInv

\* No code is reached by another command.
LEMMA NextCommandMatches ==
    ASSUME LifeInv, [Next]_vars PROVE CommandMatches'
<1> USE DEF LifeInv, CommandMatches, Command, StopPc, StartPc, DeletePc, RestorePc, Goto,
   Return, StopOk, AfterRestore, loopVars
<1>1. CASE \E c \in Command : begin(c)
  BY <1>1 DEF begin
<1>2. CASE Stop
  BY <1>2 DEF Stop
<1>3. CASE ParkEndpoints
  BY <1>3 DEF ParkEndpoints
<1>4. CASE captureCandidates
  BY <1>4 DEF captureCandidates
<1>5. CASE \E i \in Iface : CaptureFrom(i)
  BY <1>5 DEF CaptureFrom
<1>6. CASE \E i \in Iface : captureFails(i)
  BY <1>6 DEF captureFails
<1>7. CASE \E i \in Iface : captureRollback(i)
  BY <1>7 DEF captureRollback
<1>8. CASE captureAbort
  BY <1>8 DEF captureAbort
<1>9. CASE RepointSymlink
  BY <1>9 DEF RepointSymlink
<1>10. CASE LifecycleStopContainers
  BY <1>10 DEF LifecycleStopContainers
<1>11. CASE relinkAfterStop
  BY <1>11 DEF relinkAfterStop
<1>12. CASE DiscoverOwnedEndpoints
  BY <1>12 DEF DiscoverOwnedEndpoints
<1>13. CASE \E i \in Iface : RestoreTo(i)
  BY <1>13 DEF RestoreTo
<1>14. CASE \E i \in Iface : restoreFails(i)
  BY <1>14 DEF restoreFails
<1>15. CASE \E i \in Iface : restoreRollback(i)
  BY <1>15 DEF restoreRollback
<1>16. CASE restoreGivesUp
  BY <1>16 DEF restoreGivesUp
<1>17. CASE RestoreEndpoints
  BY <1>17 DEF RestoreEndpoints
<1>18. CASE restoreFailed
  BY <1>18 DEF restoreFailed
<1>19. CASE Start
  BY <1>19 DEF Start
<1>20. CASE startRestore
  BY <1>20 DEF startRestore
<1>21. CASE undoStart
  BY <1>21 DEF undoStart
<1>22. CASE repointToParking
  BY <1>22 DEF repointToParking
<1>23. CASE linkContainerNetNSSymlink
  BY <1>23 DEF linkContainerNetNSSymlink
<1>24. CASE Delete
  BY <1>24 DEF Delete
<1>25. CASE DeleteContainer
  BY <1>25 DEF DeleteContainer
<1>26. CASE deferredCleanup
  BY <1>26 DEF deferredCleanup
<1>27. CASE kill
  BY <1>27 DEF kill
<1>28. CASE containerExit
  BY <1>28 DEF containerExit
<1>29. CASE dockerStart
  BY <1>29 DEF dockerStart
<1>30. CASE UNCHANGED vars
  BY <1>30 DEF vars
<1> QED
  BY <1>1, <1>2, <1>3, <1>4, <1>5, <1>6, <1>7, <1>8, <1>9, <1>10, <1>11, <1>12, <1>13,
     <1>14, <1>15, <1>16, <1>17, <1>18, <1>19, <1>20, <1>21, <1>22, <1>23, <1>24, <1>25,
     <1>26, <1>27, <1>28, <1>29, <1>30 DEF Next, CommandStep, IfaceStep

\* The parking namespace outlives the interfaces in it.
LEMMA NextParked ==
    ASSUME LifeInv, [Next]_vars PROVE ParkedInNamespace'
<1> USE DEF LifeInv, TypeOK, ParkedInNamespace, Command, Goto, Return, StopOk, AfterRestore,
   worldVars, In, Lose, Moved, cleanupParkingNetNS, cleanupFails, containerStops
<1>1. CASE \E c \in Command : begin(c)
  BY <1>1 DEF begin
<1>2. CASE Stop
  BY <1>2 DEF Stop
<1>3. CASE ParkEndpoints
  BY <1>3 DEF ParkEndpoints
<1>4. CASE captureCandidates
  BY <1>4 DEF captureCandidates
<1>5. CASE \E i \in Iface : CaptureFrom(i)
  BY <1>5 DEF CaptureFrom
<1>6. CASE \E i \in Iface : captureFails(i)
  BY <1>6 DEF captureFails
<1>7. CASE \E i \in Iface : captureRollback(i)
  BY <1>7 DEF captureRollback
<1>8. CASE captureAbort
  BY <1>8 DEF captureAbort
<1>9. CASE RepointSymlink
  BY <1>9 DEF RepointSymlink
<1>10. CASE LifecycleStopContainers
  BY <1>10 DEF LifecycleStopContainers
<1>11. CASE relinkAfterStop
  BY <1>11 DEF relinkAfterStop
<1>12. CASE DiscoverOwnedEndpoints
  BY <1>12 DEF DiscoverOwnedEndpoints
<1>13. CASE \E i \in Iface : RestoreTo(i)
  BY <1>13 DEF RestoreTo
<1>14. CASE \E i \in Iface : restoreFails(i)
  BY <1>14 DEF restoreFails
<1>15. CASE \E i \in Iface : restoreRollback(i)
  BY <1>15 DEF restoreRollback
<1>16. CASE restoreGivesUp
  BY <1>16 DEF restoreGivesUp
<1>17. CASE RestoreEndpoints
  BY <1>17 DEF RestoreEndpoints
<1>18. CASE restoreFailed
  BY <1>18 DEF restoreFailed
<1>19. CASE Start
  BY <1>19 DEF Start
<1>20. CASE startRestore
  BY <1>20 DEF startRestore
<1>21. CASE undoStart
  BY <1>21 DEF undoStart
<1>22. CASE repointToParking
  BY <1>22 DEF repointToParking
<1>23. CASE linkContainerNetNSSymlink
  BY <1>23 DEF linkContainerNetNSSymlink
<1>24. CASE Delete
  BY <1>24 DEF Delete
<1>25. CASE DeleteContainer
  BY <1>25 DEF DeleteContainer
<1>26. CASE deferredCleanup
  BY <1>26 DEF deferredCleanup
<1>27. CASE kill
  BY <1>27 DEF kill
<1>28. CASE containerExit
  BY <1>28 DEF containerExit
<1>29. CASE dockerStart
  BY <1>29 DEF dockerStart
<1>30. CASE UNCHANGED vars
  BY <1>30 DEF vars
<1> QED
  BY <1>1, <1>2, <1>3, <1>4, <1>5, <1>6, <1>7, <1>8, <1>9, <1>10, <1>11, <1>12, <1>13,
     <1>14, <1>15, <1>16, <1>17, <1>18, <1>19, <1>20, <1>21, <1>22, <1>23, <1>24, <1>25,
     <1>26, <1>27, <1>28, <1>29, <1>30 DEF Next, CommandStep, IfaceStep

\* A deleted container stays deleted.
LEMMA NextDeleted ==
    ASSUME LifeInv, [Next]_vars PROVE DeletedBeforeDone'
<1> USE DEF LifeInv, TypeOK, DeletedBeforeDone, Command, Goto, Return, StopOk, AfterRestore,
   worldVars, In, Lose, Moved, Joinable, containerStops
<1>1. CASE \E c \in Command : begin(c)
  BY <1>1 DEF begin
<1>2. CASE Stop
  BY <1>2 DEF Stop
<1>3. CASE ParkEndpoints
  BY <1>3 DEF ParkEndpoints
<1>4. CASE captureCandidates
  BY <1>4 DEF captureCandidates
<1>5. CASE \E i \in Iface : CaptureFrom(i)
  BY <1>5 DEF CaptureFrom
<1>6. CASE \E i \in Iface : captureFails(i)
  BY <1>6 DEF captureFails
<1>7. CASE \E i \in Iface : captureRollback(i)
  BY <1>7 DEF captureRollback
<1>8. CASE captureAbort
  BY <1>8 DEF captureAbort
<1>9. CASE RepointSymlink
  BY <1>9 DEF RepointSymlink
<1>10. CASE LifecycleStopContainers
  BY <1>10 DEF LifecycleStopContainers
<1>11. CASE relinkAfterStop
  BY <1>11 DEF relinkAfterStop
<1>12. CASE DiscoverOwnedEndpoints
  BY <1>12 DEF DiscoverOwnedEndpoints
<1>13. CASE \E i \in Iface : RestoreTo(i)
  BY <1>13 DEF RestoreTo
<1>14. CASE \E i \in Iface : restoreFails(i)
  BY <1>14 DEF restoreFails
<1>15. CASE \E i \in Iface : restoreRollback(i)
  BY <1>15 DEF restoreRollback
<1>16. CASE restoreGivesUp
  BY <1>16 DEF restoreGivesUp
<1>17. CASE RestoreEndpoints
  BY <1>17 DEF RestoreEndpoints
<1>18. CASE restoreFailed
  BY <1>18 DEF restoreFailed
<1>19. CASE Start
  BY <1>19 DEF Start
<1>20. CASE startRestore
  BY <1>20 DEF startRestore
<1>21. CASE undoStart
  BY <1>21 DEF undoStart
<1>22. CASE repointToParking
  BY <1>22 DEF repointToParking
<1>23. CASE linkContainerNetNSSymlink
  BY <1>23 DEF linkContainerNetNSSymlink
<1>24. CASE Delete
  BY <1>24 DEF Delete
<1>25. CASE DeleteContainer
  BY <1>25 DEF DeleteContainer
<1>26. CASE deferredCleanup
  BY <1>26 DEF deferredCleanup
<1>27. CASE kill
  BY <1>27 DEF kill
<1>28. CASE containerExit
  BY <1>28 DEF containerExit
<1>29. CASE dockerStart
  BY <1>29 DEF dockerStart
<1>30. CASE UNCHANGED vars
  BY <1>30 DEF vars
<1> QED
  BY <1>1, <1>2, <1>3, <1>4, <1>5, <1>6, <1>7, <1>8, <1>9, <1>10, <1>11, <1>12, <1>13,
     <1>14, <1>15, <1>16, <1>17, <1>18, <1>19, <1>20, <1>21, <1>22, <1>23, <1>24, <1>25,
     <1>26, <1>27, <1>28, <1>29, <1>30 DEF Next, CommandStep, IfaceStep

\* A failure that leaves a command undisturbed is its first one, and it is not one
\* that the code does not prepare for.
LEMMA FirstFault ==
    ASSUME NEW f, TypeOK, Fault(f), ~ disturbed'
    PROVE  ~ disturbed /\ faults = 0 /\ faults' = 1 /\ f \notin {"cleanup", "post-start"}
<1>1. ~ disturbed /\ ~ (faults > 0) /\ f \notin {"cleanup", "post-start"} /\ faults' = faults + 1
  BY Zenon DEF Fault
<1> QED
  BY <1>1 DEF TypeOK

\* Without a failure nothing is disturbed.
LEMMA SameFaults ==
    ASSUME NoFault PROVE faults' = faults /\ disturbed' = disturbed
  BY DEF NoFault, faultVars

\* What was achieved lasts until the next command.
LEMMA NextResults ==
    ASSUME LifeInv, TypeOK', [Next]_vars PROVE ResultsHold'
<1> USE FirstFault, SameFaults DEF LifeInv, TypeOK, ResultsHold, Calm, Command,
   CommandMatches, ParkedInNamespace, DeletedBeforeDone, Undisturbed, StopPc, StartPc,
   DeletePc, RestorePc, Goto, Return, StopOk, AfterRestore, worldVars, startVars, faultVars,
   In, Lose, All, Joinable, LinkFails, cleanupParkingNetNS, cleanupFails, containerStops
<1>1. CASE \E c \in Command : begin(c)
  BY <1>1 DEF begin
<1>2. CASE Stop
  BY <1>2 DEF Stop
<1>3. CASE ParkEndpoints
  BY <1>3 DEF ParkEndpoints
<1>4. CASE captureCandidates
  BY <1>4 DEF captureCandidates
<1>5. CASE \E i \in Iface : CaptureFrom(i)
  BY <1>5 DEF CaptureFrom
<1>6. CASE \E i \in Iface : captureFails(i)
  BY <1>6 DEF captureFails
<1>7. CASE \E i \in Iface : captureRollback(i)
  BY <1>7 DEF captureRollback
<1>8. CASE captureAbort
  BY <1>8 DEF captureAbort
<1>9. CASE RepointSymlink
  BY <1>9 DEF RepointSymlink
<1>10. CASE LifecycleStopContainers
  BY <1>10 DEF LifecycleStopContainers
<1>11. CASE relinkAfterStop
  BY <1>11 DEF relinkAfterStop
<1>12. CASE DiscoverOwnedEndpoints
  BY <1>12 DEF DiscoverOwnedEndpoints
<1>13. CASE \E i \in Iface : RestoreTo(i)
  BY <1>13 DEF RestoreTo
<1>14. CASE \E i \in Iface : restoreFails(i)
  BY <1>14 DEF restoreFails
<1>15. CASE \E i \in Iface : restoreRollback(i)
  BY <1>15 DEF restoreRollback
<1>16. CASE restoreGivesUp
  BY <1>16 DEF restoreGivesUp
<1>17. CASE RestoreEndpoints
  BY <1>17 DEF RestoreEndpoints
<1>18. CASE restoreFailed
  BY <1>18 DEF restoreFailed
<1>19. CASE Start
  BY <1>19 DEF Start
<1>20. CASE startRestore
  BY <1>20 DEF startRestore
<1>21. CASE undoStart
  BY <1>21 DEF undoStart
<1>22. CASE repointToParking
  BY <1>22 DEF repointToParking
<1>23. CASE linkContainerNetNSSymlink
  BY <1>23 DEF linkContainerNetNSSymlink
<1>24. CASE Delete
  BY <1>24 DEF Delete
<1>25. CASE DeleteContainer
  BY <1>25 DEF DeleteContainer
<1>26. CASE deferredCleanup
  BY <1>26 DEF deferredCleanup
<1>27. CASE kill
  BY <1>27 DEF kill
<1>28. CASE containerExit
  BY <1>28 DEF containerExit
<1>29. CASE dockerStart
  BY <1>29 DEF dockerStart
<1>30. CASE UNCHANGED vars
  BY <1>30 DEF vars
<1> QED
  BY <1>1, <1>2, <1>3, <1>4, <1>5, <1>6, <1>7, <1>8, <1>9, <1>10, <1>11, <1>12, <1>13,
     <1>14, <1>15, <1>16, <1>17, <1>18, <1>19, <1>20, <1>21, <1>22, <1>23, <1>24, <1>25,
     <1>26, <1>27, <1>28, <1>29, <1>30 DEF Next, CommandStep, IfaceStep

\* An undisturbed command loses nothing.
LEMMA NextUndisturbed ==
    ASSUME LifeInv, TypeOK', Calm', [Next]_vars PROVE Undisturbed'
<1> USE FirstFault, SameFaults DEF LifeInv, TypeOK, Calm, Command, Undisturbed, Attached,
   Parked, All, Kept, OnTheWay, Restoring, RestoreFailing, ParkedInNamespace,
   CommandMatches, DeletePc, Goto, Return, StopOk, AfterRestore, worldVars, loopVars,
   startVars, faultVars, In, Lose, Moved, Joinable, LinkFails, cleanupParkingNetNS,
   cleanupFails, containerStops
<1>1. CASE \E c \in Command : begin(c)
  BY <1>1 DEF begin
<1>2. CASE Stop
  BY <1>2 DEF Stop
<1>3. CASE ParkEndpoints
  BY <1>3 DEF ParkEndpoints
<1>4. CASE captureCandidates
  BY <1>4 DEF captureCandidates
<1>5. CASE \E i \in Iface : CaptureFrom(i)
  BY <1>5 DEF CaptureFrom
<1>6. CASE \E i \in Iface : captureFails(i)
  BY <1>6 DEF captureFails
<1>7. CASE \E i \in Iface : captureRollback(i)
  BY <1>7 DEF captureRollback
<1>8. CASE captureAbort
  BY <1>8 DEF captureAbort
<1>9. CASE RepointSymlink
  BY <1>9 DEF RepointSymlink
<1>10. CASE LifecycleStopContainers
  BY <1>10 DEF LifecycleStopContainers
<1>11. CASE relinkAfterStop
  BY <1>11 DEF relinkAfterStop
<1>12. CASE DiscoverOwnedEndpoints
  BY <1>12 DEF DiscoverOwnedEndpoints
<1>13. CASE \E i \in Iface : RestoreTo(i)
  BY <1>13 DEF RestoreTo
<1>14. CASE \E i \in Iface : restoreFails(i)
  BY <1>14 DEF restoreFails
<1>15. CASE \E i \in Iface : restoreRollback(i)
  BY <1>15 DEF restoreRollback
<1>16. CASE restoreGivesUp
  BY <1>16 DEF restoreGivesUp
<1>17. CASE RestoreEndpoints
  <2>1. NoFault \/ Fault("cleanup")
    BY <1>17 DEF RestoreEndpoints
  <2>2. ~ disturbed /\ NoFault
    BY <2>1
  <2>3. Calm
    BY <1>17, <2>2 DEF RestoreEndpoints
  <2>4. All("container") /\ moved = Iface
    BY <1>17, <2>3 DEF RestoreEndpoints
  <2>5. /\ pc = "restore-move" /\ parkNs' = FALSE /\ place' = place /\ up' = up
        /\ UNCHANGED <<status, symlink, caller, faults>> /\ AfterRestore(TRUE)
    BY <1>17, <2>1, <2>2, <2>4 DEF RestoreEndpoints
  <2>6. Restoring /\ status = "running" /\ moved \subseteq up
    BY <2>3, <2>5
  <2> QED
    BY <2>4, <2>5, <2>6
<1>18. CASE restoreFailed
  BY <1>18 DEF restoreFailed
<1>19. CASE Start
  BY <1>19 DEF Start
<1>20. CASE startRestore
  BY <1>20 DEF startRestore
<1>21. CASE undoStart
  BY <1>21 DEF undoStart
<1>22. CASE repointToParking
  BY <1>22 DEF repointToParking
<1>23. CASE linkContainerNetNSSymlink
  BY <1>23 DEF linkContainerNetNSSymlink
<1>24. CASE Delete
  BY <1>24 DEF Delete
<1>25. CASE DeleteContainer
  BY <1>25 DEF DeleteContainer
<1>26. CASE deferredCleanup
  BY <1>26 DEF deferredCleanup
<1>27. CASE kill
  BY <1>27 DEF kill
<1>28. CASE containerExit
  BY <1>28 DEF containerExit
<1>29. CASE dockerStart
  BY <1>29 DEF dockerStart
<1>30. CASE UNCHANGED vars
  BY <1>30 DEF vars
<1> QED
  BY <1>1, <1>2, <1>3, <1>4, <1>5, <1>6, <1>7, <1>8, <1>9, <1>10, <1>11, <1>12, <1>13,
     <1>14, <1>15, <1>16, <1>17, <1>18, <1>19, <1>20, <1>21, <1>22, <1>23, <1>24, <1>25,
     <1>26, <1>27, <1>28, <1>29, <1>30 DEF Next, CommandStep, IfaceStep
\* Every step of a command, of the environment and of a kill keeps the invariant.
LEMMA NextLifeInv == LifeInv /\ [Next]_vars => LifeInv'
<1> SUFFICES ASSUME LifeInv, [Next]_vars PROVE LifeInv'
  OBVIOUS
<1>1. TypeOK'
  BY NextTypeOK DEF LifeInv
<1>2. CommandMatches' /\ ParkedInNamespace' /\ DeletedBeforeDone'
  BY NextCommandMatches, NextParked, NextDeleted
<1>3. ResultsHold' /\ (Calm' => Undisturbed')
  BY <1>1, NextResults, NextUndisturbed
<1> QED
  BY <1>1, <1>2, <1>3 DEF LifeInv

\* The invariant holds in every reachable state.
THEOREM LifeInvHolds == Spec => []LifeInv
  BY InitLifeInv, NextLifeInv, PTL DEF Spec

(***************************************************************************)
(* What it establishes.                                                    *)
(***************************************************************************)

\* The state of the commands is well typed.
THEOREM TypeCorrect == Spec => []TypeOK
<1>1. LifeInv => TypeOK
  BY DEF LifeInv
<1> QED
  BY <1>1, LifeInvHolds, PTL

\* Stop, Start and restart, in any order and each with one failure it prepares for,
\* lose no interface of the node: they are attached or parked between the commands.
THEOREM InterfacesSurvive == Spec => []NoInterfaceLost
<1>1. LifeInv => NoInterfaceLost
  <2> SUFFICES ASSUME LifeInv, ~ disturbed, ~ removed
               PROVE  /\ \A i \in Iface : place[i] # "gone"
                      /\ pc = "idle" => Attached \/ Parked
    BY DEF NoInterfaceLost, LinksKept, In, Attached, Parked, All
  <2>1. Undisturbed
    BY DEF LifeInv, Calm
  <2>2. pc \notin DeletePc
    BY DEF LifeInv, CommandMatches
  <2>3. pc \in {"idle", "stop", "park", "capture", "capture-move", "capture-rollback",
                "stop-container", "relink", "restore", "restore-move", "restore-rollback",
                "restore-failed", "start", "start-restore", "start-undo", "start-repoint",
                "start-link"}
    BY <2>2 DEF LifeInv, TypeOK, DeletePc
  <2>4. Kept
    BY <2>1, <2>3 DEF Undisturbed, Attached, Parked, All, Kept, OnTheWay
  <2> QED
    BY <2>1, <2>4 DEF Undisturbed, Kept
<1> QED
  BY <1>1, LifeInvHolds, PTL

\* A Start that reports success has left no interface parked, and after an undisturbed
\* Stop every interface is back in the container and up.
THEOREM StartTheorem == Spec => []StartRestores
<1>1. LifeInv => StartRestores
  BY DEF LifeInv, TypeOK, ResultsHold, ParkedInNamespace, Calm, StartRestores, In, All
<1> QED
  BY <1>1, LifeInvHolds, PTL

\* Delete always removes the parking namespace unless that very call fails, and
\* reports success only when nothing of the node is left.
THEOREM DeleteTheorem == Spec => []DeleteCleansUp
<1>1. LifeInv => DeleteCleansUp
  BY DEF LifeInv, TypeOK, ResultsHold, ParkedInNamespace, DeleteCleansUp, In
<1> QED
  BY <1>1, LifeInvHolds, PTL
=============================================================================
