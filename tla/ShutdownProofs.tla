--------------------------- MODULE ShutdownProofs ---------------------------
(***************************************************************************)
(* Proofs about Shutdown for any number of slots.                          *)
(*                                                                         *)
(* The argument follows the handles: main comes to the final update only   *)
(* when the select took the pipeline's output and the drain gave up on the *)
(* API, and a pipeline that returned has joined the tasks it spawned.  One *)
(* that panicked has not, and then the outcome says so.                    *)
(***************************************************************************)
EXTENDS Shutdown, TLAPS

\* The pipeline has ended, and main knows of a panic.
PipeIsDone == Done(pipe) /\ (pipe = "panicked" => outcome = "panicked")

\* Where the tasks are when main is at each of its points.
StageInv ==
  /\ Done(pipe) /\ pipe # "panicked" => task # "running"
  /\ main \in {"init", "serve"} => pipe = "none" /\ task = "none"
  /\ main \in {"init", "serve", "select"} => taken = {}
  /\ main \in {"serve", "select"} => "aborted" \notin {api, pipe}
  /\ main \in {"drainApi", "drainPipe"} =>
       taken = {"api"} \/ (taken = {"pipe"} /\ PipeIsDone)
  /\ main = "drainPipe" => taken = {"pipe"}
  /\ main \in {"totals", "stop"} => PipeIsDone
  /\ main = "close" => pipe # "running" /\ (task # "running" \/ outcome = "panicked")
  /\ main \in Ended => pipe = "dropped" /\ task = "dropped"
  /\ pool = "closed" => main \in {"close", "exited"}

\* The slot read for the final update is still the largest checkpoint when it is
\* written, and after it, unless a panic of the pipeline left tasks that commit.
SlotInv ==
  /\ main \notin {"stop", "close", "exited"} => lastSlot = 0
  /\ outcome # "panicked" => lastSlot \in {0, checkpoint}
  /\ status = "stopped" => main \in {"close", "exited"} /\ lastProcessed >= lastSlot

\* Before the select only a signal cancels, and a task that returned Ok was told to.
AskedInv ==
  /\ main \in {"init", "serve", "select"} => (cancel => signalled)
  /\ main \in {"serve", "select"} /\ (api = "ok" \/ pipe = "ok") => signalled
  /\ main = "init" => api = "none"
  /\ outcome = "ok" => signalled

ShutdownInv == ShutdownTypeOK /\ StageInv /\ SlotInv /\ AskedInv

-----------------------------------------------------------------------------
\* A slot is a number up to MaxSlot.
LEMMA TypeStep == ASSUME ShutdownInv, [Next]_vars PROVE ShutdownTypeOK'
<1> USE DEF ShutdownTypeOK, tasks, data, row, Ended
<1>1. ShutdownTypeOK /\ StageInv
  BY DEF ShutdownInv
<1>2. CASE StartFails
  BY <1>1, <1>2, MaxSlotIsNat DEF StartFails, Leave
<1>3. CASE CancelledBeforeStart
  BY <1>1, <1>3, MaxSlotIsNat DEF CancelledBeforeStart
<1>4. CASE StartApiOnly
  BY <1>1, <1>4, MaxSlotIsNat DEF StartApiOnly
<1>5. CASE StartPipeline
  BY <1>1, <1>5, MaxSlotIsNat DEF StartPipeline
<1>6. CASE ServeReturns
  BY <1>1, <1>6, MaxSlotIsNat DEF ServeReturns, StageInv, Done
<1>7. CASE Select("pipe", pipe)
  BY <1>1, <1>7, MaxSlotIsNat DEF Select, StageInv, Done
<1>8. CASE Select("api", api)
  BY <1>1, <1>8, MaxSlotIsNat DEF Select, StageInv, Done
<1>9. CASE DrainApi
  BY <1>1, <1>9, MaxSlotIsNat DEF DrainApi, Drain, Leave
<1>10. CASE DrainPipeline
  BY <1>1, <1>10, MaxSlotIsNat DEF DrainPipeline, Drain, Leave
<1>11. CASE DrainTimeout
  BY <1>1, <1>11, MaxSlotIsNat DEF DrainTimeout, DrainTimesOut, Aborted
<1>12. CASE ReadMaxCheckpoint
  BY <1>1, <1>12, MaxSlotIsNat DEF ReadMaxCheckpoint, MaxCheckpoint
<1>13. CASE SetStopped
  BY <1>1, <1>13, MaxSlotIsNat, ZenonT(60) DEF SetStopped, UpdateIndexerState, Larger
<1>14. CASE ClosePool
  BY <1>1, <1>14, MaxSlotIsNat DEF ClosePool
<1>15. CASE Exit
  BY <1>1, <1>15, MaxSlotIsNat DEF Exit, Leave
<1>16. CASE Signal
  BY <1>1, <1>16, MaxSlotIsNat DEF Signal
<1>17. ASSUME NEW result \in {"ok", "err"}, ApiEnds(result) PROVE ShutdownTypeOK'
  BY <1>1, <1>17, MaxSlotIsNat DEF ApiEnds
<1>18. CASE Fetch
  BY <1>1, <1>18, MaxSlotIsNat DEF Fetch
<1>19. CASE Beat
  BY <1>1, <1>19, MaxSlotIsNat DEF Beat, Beats, Indexing, UpdateIndexerState, Larger
<1>20. CASE Commit
  BY <1>1, <1>20, MaxSlotIsNat DEF Commit, HasBatch
<1>21. CASE TaskEnds
  BY <1>1, <1>21, MaxSlotIsNat DEF TaskEnds
<1>22. ASSUME NEW result \in {"ok", "err"}, PipelineEnds(result) PROVE ShutdownTypeOK'
  BY <1>1, <1>22, MaxSlotIsNat DEF PipelineEnds, JoinsItsTasks, MayEndWith, UpdateIndexerState, Larger
<1>23. CASE PipelinePanics
  BY <1>1, <1>23, MaxSlotIsNat DEF PipelinePanics
<1>24. CASE UNCHANGED vars
  BY <1>1, <1>24, MaxSlotIsNat DEF vars
<1> QED
  BY <1>2, <1>3, <1>4, <1>5, <1>6, <1>7, <1>8, <1>9, <1>10, <1>11, <1>12, <1>13, <1>14, <1>15, <1>16, <1>17, <1>18, <1>19, <1>20, <1>21, <1>22, <1>23,
     <1>24
     DEF Next, MainStep, PipelineEndsEither

\* No task of the pipeline is left when main goes on to the final update.
LEMMA StageStep == ASSUME ShutdownInv, [Next]_vars PROVE StageInv'
<1> USE DEF StageInv, tasks, Ended, Done, PipeIsDone
<1>1. StageInv /\ taken \subseteq {"api", "pipe"}
  BY DEF ShutdownInv, ShutdownTypeOK
<1>2. CASE StartFails
  BY <1>1, <1>2 DEF StartFails, Leave
<1>3. CASE CancelledBeforeStart
  BY <1>1, <1>3 DEF CancelledBeforeStart
<1>4. CASE StartApiOnly
  BY <1>1, <1>4 DEF StartApiOnly
<1>5. CASE StartPipeline
  BY <1>1, <1>5 DEF StartPipeline
<1>6. CASE ServeReturns
  BY <1>1, <1>6 DEF ServeReturns
<1>7. CASE Select("pipe", pipe)
  BY <1>1, <1>7, Zenon DEF Select
<1>8. CASE Select("api", api)
  BY <1>1, <1>8, Zenon DEF Select
<1>9. CASE DrainApi
  BY <1>1, <1>9 DEF DrainApi, Drain, Leave
<1>10. CASE DrainPipeline
  BY <1>1, <1>10 DEF DrainPipeline, Drain, Leave
<1>11. CASE DrainTimeout
  BY <1>1, <1>11 DEF DrainTimeout, DrainTimesOut, Aborted
<1>12. CASE ReadMaxCheckpoint
  BY <1>1, <1>12 DEF ReadMaxCheckpoint, MaxCheckpoint
<1>13. CASE SetStopped
  BY <1>1, <1>13 DEF SetStopped, UpdateIndexerState, Larger
<1>14. CASE ClosePool
  BY <1>1, <1>14 DEF ClosePool
<1>15. CASE Exit
  BY <1>1, <1>15 DEF Exit, Leave
<1>16. CASE Signal
  BY <1>1, <1>16 DEF Signal
<1>17. ASSUME NEW result \in {"ok", "err"}, ApiEnds(result) PROVE StageInv'
  BY <1>1, <1>17 DEF ApiEnds
<1>18. CASE Fetch
  BY <1>1, <1>18 DEF Fetch
<1>19. CASE Beat
  BY <1>1, <1>19 DEF Beat, Beats, Indexing, UpdateIndexerState, Larger
<1>20. CASE Commit
  BY <1>1, <1>20 DEF Commit, HasBatch
<1>21. CASE TaskEnds
  BY <1>1, <1>21 DEF TaskEnds
<1>22. ASSUME NEW result \in {"ok", "err"}, PipelineEnds(result) PROVE StageInv'
  BY <1>1, <1>22 DEF PipelineEnds, JoinsItsTasks, MayEndWith, UpdateIndexerState, Larger
<1>23. CASE PipelinePanics
  BY <1>1, <1>23 DEF PipelinePanics
<1>24. CASE UNCHANGED vars
  BY <1>1, <1>24 DEF vars
<1> QED
  BY <1>2, <1>3, <1>4, <1>5, <1>6, <1>7, <1>8, <1>9, <1>10, <1>11, <1>12, <1>13, <1>14, <1>15, <1>16, <1>17, <1>18, <1>19, <1>20, <1>21, <1>22, <1>23,
     <1>24
     DEF Next, MainStep, PipelineEndsEither

\* Nothing commits between the reading of the checkpoints and the end.
LEMMA SlotStep == ASSUME ShutdownInv, [Next]_vars PROVE SlotInv'
<1> USE DEF SlotInv, StageInv, tasks, data, row, Ended, Done, PipeIsDone
<1>1. /\ SlotInv /\ StageInv /\ MaxSlot \in Nat
      /\ fetched \in 0..MaxSlot /\ checkpoint \in 0..fetched
      /\ lastProcessed \in 0..MaxSlot /\ lastSlot \in 0..MaxSlot
  BY MaxSlotIsNat DEF ShutdownInv, ShutdownTypeOK
<1>2. CASE StartFails
  BY <1>1, <1>2 DEF StartFails, Leave
<1>3. CASE CancelledBeforeStart
  BY <1>1, <1>3 DEF CancelledBeforeStart
<1>4. CASE StartApiOnly
  BY <1>1, <1>4 DEF StartApiOnly
<1>5. CASE StartPipeline
  BY <1>1, <1>5 DEF StartPipeline
<1>6. CASE ServeReturns
  BY <1>1, <1>6 DEF ServeReturns
<1>7. CASE Select("pipe", pipe)
  BY <1>1, <1>7 DEF Select
<1>8. CASE Select("api", api)
  BY <1>1, <1>8 DEF Select
<1>9. CASE DrainApi
  BY <1>1, <1>9 DEF DrainApi, Drain, Leave
<1>10. CASE DrainPipeline
  BY <1>1, <1>10 DEF DrainPipeline, Drain, Leave
<1>11. CASE DrainTimeout
  BY <1>1, <1>11 DEF DrainTimeout, DrainTimesOut, Aborted
<1>12. CASE ReadMaxCheckpoint
  BY <1>1, <1>12 DEF ReadMaxCheckpoint, MaxCheckpoint
<1>13. CASE SetStopped
  BY <1>1, <1>13 DEF SetStopped, UpdateIndexerState, Larger
<1>14. CASE ClosePool
  BY <1>1, <1>14 DEF ClosePool
<1>15. CASE Exit
  BY <1>1, <1>15 DEF Exit, Leave
<1>16. CASE Signal
  BY <1>1, <1>16 DEF Signal
<1>17. ASSUME NEW result \in {"ok", "err"}, ApiEnds(result) PROVE SlotInv'
  BY <1>1, <1>17 DEF ApiEnds
<1>18. CASE Fetch
  BY <1>1, <1>18 DEF Fetch
<1>19. CASE Beat
  BY <1>1, <1>19 DEF Beat, Beats, Indexing, UpdateIndexerState, Larger
<1>20. CASE Commit
  BY <1>1, <1>20 DEF Commit, HasBatch
<1>21. CASE TaskEnds
  BY <1>1, <1>21 DEF TaskEnds
<1>22. ASSUME NEW result \in {"ok", "err"}, PipelineEnds(result) PROVE SlotInv'
  BY <1>1, <1>22 DEF PipelineEnds, JoinsItsTasks, MayEndWith, UpdateIndexerState, Larger
<1>23. CASE PipelinePanics
  BY <1>1, <1>23 DEF PipelinePanics
<1>24. CASE UNCHANGED vars
  BY <1>1, <1>24 DEF vars
<1> QED
  BY <1>2, <1>3, <1>4, <1>5, <1>6, <1>7, <1>8, <1>9, <1>10, <1>11, <1>12, <1>13, <1>14, <1>15, <1>16, <1>17, <1>18, <1>19, <1>20, <1>21, <1>22, <1>23,
     <1>24
     DEF Next, MainStep, PipelineEndsEither

\* Only the signal cancels before the select.
LEMMA AskedStep == ASSUME ShutdownInv, [Next]_vars PROVE AskedInv'
<1> USE DEF AskedInv, StageInv, tasks, Ended, Done, PipeIsDone
<1>1. AskedInv /\ StageInv
  BY DEF ShutdownInv
<1>2. CASE StartFails
  BY <1>1, <1>2 DEF StartFails, Leave
<1>3. CASE CancelledBeforeStart
  BY <1>1, <1>3 DEF CancelledBeforeStart
<1>4. CASE StartApiOnly
  BY <1>1, <1>4 DEF StartApiOnly
<1>5. CASE StartPipeline
  BY <1>1, <1>5 DEF StartPipeline
<1>6. CASE ServeReturns
  BY <1>1, <1>6 DEF ServeReturns
<1>7. CASE Select("pipe", pipe)
  BY <1>1, <1>7 DEF Select
<1>8. CASE Select("api", api)
  BY <1>1, <1>8 DEF Select
<1>9. CASE DrainApi
  BY <1>1, <1>9 DEF DrainApi, Drain, Leave
<1>10. CASE DrainPipeline
  BY <1>1, <1>10 DEF DrainPipeline, Drain, Leave
<1>11. CASE DrainTimeout
  BY <1>1, <1>11 DEF DrainTimeout, DrainTimesOut, Aborted
<1>12. CASE ReadMaxCheckpoint
  BY <1>1, <1>12 DEF ReadMaxCheckpoint, MaxCheckpoint
<1>13. CASE SetStopped
  BY <1>1, <1>13 DEF SetStopped, UpdateIndexerState, Larger
<1>14. CASE ClosePool
  BY <1>1, <1>14 DEF ClosePool
<1>15. CASE Exit
  BY <1>1, <1>15 DEF Exit, Leave
<1>16. CASE Signal
  BY <1>1, <1>16 DEF Signal
<1>17. ASSUME NEW result \in {"ok", "err"}, ApiEnds(result) PROVE AskedInv'
  BY <1>1, <1>17 DEF ApiEnds
<1>18. CASE Fetch
  BY <1>1, <1>18 DEF Fetch
<1>19. CASE Beat
  BY <1>1, <1>19 DEF Beat, Beats, Indexing, UpdateIndexerState, Larger
<1>20. CASE Commit
  BY <1>1, <1>20 DEF Commit, HasBatch
<1>21. CASE TaskEnds
  BY <1>1, <1>21 DEF TaskEnds
<1>22. ASSUME NEW result \in {"ok", "err"}, PipelineEnds(result) PROVE AskedInv'
  BY <1>1, <1>22 DEF PipelineEnds, JoinsItsTasks, MayEndWith, UpdateIndexerState, Larger
<1>23. CASE PipelinePanics
  BY <1>1, <1>23 DEF PipelinePanics
<1>24. CASE UNCHANGED vars
  BY <1>1, <1>24 DEF vars
<1> QED
  BY <1>2, <1>3, <1>4, <1>5, <1>6, <1>7, <1>8, <1>9, <1>10, <1>11, <1>12, <1>13, <1>14, <1>15, <1>16, <1>17, <1>18, <1>19, <1>20, <1>21, <1>22, <1>23,
     <1>24
     DEF Next, MainStep, PipelineEndsEither

-----------------------------------------------------------------------------
\* The invariant holds for every order of signals, ends and timeouts.
THEOREM ShutdownInvariant == Spec => []ShutdownInv
<1>1. Init => ShutdownInv
  <2> SUFFICES ASSUME Init PROVE ShutdownInv
    OBVIOUS
  <2>1. ShutdownTypeOK
    <3>1. /\ fetched \in 0..MaxSlot /\ checkpoint \in 0..fetched
          /\ lastProcessed \in 0..MaxSlot /\ lastSlot \in 0..MaxSlot
      BY MaxSlotIsNat DEF Init
    <3>2. /\ signalled \in BOOLEAN /\ cancel \in BOOLEAN /\ started \in BOOLEAN
          /\ flushFailed \in BOOLEAN
      BY Zenon DEF Init
    <3>3. main \in {"init"} /\ {api, pipe} \subseteq {"none"} /\ task \in {"none"}
      BY DEF Init
    <3>4. /\ taken \subseteq {"api", "pipe"} /\ outcome \in {"none"} /\ pool \in {"open"}
          /\ status \in {"initializing"}
      BY DEF Init
    <3> QED  BY <3>1, <3>2, <3>3, <3>4 DEF ShutdownTypeOK
  <2>2. StageInv /\ SlotInv /\ AskedInv
    BY DEF Init, StageInv, SlotInv, AskedInv, Ended, Done, PipeIsDone
  <2> QED  BY <2>1, <2>2 DEF ShutdownInv
<1>2. ShutdownInv /\ [Next]_vars => ShutdownInv'
  BY TypeStep, StageStep, SlotStep, AskedStep DEF ShutdownInv
<1> QED
  BY <1>1, <1>2, PTL DEF Spec

\* The pool is closed after the last task that uses it (graceful_shutdown), but for
\* those a panic of the pipeline detached.
THEOREM PoolIsClosedLast == Spec => []PoolOutlivesPipeline
<1>1. ShutdownInv => PoolOutlivesPipeline
  BY DEF ShutdownInv, StageInv, PoolOutlivesPipeline, Ended
<1> QED
  BY <1>1, ShutdownInvariant, PTL

\* A row that says 'stopped' has the largest checkpoint that could be read, unless
\* the pipeline panicked.
THEOREM StoppedHasTheSlot == Spec => []StoppedIsNotBehind
<1>1. ShutdownInv => StoppedIsNotBehind
  BY DEF ShutdownInv, SlotInv, StoppedIsNotBehind
<1> QED
  BY <1>1, ShutdownInvariant, PTL

\* A clean exit of the process follows a signal.
THEOREM CleanExitAfterSignal == Spec => []CleanExitWasAsked
<1>1. ShutdownInv => CleanExitWasAsked
  BY DEF ShutdownInv, AskedInv, CleanExitWasAsked
<1> QED
  BY <1>1, ShutdownInvariant, PTL

\* Nothing writes the row after the final update, unless the pipeline panicked.
THEOREM StoppedStays == Spec => StoppedIsFinal
<1>1. ShutdownInv /\ [Next]_vars => (status = "stopped" /\ outcome # "panicked" => row' = row)
  <2> SUFFICES ASSUME ShutdownInv, [Next]_vars, status = "stopped", outcome # "panicked"
               PROVE  row' = row
    OBVIOUS
  <2>1. main \in {"close", "exited"} /\ pipe # "running" /\ task # "running"
    BY DEF ShutdownInv, SlotInv, StageInv, Ended
  <2> QED
    BY <2>1 DEF Next, MainStep, PipelineEndsEither, StartFails, CancelledBeforeStart, StartApiOnly,
       StartPipeline, ServeReturns, Select, DrainApi, DrainPipeline, DrainTimeout,
       ReadMaxCheckpoint, SetStopped, ClosePool, Exit, Signal, ApiEnds, Fetch, Beat, Beats,
       Indexing, Commit, TaskEnds, PipelineEnds, PipelinePanics, vars, row
<1> QED
  BY <1>1, ShutdownInvariant, PTL DEF Spec, StoppedIsFinal

=============================================================================
