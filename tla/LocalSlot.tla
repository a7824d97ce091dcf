------------------------------ MODULE LocalSlot ------------------------------
(***************************************************************************)
(* What the queue manager promises of the simulations on this machine, and  *)
(* all that the rest of the service may rely on: one slot that a job takes  *)
(* when its start begins and leaves when its outcome is recorded, its start *)
(* has failed or the service is gone.                                       *)
(*                                                                          *)
(* QueueManager implements it (run solo_liveness); Service builds on it.    *)
(***************************************************************************)
CONSTANT Job

VARIABLE slot   \* Free, or the phase and the job of the slot

Free == [phase |-> "free"]
Taken == [phase : {"spawning", "failing", "running", "over"}, job : Job]

SlotTypeOK == slot \in Taken \union {Free}

IsIn(phase) == slot.phase = phase
Becomes(phase) == slot' = [slot EXCEPT !.phase = phase]
IsLeft == slot' = Free

SlotInit == slot = Free

\* _start_job up to the await of the spawn
Begin(j) == IsIn("free") /\ slot' = [phase |-> "spawning", job |-> j]

\* ... the process is there, or could not be created
Spawned == IsIn("spawning") /\ Becomes("running")
SpawnFails == IsIn("spawning") /\ Becomes("failing")
FailureIsOver == IsIn("failing") /\ IsLeft

\* the process exits; then its outcome is recorded
Exits == IsIn("running") /\ Becomes("over")
IsRecorded == IsIn("over") /\ IsLeft

\* The service and its children end, or an agent finishes the job.
Ends == ~IsIn("free") /\ IsLeft

SlotStep ==
  \/ \E j \in Job : Begin(j)
  \/ Spawned \/ SpawnFails \/ FailureIsOver
  \/ Exits \/ IsRecorded

SlotNext == SlotStep \/ Ends

SlotSpec == SlotInit /\ [][SlotNext]_slot

\* Only a simulation may take as long as it likes: a start, a failed start and
\* the recording of an outcome come to an end.
Settles ==
  \A phase \in {"spawning", "failing", "over"} : IsIn(phase) ~> ~IsIn(phase)
=============================================================================
