------------------------------ MODULE MCNatives ------------------------------
(* Natives with state of their own, for TLC: the tasks with their handles  *)
(* and files, and the tape of the tensors.  They share no state, so one of *)
(* them moves in each behaviour.                                           *)
EXTENDS AsyncTasks, TLC

CONSTANTS Leaves, Shapes, Slices, Lookups, MaxTensors, MaxRuns, MaxSteps

VARIABLES
  native,
  tensors, made, enabled, tape, runs, last

taskVars == vars
tapeVars == <<tensors, made, enabled, tape, runs, last>>
allVars == <<native, taskVars, tapeVars>>

Tensor == INSTANCE TensorTape

ASSUME TapeAssumption == Tensor!Script

AllInit == native \in {"tasks", "tensors"} /\ Init /\ Tensor!Init

TasksMove == native = "tasks" /\ Next /\ UNCHANGED <<native, tapeVars>>
TensorsMove == native = "tensors" /\ Tensor!Next /\ UNCHANGED <<native, taskVars>>
AllNext == TasksMove \/ TensorsMove

AllSpec == AllInit /\ [][AllNext]_allVars

\* backward leaves the derivative of the loss in each tensor: see TensorTape.
GradientIsDerivative == Tensor!GradientIsDerivative

\* No entry of the tape is run twice: see TensorTape.
TapeIsFresh == Tensor!TapeIsFresh

-----------------------------------------------------------------------------
\* A matrix and a row that spreads over it; a slice makes the column.
MCLeaves == <<[shape |-> <<2, 2>>, data |-> <<2, -1, 3, 5>>],
                [shape |-> <<2>>, data |-> <<-2, 7>>]>>
MCShapes == {<<4>>}
MCSlices == {<<0, 2, 1, 2>>, <<1, 2, 0, 2>>}
MCLookups == {<<1, 0, 1>>, <<-1>>}

Symmetry == Permutations(Children)
=============================================================================
