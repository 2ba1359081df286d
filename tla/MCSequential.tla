---------------------------- MODULE MCSequential ----------------------------
(* The parts of the program that run by themselves, for TLC: what goes     *)
(* into the compiler and comes out of it, and the registers it hands out.  *)
(* They share no state, so one of them moves in each behaviour.            *)
EXTENDS RegisterAllocator, TLC

CONSTANTS MaxConstructs, MaxStatements

VARIABLES part, subject

registerVars == vars
allVars == <<part, subject, registerVars>>

Frontend == INSTANCE Sources WITH MaxExpr <- MaxConstructs, MaxStmt <- MaxStatements

NoSubject == [part |-> "none"]
PartsInit ==
  \/ part = "sources" /\ Frontend!Init
  \/ part = "registers" /\ subject = NoSubject
AllInit == PartsInit /\ Init

SourcesGrow == part = "sources" /\ Frontend!Next /\ UNCHANGED <<part, registerVars>>
RegistersMove == part = "registers" /\ Next /\ UNCHANGED <<part, subject>>
AllNext == SourcesGrow \/ RegistersMove

AllSpec == AllInit /\ [][AllNext]_allVars

\* What one part of the program writes, another reads: see Sources and Formats.
ReadsBack == part = "sources" => Frontend!ReadsBack

\* The chunk holds the program that the import statements name: see Sources.
LinksRight == Frontend!LinksRight

Symmetry == Permutations(Names)
=============================================================================
