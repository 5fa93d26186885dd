---------------------------- MODULE TemplateRun ----------------------------
(***************************************************************************)
(* execute_template_with_observer: a QD HAR is compiled and its tree is    *)
(* executed, a native template is executed as it is.  A recording that     *)
(* does not compile is never executed.                                     *)
(***************************************************************************)
EXTENDS Executor, HarBlocks

CONSTANT MaxEntries   \* bound: the length of the recordings

ASSUME TemplateRunAssumption == MaxEntries \in Nat

VARIABLE entries   \* the recording, disabled entries included

templateVars == <<executorVars, entries>>

NotExecuted == phase = "done" /\ result = "failed" /\ stack = <<>> /\ NewContext

ExecuteHar ==
  /\ entries \in BoundedSeq(Tags, MaxEntries)
  /\ LET program == Compile(entries)
     IN  IF program.ok THEN Execute(program.blocks) ELSE NotExecuted

ExecuteNative == entries = <<>> /\ \E program \in Programs : Execute(program)

TemplateInit == ExecuteHar \/ ExecuteNative
TemplateNext == Next /\ UNCHANGED entries

TemplateSpec == TemplateInit /\ [][TemplateNext]_templateVars
FairTemplateSpec == TemplateSpec /\ Fairness

-----------------------------------------------------------------------------
(* Properties.                                                             *)

\* A recording compiles exactly when its control tags nest: no stray end or else, no
\* second else, no end of another kind (qd_har.rs:268-358).
CompilesWhatNests == Compile(entries).ok <=> WellNested(entries)

\* What runs is what was recorded: the tree read from left to right is the list of
\* enabled entries, each in its branch (qd_har.rs:268-339).
NothingMoves == Compile(entries).ok => Flat(Compile(entries).blocks) = Enabled(entries)

\* The requests of an execution are those of the recording, each in its branch: what nests
\* compiles, and nothing moves (qd_har.rs:268-358).
RecordingIsKept == CompilesWhatNests /\ NothingMoves
=============================================================================
