---------------------------- MODULE FwdSoundness ----------------------------
(***************************************************************************)
(* What the fixpoint iterator promises about the runs of the analyzed      *)
(* program.  The concrete semantics is a parameter, as the abstract domain *)
(* is: the properties are about the iteration, not about one domain.       *)
(***************************************************************************)
EXTENDS FwdAnalyzer

CONSTANTS
  Values,        \* the memory states of the analyzed program
  EntryValues,   \* those it may start in
  InD(_, _),     \* x is described by the abstract value d
  Exec(_, _),    \* the states an instruction leads to: none if it blocks
  Safe(_, _),    \* the assertions before the instruction hold
  Count(_)       \* the largest number of increments of a loop counter

(* The abstract domain is sound, one operation at a time.  Nothing is      *)
(* asked of the widening: only what the iterator compares counts.          *)
ASSUME SoundDomainAssumption ==
  /\ EntryValues \subseteq Values
  /\ \A x \in Values : Count(x) \in Nat
  /\ \A i \in Instructions, x \in Values : Exec(i, x) \subseteq Values
  /\ \A x \in EntryValues : InD(x, EntryInv)
  /\ \A heads \in SUBSET Labels :
       /\ InitCounters(EntryInv, heads) \in D
       /\ \A x \in EntryValues : InD(x, InitCounters(EntryInv, heads))
  /\ \A x \in Values : ~InD(x, Bottom)
  /\ \A x \in Values, d \in D :
       /\ InD(x, d) \in BOOLEAN
       /\ InD(x, d) => Count(x) <= LoopCountUb(d)
  /\ \A d, e \in D : \A x \in Values :
       /\ LeqD(d, e) /\ InD(x, d) => InD(x, e)
       /\ InD(x, d) \/ InD(x, e) => InD(x, JoinD(d, e))
       /\ InD(x, d) /\ InD(x, e) =>
            InD(x, MeetD(d, e)) /\ InD(x, NarrowD(d, e))
  /\ \A i \in Instructions, d \in D : \A x \in Values : InD(x, d) =>
       /\ \A y \in Exec(i, x) : InD(y, TransformD(i, d))
       /\ CheckD(i, d) => Safe(i, x)

ProgramStates == Labels \X Values

(* One step of the program from each state of S; labels in `stop` block. *)
Successors(S, stop) ==
  UNION {children[s[1]] \X Exec(instr[s[1]], s[2]) :
           s \in {t \in S : t[1] \notin stop}}

(* The states a program run reaches without leaving a label of `stop`. *)
RunsUntil(stop) ==
  LET closure[S \in SUBSET ProgramStates] ==
        IF Successors(S, stop) \subseteq S THEN S
        ELSE closure[S \cup Successors(S, stop)]
  IN  closure[{EntryLabel} \X EntryValues]

(***************************************************************************)
(* One execution of the analyzed program, started after the analysis.      *)
(***************************************************************************)
VARIABLE run     \* the label and memory state it is in; NoRun before it

NoRun == <<>>
runVars == <<vars, run>>

StartRun ==
  /\ Done
  /\ run = NoRun
  /\ run' \in {EntryLabel} \X EntryValues
  /\ UNCHANGED vars

(* It goes no further at a label with an error. *)
RunStep ==
  /\ Done
  /\ run # NoRun
  /\ run' \in Successors({run}, errors)
  /\ UNCHANGED vars

RunInit == Init /\ run = NoRun

RunNext == (Next /\ UNCHANGED run) \/ StartRun \/ RunStep

RunSpec == RunInit /\ [][RunNext]_runVars

RunFairSpec == RunSpec /\ WF_vars(AnalysisStep)

-----------------------------------------------------------------------------
(* Every variable of the iterator stays in its range. *)
FwdTypeOK ==
  /\ phase \in {"build", "run", "done"}
  /\ instr \in [Labels -> Instructions]
  /\ termination \in BOOLEAN
  /\ pre \in [Labels -> D]
  /\ post \in [Labels -> D]
  /\ errors \subseteq Labels
  /\ failed \in BOOLEAN
  /\ skip \in BOOLEAN
  /\ work \in Seq(Frame)
  /\ maxLoopCount \in Nat
  /\ exitValue \in D

(* AnalysisResult::failed is the summary of the errors that set_error      *)
(* attached to labels: no path of run sets one without the other.          *)
FailedIffErrors == failed <=> errors # {}

(* A verified program is safe, and a rejected one is analyzed up to its    *)
(* errors: every run that has not gone past a label with an error is       *)
(* described by the pre-invariant of the label it is at, fails no          *)
(* assertion there, and at the exit returns a value in exit_value.  The    *)
(* invariants pass through widening, the meet with the constants, the      *)
(* replacement by new_pre, a no-op narrowing and an early stop, in nested  *)
(* cycles that are started again each time the outer one iterates.         *)
SoundUpToErrors ==
  run # NoRun =>
    /\ InD(run[2], pre[run[1]])
    /\ run[1] \notin errors =>
         IsCounter(instr[run[1]]) \/ Safe(instr[run[1]], run[2])
    /\ run[1] = ExitLabel /\ ExitLabel \notin errors =>
         \A y \in Exec(instr[ExitLabel], run[2]) : InD(y, exitValue)

(* "Program terminates within N loop iterations" (main/check.cpp): if the  *)
(* termination check passes, no run increments a loop counter more often   *)
(* than max_loop_count says.                                               *)
LoopCountIsABound ==
  (run # NoRun /\ ~failed /\ termination /\ IsCounter(instr[run[1]])) =>
      /\ Safe(instr[run[1]], run[2])
      /\ \A y \in Exec(instr[run[1]], run[2]) : Count(y) <= maxLoopCount

ErrorsKept == \A l \in errors : l \in errors' /\ post'[l] = post[l]

(* An error is final: no later iteration, wider or narrower, clears it or  *)
(* sends anything past the label that has it.                              *)
ErrorsAreFinal == [][ErrorsKept]_vars

(* The result is an inductive invariant: what a label passes on is in the  *)
(* pre-invariant of each of its children, also where the descending        *)
(* sequence was cut short, went back and forth between an inner and an     *)
(* outer cycle, or stopped at a label with an error.                       *)
InvariantsAreInductive ==
  Done =>
    \A l \in ReachableFrom({EntryLabel}, Labels) :
      /\ l \notin errors => LeqD(TransformD(instr[l], pre[l]), post[l])
      /\ \A c \in children[l] : LeqD(post[l], pre[c])

(* Every analysis ends, although narrowing need not converge. *)
AnalysisTerminates == <>Done

-----------------------------------------------------------------------------
(* README.md: "-f  Print first failure" prints a failure of every program  *)
(* that is rejected.                                                       *)
FailureIsReported == (Done /\ failed) => ReportedErrors # {}

(* The states from which some run goes on forever: the largest set in      *)
(* which every state has a successor.                                      *)
Diverging ==
  LET trap[S \in SUBSET ProgramStates] ==
        LET T == {s \in S : Successors({s}, {}) \cap S # {}}
        IN  IF T = S THEN S ELSE trap[T]
  IN  trap[RunsUntil({})]

(* config.hpp, of check_for_termination: "When true, verifies that the     *)
(* program terminates."                                                    *)
VerifiedProgramsTerminate ==
  (Done /\ ~failed /\ termination) => Diverging = {}
=============================================================================
