---------------------------- MODULE MCCfgBuilder ----------------------------
(***************************************************************************)
(* Instances of CfgBuilder: all short sequences without calls, and         *)
(* programs with calls in which a main function of two or three            *)
(* instructions comes first.                                               *)
(*                                                                         *)
(* The functions of the first families jump forward only and follow their  *)
(* callers, as a compiler lays out code without loops.  Of the layouts     *)
(* that do not, SharedExit and CalleeFirst are rejected because a label    *)
(* comes up twice; a loop in a called function loses an edge (CalledLoop), *)
(* which a run of its own shows, or a call (RotatedLoop).                  *)
(***************************************************************************)
EXTENDS CfgBuilder

I(kind, target) == [kind |-> kind, target |-> target]
Sequence(s) == [i \in 0 .. Len(s) - 1 |-> s[i + 1]]

Plain == I("plain", 0)
Exit == I("exit", 0)
Jumps(S) == {I("goto", t) : t \in S} \cup {I("cond", t) : t \in S}

(* All sequences of up to three instructions; targets 0 .. 3 include one   *)
(* outside the sequence.                                                   *)
ShortSequences ==
  {Sequence(s) :
     s \in BoundedSeq({I("undefined", 0), Plain, Exit} \cup Jumps(0 .. 3), 3)}

(* main calls f, which starts at 2, and returns.  f consists of four       *)
(* instructions that jump forward only and may call g, at 6, or f itself.  *)
ForwardFunctions ==
  {Sequence(<<I("call", 2), Exit, a, b, c, Exit, d, Exit>>) :
     a \in {Plain, I("call", 6), I("cond", 4), I("cond", 5), I("goto", 4)},
     b \in {Plain, Exit, I("call", 6), I("call", 2), I("cond", 5)},
     c \in {Plain, I("call", 6)},
     d \in {Plain, I("call", 2)}}

(* All sequences of five instructions that end with an exit and whose      *)
(* jumps and calls lead forward, functions that share code included.       *)
Ahead(i) ==
  {Plain, Exit} \cup Jumps(i + 1 .. 4) \cup {I("call", t) : t \in i + 1 .. 4}
ForwardSequences ==
  {Sequence(<<a, b, c, d, Exit>>) :
     a \in Ahead(0), b \in Ahead(1), c \in Ahead(2), d \in Ahead(3)}

(* f is called twice. *)
TwoCallers ==
  {Sequence(<<I("call", 3), a, Exit, b, c, Exit, d, Exit>>) :
     a \in {Plain, I("call", 3), I("call", 6), I("cond", 0)},
     b \in {Plain, I("call", 6), I("cond", 5)},
     c \in {Plain, Exit, I("call", 6)},
     d \in {Plain, I("call", 3)}}

(* f calls g, which may call h: two, three or four frames. *)
Chains ==
  {Sequence(<<I("call", 2), Exit, a, Exit, b, Exit, Exit>>) :
     a \in {Plain, I("call", 4)}, b \in {Plain, I("call", 6)}}

(* f jumps back to its first exit. *)
SharedExit ==
  {Sequence(<<I("call", 2), Exit, I("cond", 4), Exit, I("goto", 3)>>)}

(* f calls g twice; h, which comes after f, calls f. *)
CalleeFirst ==
  {Sequence(<<I("call", 5), Exit, I("call", 7), I("call", 7), Exit,
              I("call", 2), Exit, Exit>>)}

Input(s, mustExit, termination) ==
  [insts |-> s,
   options |-> [must_have_exit |-> mustExit,
               check_for_termination |-> termination]]

Checked(S) == {Input(s, TRUE, TRUE) : s \in S}

MCInputs ==
  Checked(ForwardFunctions \cup TwoCallers \cup Chains
            \cup ForwardSequences \cup SharedExit \cup CalleeFirst
            \cup ShortSequences)
    \cup {Input(s, FALSE, TRUE) : s \in ShortSequences}
    \cup {Input(s, TRUE, FALSE) : s \in TwoCallers}

(* f is a loop. *)
CalledLoop ==
  {Sequence(<<I("call", 2), Exit, Plain, I("cond", 2), Exit>>)}

(* f is a loop whose test comes last; its body ends with a call of g. *)
RotatedLoop ==
  {Sequence(<<I("call", 2), Exit, I("goto", 4), I("call", 6), I("cond", 3),
              Exit, Exit>>)}

LoopInputs == Checked(CalledLoop)
RotatedInputs == Checked(RotatedLoop)
=============================================================================
