--------------------------- MODULE MCStackArray ---------------------------
(***************************************************************************)
(* Workloads for StackArray.  The word has 4 bytes, so its halves and its  *)
(* quarters are the accesses of 4 and 2 bytes; a frame has two words, and  *)
(* there is room for main's frame and for one callee's.                    *)
(***************************************************************************)
EXTENDS StackArray

Reg(t, v, k, p) == [type |-> t, value |-> v, known |-> k, region |-> p]
Number(v) == Reg("num", v, TRUE, "")
SomeNumber(v) == Reg("num", v, FALSE, "")
Pointer(p) == Reg("ptr", 0, FALSE, p)
Uninit == Reg("uninit", 0, FALSE, "")

\* The bottom of main's frame
Base == StackSize - SubprogramSize

Aligned(w) == {Fixed(o, w) : o \in {x \in Base .. StackSize - 1 : x % w = 0}}
Around(lo, hi, w) == [lo |-> lo, hi |-> hi, wlo |-> w, whi |-> w]
UpTo(o, w) == [lo |-> o, hi |-> o, wlo |-> 1, whi |-> w]
Half == Word \div 2

Pairs(accesses, registers) == [access : accesses, register : registers]

Idle == [big_endian |-> FALSE, max_steps |-> 0, exact |-> FALSE, states |-> {1},
         stores |-> {}, loads |-> {}, indices |-> {}, helpers |-> {}, calls |-> FALSE,
         frame |-> StackSize, moves |-> {}, offset |-> [lo |-> Base, hi |-> Base]]

(***************************************************************************)
(* One line of states, accesses of 8 and 4 bytes: what a load finds is     *)
(* compared with the memory.                                               *)
(***************************************************************************)
WordsAndHalves == Aligned(Word) \cup Aligned(Half)
SomewhereLow == Around(Base, Base + Half, Word)

Numbers(big) ==
  [Idle EXCEPT !.big_endian = big, !.max_steps = 3, !.exact = TRUE,
     !.stores = Pairs(WordsAndHalves \cup {SomewhereLow},
                      {Number(1), Number(14), SomeNumber(6)}),
     !.loads = WordsAndHalves,
     !.helpers = {Around(Base, Base + Word, Word), UpTo(Base + Half, Word)}]

Spills ==
  [Idle EXCEPT !.max_steps = 4, !.exact = TRUE,
     !.stores = Pairs(Aligned(Word), {Number(9), Pointer("p"), Pointer("q")}) \cup
                Pairs(Aligned(Half), {Number(9), Pointer("p")}) \cup
                Pairs({SomewhereLow}, {Pointer("q")}),
     !.loads = WordsAndHalves,
     !.helpers = {Fixed(Base + Half, Word)}]

(***************************************************************************)
(* What is said of bytes being numbers, for all widths, registers of       *)
(* unknown type and a pointer r6 that moves.                               *)
(***************************************************************************)
Claims(lo, hi) ==
  LET fixed == {Fixed(Base, Word), Fixed(Base + Word, Word), Fixed(Base + 2, Half),
                Fixed(Base + 3, 1)}
  IN  [Idle EXCEPT !.max_steps = 3,
         !.stores = Pairs(fixed \cup {SomewhereLow, Around(Base + 1, Base + 2, 1)},
                          {SomeNumber(6), Pointer("p"), Uninit}),
         !.loads = {Fixed(Base + 1, Word)},
         !.indices = {-1, 0, 1},
         !.helpers = {Fixed(Base + 1, Word), Around(Base, Base + Word, 1),
                      UpTo(Base + Half, Word)},
         !.moves = {-1, 1},
         !.offset = [lo |-> Base + lo, hi |-> Base + hi]]

\* Calls of a function, whose frame ends where main's begins, and its exits
Calls ==
  [Idle EXCEPT !.max_steps = 5, !.exact = TRUE, !.calls = TRUE,
     !.stores = Pairs({Fixed(Base - Word, Word), Fixed(Base, Word)},
                      {Number(1), Pointer("p")}),
     !.loads = {Fixed(Base - Word, Word), Fixed(Base - Half, Half), Fixed(Base, Word)},
     !.indices = {0}, !.helpers = {Fixed(Base - Half, Word)}, !.moves = {1},
     !.offset = [lo |-> Base - Half, hi |-> Base - Half]]

\* Two branches and their join
Branches ==
  [Idle EXCEPT !.max_steps = 5, !.states = States,
     !.stores = Pairs({Fixed(Base + 2, Half), Fixed(Base + 3, 1)},
                      {SomeNumber(6), Pointer("p")}),
     !.moves = {1},
     !.offset = [lo |-> Base + 2, hi |-> Base + 2]]

(***************************************************************************)
(* A helper that writes exactly the range of a cell.                       *)
(***************************************************************************)
ExactHelper ==
  [Idle EXCEPT !.max_steps = 2, !.exact = TRUE,
     !.stores = Pairs(Aligned(Word), {Number(1), SomeNumber(6)}),
     !.loads = Aligned(Word), !.helpers = Aligned(Word)]

(***************************************************************************)
(* Accesses of several widths, one after the other.                        *)
(***************************************************************************)
MixedWidths ==
  [Idle EXCEPT !.max_steps = 2, !.exact = TRUE,
     !.stores = Pairs(UNION {Aligned(w) : w \in Widths}, {Number(1)}),
     !.loads = UNION {Aligned(w) : w \in Widths}]

PassingWorkloads ==
  {Numbers(FALSE), Numbers(TRUE), Spills, Claims(2, 2), Claims(1, 3), Calls,
   Branches}
HelperWorkloads == {ExactHelper}
MixedWorkloads == {MixedWidths}
CallWorkloads == {Calls}
===========================================================================
