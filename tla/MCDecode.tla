------------------------------ MODULE MCDecode ------------------------------
EXTENDS Decode

AllGroups == {"base32", "base64", "divmul32", "divmul64", "atomic32", "atomic64", "packet", "callx"}

MCPlatforms == {AllGroups, {"base32"}, AllGroups \ {"base32"}, AllGroups \ {"divmul64", "atomic64", "packet", "callx"}}

Raws(Classes, Dsts, Srcs, Offsets, Imms) ==
  {Raw(8 * n + c, d, s, o, m) : n \in 0..31, c \in Classes, d \in Dsts, s \in Srcs, o \in Offsets, m \in Imms}

ExitIns == Raw(INST_OP_EXIT, 0, 0, 0, 0)

(* One instruction, followed by exits to jump to.                           *)
MCSingles ==
  {<<i, ExitIns, ExitIns>> :
     i \in Raws({ALU, ALU64}, {1, 10}, {0, 1}, {0, 1, 8, 32}, {0, 32, 64, -1})
         \cup Raws({LDX, ST, STX}, {1, 10}, {0, 1, 10}, {0, -1}, {0, 65, 224, 225})
         \cup Raws({LD}, {0, 1}, {0, 1}, {0, 1}, {0, 3})
         \cup Raws({JMP, JMP32}, {0, 1, 11}, {0, 1, 2}, {0, 1, 2}, {0, 1, -1})}

(* Two slots of an lddw.                                                    *)
MCLddws ==
  {<<Raw(INST_OP_LDDW_IMM, d, s, o, 3), Raw(c, 0, 0, p, m), ExitIns>> :
     d \in {1, 10, 11}, s \in 0..3, o \in {0, 1}, c \in {0, 4}, p \in {0, 1}, m \in {-2, 0}}

(* Two shifts.                                                              *)
MCPairs ==
  {<<Raw(103, d, 0, 0, 32), Raw(n, e, 0, 0, m), ExitIns>> : d, e \in 1..2, n \in {119, 199, 103}, m \in {31, 32}}

(* Four slots with jumps, lddws and shifts in any order, and an exit.       *)
MCSlots ==
  {Raw(INST_OP_JA16, 0, 0, 1, 0), Raw(INST_OP_JA16, 0, 0, -2, 0), Raw(INST_OP_JA32, 0, 0, 0, 2), Raw(29, 1, 2, -2, 0),
   Raw(103, 1, 0, 0, 32), Raw(119, 1, 0, 0, 32), Raw(199, 1, 0, 0, 32), Raw(199, 2, 0, 0, 32),
   Raw(INST_OP_LDDW_IMM, 1, 0, 0, 1), Raw(0, 0, 0, 0, 2), Raw(INST_OP_CALL, 0, 1, 0, 1), ExitIns}

MCLong == {<<Raw(INST_OP_JA32, 0, 0, 0, 65)>> \o [k \in 1..65 |-> Raw(183, 1, 0, 0, 1)] \o <<ExitIns>>}

ArgTypes ==
  <<"DONTCARE", "ANYTHING", "PTR_TO_CTX_OR_NULL", "PTR_TO_MAP", "PTR_TO_READABLE_MEM", "PTR_TO_WRITABLE_MEM_OR_NULL",
    "CONST_SIZE", "CONST_SIZE_OR_ZERO">>

(* The arguments of a helper are the digits of its number: three at the      *)
(* front up to 511, then two at the end.  Helper 576 is unsupported.        *)
Digit(f, d) == ArgTypes[((f \div 8^d) % 8) + 1]

MCPrototypes ==
  [f \in 0..576 |->
     [returns |-> IF f = 576 THEN "UNSUPPORTED" ELSE IF f % 2 = 0 THEN "INTEGER" ELSE "PTR_TO_MAP_VALUE_OR_NULL",
      args |-> IF f < 512 THEN <<Digit(f, 0), Digit(f, 1), Digit(f, 2), "DONTCARE", "DONTCARE">>
               ELSE <<"ANYTHING", "ANYTHING", "ANYTHING", Digit(f, 0), Digit(f, 1)>>,
      reallocate_packet |-> f >= 512]]

MCUsable == DOMAIN MCPrototypes \ {2}

MCCalls == {<<Raw(INST_OP_CALL, 0, 0, 0, f), ExitIns>> : f \in DOMAIN MCPrototypes}

(* Three slots in any order, and an exit.                                   *)
MCShort == {[raws |-> {s \o <<ExitIns>> : s \in [1..3 -> MCSlots]}, groups |-> AllGroups]}

MCPrograms ==
  {[raws |-> MCSingles, groups |-> g] : g \in MCPlatforms}
    \cup {[raws |-> MCLddws \cup MCPairs, groups |-> g] : g \in MCPlatforms}
    \cup {[raws |-> p, groups |-> AllGroups] :
            p \in {{s \o <<ExitIns>> : s \in [1..4 -> MCSlots]}, MCCalls, MCLong \cup {<<>>}}}
=============================================================================
