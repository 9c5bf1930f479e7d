------------------------------ MODULE MCAlu ------------------------------
EXTENDS Alu

BinOps == {"MOV", "ADD", "SUB", "MUL", "UDIV", "UMOD", "SDIV", "SMOD", "OR", "AND", "XOR", "LSH", "RSH", "ARSH"}

AllBins(Ops, Sizes, Dsts, Srcs, Imms) ==
  {[kind |-> "bin", op |-> op, is64 |-> is64, dst |-> d, src |-> s, imm |-> n] :
     op \in Ops, is64 \in Sizes, d \in Dsts, s \in Srcs, n \in Imms}

AllUns(Ops, Widths) == {[kind |-> "un", op |-> op, dst |-> 1, width |-> w] : op \in Ops, w \in Widths}

AllAssumes(Ops, Sizes, Dsts, Srcs, Imms) ==
  {[kind |-> "assume", op |-> op, is64 |-> is64, dst |-> d, src |-> s, imm |-> n] :
     op \in Ops, is64 \in Sizes, d \in Dsts, s \in Srcs, n \in Imms}

MCImms == {-8, -1, 0, 1, 3, 7}

MCSetup ==
  AllBins({"MOV"}, {TRUE}, {1, 2}, {0}, {-1, 3})
    \cup AllBins({"MOV", "AND"}, {FALSE}, {1}, {0}, {-2})
    \cup AllBins({"AND"}, {TRUE}, {1, 2}, {0}, {3})
    \cup AllBins({"MOV"}, {TRUE}, {2}, {1}, {0})
    \cup AllBins({"ADD"}, {TRUE}, {1}, {0}, {-5, 1})
    \cup AllAssumes({"SLE"}, {TRUE}, {1, 2}, {0}, {3})
    \cup AllAssumes({"LE", "SGT"}, {TRUE}, {1}, {0}, {-3})

MCProgram ==
  AllBins(BinOps, BOOLEAN, {1}, {0}, MCImms)
    \cup AllBins(BinOps \ {"AND"}, BOOLEAN, {1}, {1, 2}, {0})
    \cup AllBins({"MOVSX16"}, BOOLEAN, {1}, {2}, {0})
    \cup AllBins({"MOVSX16", "MOVSX32"}, {TRUE}, {1}, {1}, {0})
    \cup AllBins({"MOVSX32"}, {TRUE}, {1}, {2}, {0})
    \cup AllUns({"NEG"}, {W32, W64}) \cup AllUns({"BE", "LE", "SWAP"}, {W16, W32, W64})
    \cup AllAssumes(SignedOps \cup UnsignedOps \cup BitOps, BOOLEAN, {1}, {0}, MCImms)
    \cup AllAssumes(SignedOps \cup UnsignedOps \cup BitOps, BOOLEAN, {1}, {1, 2}, {0})

(* r1 = 3; r1 &= r2 *)
MCKnown == AllBins({"MOV"}, {TRUE}, {1}, {0}, {3})
MCAnds == AllBins({"AND"}, {TRUE}, {1}, {2}, {0})

MCSamples == {0, 1, 2, 3, 7, 8, 15, 19, 127, 128, 240, 247, 248, 255} \X {0, 3, 8, 127, 248, 255}

Observed == <<zone, fuel, done>>
==========================================================================
