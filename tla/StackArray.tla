---------------------------- MODULE StackArray ----------------------------
(***************************************************************************)
(* The stack as ArrayDomain (array_domain.cpp) and the transformer         *)
(* (do_store_stack, do_load_stack, the writable arguments of a call) see   *)
(* it.  What is known of a stack range is kept in three places:            *)
(*                                                                         *)
(*   array_map   for each kind of data, the offsets and sizes of the cells *)
(*               written so far.  It is thread-local: all abstract states  *)
(*               share it;                                                 *)
(*   scalar      in each abstract state, the value of a cell's variable.   *)
(*               A variable is found by the offset and the size in its     *)
(*               name, whether or not the map has the cell;                *)
(*   non_numerical_bytes  in each abstract state, the bytes that may hold  *)
(*               something else than a number.                             *)
(*                                                                         *)
(* Beside each abstract state runs one execution of the program, whose     *)
(* stack is `memory`.  A byte holds one of two numbers, a part of a        *)
(* pointer, or junk.  Of an interval only its being a singleton matters    *)
(* here: a variable has one value or an unknown one.                       *)
(*                                                                         *)
(* Two pointers into the stack are followed: r10, the top of the frame,    *)
(* which calls and exits move, and r6, which belongs to the function the   *)
(* run starts in.  A callee leaves r6 alone: what it does to r6 is undone  *)
(* at its exit by restore_callee_saved_registers, and do_store_stack keeps *)
(* the saved copy up to date as it does r6.                                *)
(***************************************************************************)
EXTENDS Integers, Sequences, FiniteSets, FiniteSetsExt, SequencesExt, Functions, TLC

CONSTANTS
  StackSize,       \* EBPF_TOTAL_STACK_SIZE
  SubprogramSize,  \* EBPF_SUBPROGRAM_STACK_SIZE
  Word,            \* the size of a register, sizeof(int64_t)
  States,          \* the abstract states alive
  Workloads        \* the accesses and register contents considered

Intervals == {i \in [lo : Int, hi : Int] : i.lo <= i.hi}

\* An access: lo .. hi is the interval of its offset, wlo .. whi of its size.
Accesses ==
  {a \in [lo : Nat, hi : Nat, wlo : Nat, whi : Nat] : a.lo <= a.hi /\ a.wlo <= a.whi}

\* The content of a register: its type, its value or the region it points to,
\* and whether the analysis knows the value.
Registers ==
  [type : {"num", "ptr", "uninit"}, value : Int, known : BOOLEAN, region : STRING]

ASSUME StackAssumption ==
  /\ {StackSize, SubprogramSize, Word} \subseteq Nat \ {0}
  /\ Word <= SubprogramSize /\ SubprogramSize <= StackSize

ASSUME WorkloadAssumption ==
  \A wl \in Workloads :
    /\ wl.big_endian \in BOOLEAN
    /\ wl.max_steps \in Nat
    /\ wl.states \subseteq States
    /\ wl.stores \subseteq [access : Accesses, register : Registers]
    /\ wl.loads \subseteq Accesses /\ wl.helpers \subseteq Accesses
    /\ wl.indices \subseteq Int /\ wl.moves \subseteq Int \ {0}
    /\ wl.calls \in BOOLEAN
    /\ wl.frame \in SubprogramSize .. StackSize
    /\ wl.offset \in Intervals

VARIABLES
  workload,             \* the inputs and options of this run
  array_map,            \* thread_local_array_map
  scalar,               \* the variables of the cells, per abstract state
  non_numerical_bytes,  \* BitsetDomain, per abstract state
  offset,               \* r6.stack_offset and r10.stack_offset
  numeric_size,         \* r6.stack_numeric_size and r10.stack_numeric_size
  memory,               \* the stack of an execution the state describes
  place,                \* where r6 and r10 point in that execution
  steps                 \* operations so far

vars == <<workload, array_map, scalar, non_numerical_bytes, offset,
          numeric_size, memory, place, steps>>

Bytes == 0 .. StackSize - 1
Pointers == {"r6", "r10"}

(***************************************************************************)
(* DataKind.  "offsets" stands for the kinds of the pointers' regions,     *)
(* which are all handled alike.                                            *)
(***************************************************************************)
Kinds == {"types", "svalues", "uvalues", "offsets"}
ValueKinds == {"svalues", "uvalues"}

\* The widths of loads and stores: 8, 4, 2 and 1.
Widths == {w \in 1 .. Word : \E k \in 0 .. 3 : w * 2^k = Word}

\* A cell is a pair of an offset and a size.
Singleton(a) == a.lo = a.hi /\ a.wlo = a.whi
CellOf(a) == <<a.lo, a.wlo>>
Fixed(o, w) == [lo |-> o, hi |-> o, wlo |-> w, whi |-> w]

CellBytes(c) == c[1] .. c[1] + c[2] - 1

(***************************************************************************)
(* offset_map_t.  A map gives a set of sizes to some offsets; remove_cell  *)
(* leaves an empty set, and get_cell makes one.                            *)
(***************************************************************************)
\* Cell::overlap
Overlap(c, d) == CellBytes(c) \cap CellBytes(d) # {}

\* offset_map_t::get_cell
GetCell(m, o) == IF o \in DOMAIN m THEN m ELSE m @@ (o :> {})
HasCell(m, c) == c[1] \in DOMAIN m /\ c[2] \in m[c[1]]

\* offset_map_t::mk_cell
MkCell(m, c) == [GetCell(m, c[1]) EXCEPT ![c[1]] = @ \cup {c[2]}]

\* offset_map_t::operator-=
RemoveCells(m, cells) ==
  [o \in DOMAIN m |-> {w \in m[o] : <<o, w>> \notin cells}]

\* offset_map_t::get_overlap_cells: both searches start at the offset of c and
\* stop at the first offset none of whose cells overlaps c.
OverlapCells(m, c) ==
  LET n == MkCell(m, c)
      meets(o) == \E w \in n[o] : Overlap(<<o, w>>, c)
      reached(o) == \A p \in DOMAIN n :
                      (o <= p /\ p <= c[1]) \/ (c[1] <= p /\ p <= o) => meets(p)
  IN  {d \in UNION {{<<o, w>> : w \in n[o]} : o \in {p \in DOMAIN n : reached(p)}} :
         d # c /\ Overlap(d, c)}

\* The order in which get_overlap_cells returns them: downwards from the
\* offset, then upwards.
InSearchOrder(cells, o) ==
  LET rank(d) == IF d[1] <= o THEN o - d[1] ELSE d[1]
  IN  SetToSortSeq(cells, LAMBDA d, e :
        rank(d) < rank(e) \/ (rank(d) = rank(e) /\ d[2] < e[2]))

\* offset_map_t::get_overlap_cells_symbolic_offset
OverlapCellsSymbolic(m, lo, hi) ==
  LET hit == {o \in DOMAIN m : m[o] # {} /\ o <= hi /\ lo <= o + Max(m[o]) - 1}
  IN  UNION {{<<o, w>> : w \in m[o]} : o \in hit}

(***************************************************************************)
(* BitsetDomain, as the set of bytes that may be something else.           *)
(***************************************************************************)
Range0(lb, n) == {b \in Bytes : lb <= b /\ b < lb + n}

AllNum(bits, lb, ub) == \A b \in Bytes : lb <= b /\ b < ub => b \notin bits

\* all_num_width
AllNumWidth(bits, lb) ==
  LET stops == {b \in bits : b >= lb} IN
  IF lb \notin Bytes THEN 0
  ELSE (IF stops = {} THEN StackSize ELSE Min(stops)) - lb

\* Interval::bound(0, EBPF_TOTAL_STACK_SIZE)
Bound(x) == IF x < 0 THEN 0 ELSE IF x > StackSize THEN StackSize ELSE x

(***************************************************************************)
(* A record d: the shared map with one abstract state's scalars.  A value  *)
(* that may be unknown is a set of at most one element.                    *)
(***************************************************************************)
Known(d, kind, c) ==
  IF c \in DOMAIN d.scalar[kind] THEN {d.scalar[kind][c]} ELSE {}

WithMap(d, kind, m) == [d EXCEPT !.map[kind] = m]

\* NumAbsDomain::havoc of the cells' variables
Havoc(d, kinds, cells) ==
  [d EXCEPT !.scalar = [k \in Kinds |->
     IF k \in kinds THEN Restrict(@[k], DOMAIN @[k] \ cells) ELSE @[k]]]

\* NumAbsDomain::assign
Assign(d, kind, c, value) ==
  LET e == Havoc(d, {kind}, {c}) IN
  IF value = {} THEN e
  ELSE [e EXCEPT !.scalar[kind] = (c :> (CHOOSE v \in value : TRUE)) @@ @]

(***************************************************************************)
(* Numbers and their bytes.  A byte has two values.                        *)
(***************************************************************************)
Weight(i, w) == IF workload.big_endian THEN 2^(w - 1 - i) ELSE 2^i
ByteOf(n, i, w) == ((n % 2^Word) \div Weight(i, w)) % 2
Compose(byte, w) == MapThenSumSet(LAMBDA i : byte[i] * Weight(i, w), 0 .. w - 1)
Signed(n) == IF n >= 2^(Word - 1) THEN n - 2^Word ELSE n

\* get_value_byte
GetValueByte(d, b, w) ==
  {ByteOf(n, b % w, w) : n \in Known(d, "svalues", <<(b \div w) * w, w>>)}

\* The widest variable around b with a known value wins.
ValueByte(d, b) ==
  LET found == {w \in Widths : GetValueByte(d, b, w) # {}} IN
  IF found = {} THEN {} ELSE GetValueByte(d, b, Max(found))

\* The part of load that puts a number together from the bytes of several cells.
Recompose(d, kind, c) ==
  IF /\ kind \in ValueKinds /\ c[2] \in Widths
     /\ \A b \in CellBytes(c) : ValueByte(d, b) # {}
  THEN LET byte == [i \in 0 .. c[2] - 1 |-> CHOOSE v \in ValueByte(d, c[1] + i) : TRUE]
           n == Compose(byte, c[2])
       IN  {IF kind = "svalues" /\ c[2] = Word THEN Signed(n) ELSE n}
  ELSE {}

\* What ArrayDomain::load returns
Load(d, kind, a) ==
  LET c == CellOf(a)
      parts == Recompose(d, kind, c)
  IN  IF ~ Singleton(a) THEN {}
      ELSE IF HasCell(d.map[kind], c) THEN Known(d, kind, c)
      ELSE IF parts # {} THEN parts
      ELSE IF OverlapCells(d.map[kind], c) = {} THEN Known(d, kind, c) ELSE {}

\* What it leaves behind in the maps of the kinds that are loaded: a load of a
\* fixed range may make a cell.
LoadCells(d, kinds, a) ==
  LET c == CellOf(a)
      makes(k) == /\ ~ HasCell(d.map[k], c)
                  /\ Recompose(d, k, c) = {}
                  /\ OverlapCells(d.map[k], c) = {}
  IN  IF ~ Singleton(a) THEN d
      ELSE [d EXCEPT !.map = [k \in Kinds |->
              IF k \notin kinds THEN @[k]
              ELSE IF makes(k) THEN MkCell(@[k], c) ELSE GetCell(@[k], c[1])]]

\* The bytes that load_type looks at
BytesRead(a) == IF Singleton(a) THEN CellBytes(CellOf(a)) \cap Bytes
                ELSE Range0(a.lo, a.hi - a.lo + a.whi)

(* Fault: the type of a cell is used although some bytes became numbers. *)
TypeOfAnyWord(bits, a) == Singleton(a) /\ a.wlo = Word

\* load_type looks for the type in a cell.
TypeIsInCell(bits, a) ==
  /\ Singleton(a) /\ a.wlo = Word
  /\ BytesRead(a) # {} /\ BytesRead(a) \subseteq bits

\* What ArrayDomain::load_type returns
LoadType(d, bits, a) ==
  IF TypeIsInCell(bits, a) THEN Load(d, "types", a)
  ELSE IF BytesRead(a) \cap bits = {} THEN {"num"} ELSE {}

(***************************************************************************)
(* Splitting and killing cells.                                            *)
(***************************************************************************)
\* ArrayDomain::split_cell
SplitCell(d, kind, c) ==
  LET a == Fixed(c[1], c[2])
      e == LoadCells(d, ValueKinds, a)
  IN  Assign(Assign(WithMap(e, kind, MkCell(e.map[kind], c)),
                    "svalues", c, Load(d, "svalues", a)),
             "uvalues", c, Load(d, "uvalues", a))

\* One turn of the loop of split_number_var, for the overlapping cell x: its
\* part to the left of c and its part to the right become cells.
SplitAround(d, bits, kind, c, x) ==
  LET last(y) == y[1] + y[2]
      parts == <<<<x[1], c[1] - x[1]>>, <<last(c), last(x) - last(c)>>>>
      turn(e, y) == IF y[2] > 0 THEN SplitCell(e, kind, y) ELSE e
  IN  IF AllNum(bits, x[1], last(x)) /\ x[2] >= Word /\ Known(d, kind, x) # {}
      THEN FoldLeft(turn, d, parts) ELSE d

\* ArrayDomain::split_number_var
SplitNumberVar(d, bits, kind, a) ==
  IF ~ Singleton(a) THEN d
  ELSE LET c == CellOf(a)
           m == d.map[kind]
           turn(e, x) == SplitAround(e, bits, kind, c, x)
       IN  FoldLeft(turn, WithMap(d, kind, GetCell(m, c[1])),
                    InSearchOrder(OverlapCells(m, c), c[1]))

(* Fault: the size of the access is forgotten. *)
KillAtOffsets(d, kind, a) ==
  LET m == d.map[kind]
      cells == IF Singleton(a) THEN OverlapCells(m, CellOf(a))
               ELSE OverlapCellsSymbolic(m, a.lo, a.hi)
  IN  Havoc(WithMap(d, kind, RemoveCells(m, cells)),
            IF kind \in ValueKinds THEN ValueKinds ELSE {kind}, cells)

\* kill_and_find_var
KillAndFindVar(d, kind, a) ==
  LET m == IF Singleton(a) THEN GetCell(d.map[kind], a.lo) ELSE d.map[kind]
      cells == IF Singleton(a) THEN OverlapCells(m, CellOf(a))
               ELSE OverlapCellsSymbolic(m, a.lo, a.hi + a.whi)
      kinds == IF kind \in ValueKinds THEN ValueKinds ELSE {kind}
  IN  Havoc(WithMap(d, kind, RemoveCells(m, cells)), kinds, cells)

\* ArrayDomain::havoc and ArrayDomain::store are made of three parts: split_number_var,
\* kill_and_find_var, and the assignment to the variable of the cell.
HavocParts(kind) == <<[kind |-> kind, does |-> "split", value |-> {}],
                      [kind |-> kind, does |-> "kill", value |-> {}]>>
StoreParts(kind, value) ==
  HavocParts(kind) \o <<[kind |-> kind, does |-> "store", value |-> value]>>

Part(d, bits, a, part) ==
  CASE part.does = "split" /\ part.kind \in ValueKinds -> SplitNumberVar(d, bits, part.kind, a)
    [] part.does = "kill" -> KillAndFindVar(d, part.kind, a)
    [] part.does = "store" /\ Singleton(a) ->
         Assign(WithMap(d, part.kind, MkCell(d.map[part.kind], CellOf(a))),
                part.kind, CellOf(a), part.value)
    [] OTHER -> d

\* The parts of one or more calls, one after the other
Perform(d, bits, a, parts) ==
  LET turn(e, part) == Part(e, bits, a, part) IN FoldLeft(turn, d, parts)

\* What ArrayDomain::havoc_type, store_type and store_numbers do to num_bytes
HavocTypeBits(bits, a) == IF Singleton(a) THEN bits \cup Range0(a.lo, a.wlo) ELSE bits

(* Fault: a store to an unknown offset does not touch num_bytes. *)
StoreTypeFixedBits(bits, a, is_num) ==
  IF is_num /\ Singleton(a) THEN bits \ Range0(a.lo, a.wlo) ELSE HavocTypeBits(bits, a)

StoreTypeBits(bits, a, is_num) ==
  IF ~ Singleton(a) THEN bits \cup Range0(Bound(a.lo), Bound(a.hi + a.whi))
  ELSE IF is_num THEN bits \ Range0(a.lo, a.wlo)
  ELSE bits \cup Range0(a.lo, a.wlo)

StoreNumbersBits(bits, a) ==
  IF Singleton(a) /\ a.lo + a.wlo <= StackSize THEN bits \ Range0(a.lo, a.wlo) ELSE bits

(***************************************************************************)
(* The transformer's use of the domain.  r is the content of the stored    *)
(* register: its type, and what is known of its value.                     *)
(***************************************************************************)
\* The part of do_store_stack that changes num_bytes
StoreBits(bits, a, r) ==
  IF r.type = "uninit" THEN HavocTypeBits(bits, a)
  ELSE StoreTypeBits(HavocTypeBits(bits, a), a, r.type = "num")

\* The part of do_store_stack that changes the cells.  Only the parts that are
\* about values look at num_bytes.
StoreCells(d, bits, a, r) ==
  LET w == a.wlo
      number == IF r.type = "num" /\ r.known THEN {r.value} ELSE {}
      cut == {n % 2^w : n \in number}
      first == HavocParts("types") \o HavocParts("offsets")
      havocs == HavocParts("svalues") \o HavocParts("uvalues")
      values(sv, uv) == StoreParts("svalues", sv) \o StoreParts("uvalues", uv)
      type == StoreParts("types", {r.type})
      region == IF r.type = "ptr" THEN StoreParts("offsets", {r.region}) ELSE <<>>
      parts ==
        IF r.type = "uninit" THEN first \o havocs
        ELSE IF w = Word
        THEN first \o type \o havocs \o values({Signed(n) : n \in number}, number) \o region
        ELSE first \o type \o IF r.type = "num" THEN values(cut, cut) ELSE havocs
  IN  Perform(d, bits, a, parts)

\* The number of bytes from lb .. ub on that are numbers: min_all_num_size
MinAllNumSize(bits, i) ==
  LET n == AllNumWidth(bits, i.lo) - (i.hi - i.lo) IN IF n > 0 THEN n ELSE 0

\* recompute_stack_numeric_size
Recompute(bits, i, size) ==
  LET n == MinAllNumSize(bits, i) IN IF n > 0 THEN {[lo |-> n, hi |-> n]} ELSE size

(* Fault: the size is kept when something else than a number is stored. *)
StoreKeepsSize(bits, i, size, a, is_num) == Recompute(bits, i, size)

\* The last part of do_store_stack, for one pointer
StoreNumericSize(bits, i, size, a, is_num) ==
  IF /\ size = {} \/ \E z \in size : a.lo <= i.hi + z.hi
     /\ a.hi + a.wlo >= i.lo
  THEN Recompute(bits, i, IF is_num THEN size ELSE {})
  ELSE size

\* The test at the start of do_load_stack: the base register's size covers the
\* width.  The offset of the access from the register is not looked at.
BySize(size, w) == \E z \in size : w <= z.lo

\* do_load_stack: what the target register gets, and what the loads leave behind.
LoadStack(d, bits, a, by_size) ==
  LET type == IF by_size THEN {"num"} ELSE LoadType(d, bits, a)
      found(kind) == IF type = {} THEN {} ELSE Load(d, kind, a)
      kinds == {k \in Kinds : CASE k = "types" -> ~ by_size /\ TypeIsInCell(bits, a)
                                [] k \in ValueKinds -> type # {}
                                [] k = "offsets" -> type = {"ptr"}}
  IN  [d |-> LoadCells(d, kinds, a), type |-> type,
       svalue |-> found("svalues"), uvalue |-> found("uvalues"),
       region |-> IF type = {"ptr"} THEN found("offsets") ELSE {}]

(***************************************************************************)
(* The execution.                                                          *)
(***************************************************************************)
NumByte(v) == [holds |-> "num", region |-> "", v |-> v]
Junk == [holds |-> "junk", region |-> "", v |-> 0]
PtrByte(p, i) == [holds |-> "ptr", region |-> p, v |-> i]

\* Junk from a register of unknown type, stored at an offset that is not fixed:
\* havoc_type leaves num_bytes as they are, and the store is not refused.
Unseen == [holds |-> "unseen", region |-> "", v |-> 0]

\* The i-th byte of the lowest bytes of a register that is stored at a
RegisterByte(r, i, a) ==
  CASE r.type = "num" -> NumByte(ByteOf(r.value, i, a.wlo))
    [] r.type = "ptr" -> PtrByte(r.region, i)
    [] r.type = "uninit" -> IF Singleton(a) THEN Junk ELSE Unseen

Written(m, x, a, r) ==
  [b \in Bytes |-> IF b \in x .. x + a.wlo - 1 THEN RegisterByte(r, b - x, a) ELSE m[b]]

Filled(m, x, w, v) == [b \in Bytes |-> IF b \in x .. x + w - 1 THEN NumByte(v) ELSE m[b]]

---------------------------------------------------------------------------

Data(s) == [map |-> array_map, scalar |-> scalar[s]]

\* The operation leaves d and bits as what s knows.
Becomes(s, d, bits) ==
  /\ array_map' = d.map
  /\ scalar' = [scalar EXCEPT ![s] = d.scalar]
  /\ non_numerical_bytes' = [non_numerical_bytes EXCEPT ![s] = bits]

\* ArrayDomain::havoc for the kinds of iterate_kinds(), which leave out the types
HavocKinds == HavocParts("svalues") \o HavocParts("uvalues") \o HavocParts("offsets")

Step ==
  /\ steps < workload.max_steps
  /\ steps' = steps + 1
  /\ UNCHANGED workload

Init ==
  /\ workload \in Workloads
  /\ array_map = [k \in Kinds |-> <<>>]
  /\ scalar = [s \in States |-> [k \in Kinds |-> <<>>]]
  /\ non_numerical_bytes = [s \in States |-> Bytes]
  /\ offset = [s \in States |-> [p \in Pointers |->
       IF p = "r10" THEN [lo |-> workload.frame, hi |-> workload.frame] ELSE workload.offset]]
  /\ numeric_size = [s \in States |-> [p \in Pointers |-> {}]]
  /\ memory = [s \in States |-> [b \in Bytes |-> Junk]]
  /\ \E x \in workload.offset.lo .. workload.offset.hi :
       place = [s \in States |-> [p \in Pointers |-> IF p = "r10" THEN workload.frame ELSE x]]
  /\ steps = 0

\* The bottom of the frame of the current function
FrameStart(s) == offset[s]["r10"].lo - SubprogramSize

\* check_access_stack, for the offsets lb .. ub - 1
InStack(s, lb, ub) == FrameStart(s) <= lb /\ ub <= StackSize

\* A store to the stack: do_store_stack
Store(s, a, r) ==
  /\ Step
  /\ InStack(s, a.lo, a.hi + a.wlo)
  /\ LET bits == StoreBits(non_numerical_bytes[s], a, r) IN
     /\ Becomes(s, StoreCells(Data(s), bits, a, r), bits)
     /\ numeric_size' = [numeric_size EXCEPT ![s] = [p \in Pointers |->
          StoreNumericSize(bits, offset[s][p], @[p], a, r.type = "num")]]
  /\ \E x \in a.lo .. a.hi : memory' = [memory EXCEPT ![s] = Written(@, x, a, r)]
  /\ UNCHANGED <<offset, place>>

\* An access through r10 that needs no assertion
InFrame(s, a) == FrameStart(s) <= a.lo /\ a.lo + a.wlo <= offset[s]["r10"].lo

\* A load through r10, at a fixed place in the frame: do_load, do_load_stack
LoadFixed(s, a) ==
  /\ Step
  /\ InFrame(s, a)
  /\ LET bits == non_numerical_bytes[s]
         by_size == BySize(numeric_size[s]["r10"], a.wlo)
     IN  Becomes(s, LoadStack(Data(s), bits, a, by_size).d, bits)
  /\ UNCHANGED <<offset, numeric_size, memory, place>>

\* The checker's ValidAccess for a read of w bytes at p + k
ReadAllowed(s, p, k, w) ==
  LET i == offset[s][p] IN
  /\ InStack(s, i.lo + k, i.hi + k + w)
  /\ \/ AllNum(non_numerical_bytes[s], i.lo + k, i.hi + k + w)
     \/ k >= 0 /\ \E z \in numeric_size[s][p] : w <= z.lo - k

\* A load of w bytes through p + k.  From r10 this is a load above the frame,
\* into the frames of the callers.
LoadThrough(s, p, k, w) ==
  /\ Step
  /\ ReadAllowed(s, p, k, w)
  /\ LET bits == non_numerical_bytes[s]
         i == offset[s][p]
         a == [lo |-> i.lo + k, hi |-> i.hi + k, wlo |-> w, whi |-> w]
         by_size == BySize(numeric_size[s][p], w)
     IN  Becomes(s, LoadStack(Data(s), bits, a, by_size).d, bits)
  /\ UNCHANGED <<offset, numeric_size, memory, place>>

\* A call of a helper with a PTR_TO_WRITABLE_MEM argument: the helper writes
\* numbers somewhere in the range.
HelperWrite(s, a) ==
  /\ Step
  /\ InStack(s, a.lo, a.hi + a.whi)
  /\ LET bits == non_numerical_bytes[s] IN
     Becomes(s, Perform(Data(s), bits, a, HavocKinds), StoreNumbersBits(bits, a))
  /\ \E x \in a.lo .. a.hi, w \in a.wlo .. a.whi, v \in {0, 1} :
       memory' = [memory EXCEPT ![s] = Filled(@, x, w, v)]
  /\ UNCHANGED <<offset, numeric_size, place>>

\* EbpfTransformer::add for a pointer p, when bits are the num_bytes
Add(s, p, imm, bits) ==
  LET i == [lo |-> offset[s][p].lo + imm, hi |-> offset[s][p].hi + imm]
      size == IF imm >= 0 THEN {[lo |-> z.lo - imm, hi |-> z.hi - imm] : z \in numeric_size[s][p]}
              ELSE {}
  IN  /\ offset' = [offset EXCEPT ![s][p] = i]
      /\ numeric_size' = [numeric_size EXCEPT ![s][p] = Recompute(bits, i, size)]
      /\ place' = [place EXCEPT ![s][p] = @ + imm]

\* r6 += imm, in the function r6 belongs to
Advance(s, imm) ==
  /\ Step
  /\ offset[s]["r10"].lo = workload.frame
  /\ Add(s, "r6", imm, non_numerical_bytes[s])
  /\ UNCHANGED <<array_map, scalar, non_numerical_bytes, memory>>

\* A call of a function of the program: r10 moves to the top of the next frame,
\* for which inline_subprogram has seen to it that there is room.
CallLocal(s) ==
  /\ Step
  /\ workload.calls
  /\ FrameStart(s) >= SubprogramSize
  /\ Add(s, "r10", -SubprogramSize, non_numerical_bytes[s])
  /\ UNCHANGED <<array_map, scalar, non_numerical_bytes, memory>>

\* Exit of a callee: havoc_subprogram_stack, and r10 is restored.
Exit(s) ==
  /\ Step
  /\ offset[s]["r10"].lo < workload.frame
  /\ LET a == Fixed(FrameStart(s), SubprogramSize)
         bits == HavocTypeBits(non_numerical_bytes[s], a)
     IN  /\ Becomes(s, Perform(Data(s), bits, a, HavocParts("types") \o HavocKinds), bits)
         /\ Add(s, "r10", SubprogramSize, bits)
  /\ UNCHANGED memory

\* A branch: both successors start from the state.
Copy(s, t) ==
  /\ Step
  /\ s # t
  /\ scalar' = [scalar EXCEPT ![t] = scalar[s]]
  /\ non_numerical_bytes' = [non_numerical_bytes EXCEPT ![t] = non_numerical_bytes[s]]
  /\ offset' = [offset EXCEPT ![t] = offset[s]]
  /\ numeric_size' = [numeric_size EXCEPT ![t] = numeric_size[s]]
  /\ memory' = [memory EXCEPT ![t] = memory[s]]
  /\ place' = [place EXCEPT ![t] = place[s]]
  /\ UNCHANGED array_map

Hull(i, j) == [lo |-> Min({i.lo, j.lo}), hi |-> Max({i.hi, j.hi})]
HullIfBoth(x, y) == {Hull(i, j) : i \in x, j \in y}

\* A join point: operator|= on every part.  The execution came along one side.
\* The labels that meet are of the same frame.
Join(s, t) ==
  /\ Step
  /\ s # t
  /\ offset[s]["r10"] = offset[t]["r10"]
  /\ scalar' = [scalar EXCEPT ![s] = [k \in Kinds |->
       LET same == {c \in DOMAIN @[k] \cap DOMAIN scalar[t][k] : @[k][c] = scalar[t][k][c]}
       IN  Restrict(@[k], same)]]
  /\ non_numerical_bytes' = [non_numerical_bytes EXCEPT ![s] = @ \cup non_numerical_bytes[t]]
  /\ offset' = [offset EXCEPT ![s] = [p \in Pointers |-> Hull(@[p], offset[t][p])]]
  /\ numeric_size' = [numeric_size EXCEPT ![s] = [p \in Pointers |->
       HullIfBoth(@[p], numeric_size[t][p])]]
  /\ \E side \in {s, t} : /\ memory' = [memory EXCEPT ![s] = memory[side]]
                          /\ place' = [place EXCEPT ![s] = place[side]]
  /\ UNCHANGED array_map

Next ==
  \E s \in workload.states :
    \/ \E x \in workload.stores : Store(s, x.access, x.register)
    \/ \E a \in workload.loads : LoadFixed(s, a)
    \/ \E p \in Pointers, k \in workload.indices, w \in Widths : LoadThrough(s, p, k, w)
    \/ \E a \in workload.helpers : HelperWrite(s, a)
    \/ CallLocal(s) \/ Exit(s)
    \/ \E imm \in workload.moves : Advance(s, imm)
    \/ \E t \in workload.states : Copy(s, t) \/ Join(s, t)

Spec == Init /\ [][Next]_vars

---------------------------------------------------------------------------

\* Every variable has its type, and the pointers point into their intervals.
TypeOK ==
  /\ workload \in Workloads
  /\ non_numerical_bytes \in [States -> SUBSET Bytes]
  /\ offset \in [States -> [Pointers -> Intervals]]
  /\ numeric_size \in [States -> [Pointers -> SUBSET Intervals]]
  /\ memory = [s \in States |-> [b \in Bytes |-> memory[s][b]]]
  /\ place \in [States -> [Pointers -> Int]]
  /\ \A s \in States, p \in Pointers : place[s][p] \in offset[s][p].lo .. offset[s][p].hi
  /\ steps \in 0 .. workload.max_steps

\* A number, or a byte that the analysis did not see written
Numeric == {"num", "unseen"}

\* A byte that num_bytes (BitsetDomain) counts as a number holds a number in
\* every execution the state describes, with one exception, for which the
\* claim is false of the code: when a register of unknown type is stored at an
\* offset that is not fixed, havoc_type returns without touching num_bytes.
NumericBytesAreNumbers ==
  \A s \in States : \A b \in Bytes \ non_numerical_bytes[s] : memory[s][b].holds \in Numeric

\* stack_numeric_size never promises more than the stack holds: the bytes from
\* r6 on, or from r10 on, that it counts are numbers, with the same exception.
NumericSizeIsRight ==
  \A s \in States, p \in Pointers : \A z \in numeric_size[s][p] : \A b \in Bytes :
    place[s][p] <= b /\ b < place[s][p] + z.lo => memory[s][b].holds \in Numeric

InMemory(s, c) == [i \in 0 .. c[2] - 1 |-> memory[s][c[1] + i]]

\* The loads through r10 that take their type from load_type
TypedLoads(s) ==
  {a \in workload.loads : InFrame(s, a) /\ ~ BySize(numeric_size[s]["r10"], a.wlo)}

\* A number that load_type finds in the frame is the number there, in main and
\* in its callees, whatever was stored, written by helpers or left by exits.
LoadedNumbersAreRight ==
  workload.exact => \A s \in States : \A a \in TypedLoads(s) :
    LET r == LoadStack(Data(s), non_numerical_bytes[s], a, FALSE)
        m == InMemory(s, CellOf(a))
        n == Compose([i \in 0 .. a.wlo - 1 |-> m[i].v], a.wlo)
    IN  r.type = {"num"} =>
          /\ \A i \in 0 .. a.wlo - 1 : m[i].holds = "num"
          /\ r.uvalue \subseteq {n}
          /\ r.svalue \subseteq {IF a.wlo = Word THEN Signed(n) ELSE n}

\* A pointer that do_load_stack finds in the frame was stored there whole, and
\* is the one that was stored.
LoadedPointersAreRight ==
  workload.exact => \A s \in States : \A a \in TypedLoads(s) :
    LET r == LoadStack(Data(s), non_numerical_bytes[s], a, FALSE)
        m == InMemory(s, CellOf(a))
    IN  r.type = {"ptr"} =>
          /\ \A i \in 0 .. Word - 1 : m[i].holds = "ptr" /\ m[i].v = i
          /\ \A i \in 0 .. Word - 1 : r.region \subseteq {m[i].region}

\* What do_load_stack takes for a number because of r10's size is a number.
\* False in a callee: the size counts bytes from r10 on, the load is below r10.
LoadsBySizeAreNumbers ==
  \A s \in States, a \in workload.loads :
    InFrame(s, a) /\ BySize(numeric_size[s]["r10"], a.wlo) =>
      \A i \in 0 .. a.wlo - 1 : memory[s][a.lo + i].holds \in Numeric

\* get_overlap_cells returns "all cells that might overlap with (o, size)".
OverlapsAreFound ==
  \A k \in Kinds, x \in workload.stores :
    LET c == CellOf(x.access)
        m == array_map[k]
    IN  OverlapCells(m, c) =
          {d \in UNION {{<<o, w>> : w \in m[o]} : o \in DOMAIN m} : d # c /\ Overlap(d, c)}
===========================================================================
