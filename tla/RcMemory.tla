------------------------------ MODULE RcMemory ------------------------------
(***************************************************************************)
(* Memory references: src/rcheevos/memref.c, operand.c, condition.c, the   *)
(* typed values of value.c and the MREF chunk of runtime_progress.c.       *)
(*                                                                         *)
(* Parsing a definition turns the operands of its conditions into shared   *)
(* references: one per address and size, and one "modified" reference for  *)
(* each sum, product or indirect read that an AddSource, SubSource,        *)
(* Remember or AddAddress chain needs.  A frame reads every reference once *)
(* and the modified ones in order; conditions then look at value, prior    *)
(* and changed.  The same chains are defined a second time below, directly *)
(* over the history of the memory, which is what they should mean.         *)
(*                                                                         *)
(* Widths are scaled down: a byte has 4 bits (two 2-bit halves) and the    *)
(* 32-bit word is Word = 256.  Floating point values are multiples of 1/4. *)
(***************************************************************************)
EXTENDS Integers, Sequences, SequencesExt, FiniteSets, Bitwise

CONSTANTS
  Hosts,        \* definitions activated together, with the memories they run over
  FrameBound,   \* frames of a behaviour
  FirstChunk    \* references that fit before the pool grows (32 in the code)

ASSUME BoundsAreNat == FrameBound \in Nat /\ FirstChunk \in Nat \ {0}

VARIABLES
  host,         \* the host of this behaviour
  pool,         \* the references: plain ones, modified ones and the room reserved for them
  conds,        \* the parsed conditions of every activated definition
  values,       \* value, prior and changed of every reference
  history,      \* history variable: the memory of every frame so far
  saved,        \* the save state: at most one
  updated       \* history variable: a frame has read the memory since the last load

vars == <<host, pool, conds, values, history, saved, updated>>

Byte == 16      \* 2^8
Word == 256     \* 2^32
Quarter == 4    \* floats are counted in quarters

-----------------------------------------------------------------------------
(* Typed values.                                                            *)

Unsigned(n) == [type |-> "unsigned", v |-> n % Word]
SignedOf(n) == [type |-> "signed", v |-> n % Word]
Float(q) == [type |-> "float", v |-> q]
Nothing == [type |-> "none", v |-> 0]

AsSigned(n) == IF n >= Word \div 2 THEN n - Word ELSE n

Truncated(q) == IF q >= 0 THEN q \div Quarter ELSE -((-q) \div Quarter)

\* rc_typed_value_convert
Convert(x, type) ==
  CASE x.type = "none" -> [type |-> type, v |-> 0]
    [] x.type = type -> x
    [] type = "float" -> Float(Quarter * (IF x.type = "signed" THEN AsSigned(x.v) ELSE x.v))
    [] x.type = "float" -> [type |-> type, v |-> Truncated(x.v) % Word]
    [] OTHER -> [type |-> type, v |-> x.v]

Negate(x) ==
  IF x.type = "float" THEN Float(-x.v)
  ELSE IF x.type = "none" THEN x ELSE SignedOf(-x.v)

\* A float on either side makes the sum a float; otherwise the left side decides.
Add(x, y) ==
  LET type == IF y.type = "float" THEN "float" ELSE x.type
      sum == Convert(x, type).v + Convert(y, type).v
  IN IF x.type = "none" THEN y
     ELSE [type |-> type, v |-> IF type = "float" THEN sum ELSE sum % Word]

Multiply(x, y) ==
  CASE "none" \in {x.type, y.type} -> Nothing
    [] "float" \in {x.type, y.type} ->
         Float((Convert(x, "float").v * Convert(y, "float").v) \div Quarter)
    [] OTHER -> [x EXCEPT !.v = (x.v * y.v) % Word]

\* Division truncates and a division by zero leaves no value.
Quotient(a, b) ==
  LET abs(n) == IF n < 0 THEN -n ELSE n
      q == abs(a) \div abs(b)
  IN IF (a < 0) = (b < 0) THEN q ELSE -q

Divide(x, y) ==
  CASE y.type = "none" \/ y.v = 0 \/ (x.type = "none" /\ y.type # "float") -> Nothing
    [] "float" \in {x.type, y.type} ->
         Float(Quotient(Convert(x, "float").v * Quarter, Convert(y, "float").v))
    [] x.type = "signed" -> SignedOf(Quotient(AsSigned(x.v), AsSigned(y.v)))
    [] OTHER -> Unsigned(x.v \div y.v)

Modulus(x, y) ==
  LET rest(a, b) == a - b * Quotient(a, b)
  IN CASE y.type = "none" \/ y.v = 0 \/ (x.type = "none" /\ y.type # "float") -> Nothing
       [] "float" \in {x.type, y.type} -> Float(rest(Convert(x, "float").v, Convert(y, "float").v))
       [] x.type = "signed" -> SignedOf(rest(AsSigned(x.v), AsSigned(y.v)))
       [] OTHER -> Unsigned(x.v % y.v)

\* rc_typed_value_combine; an operator that modifies nothing leaves the value.
Combine(x, y, oper) ==
  CASE oper = "MULT" -> Multiply(x, y)
    [] oper = "DIV" -> Divide(x, y)
    [] oper = "MOD" -> Modulus(x, y)
    [] oper = "ADD" -> Add(x, y)
    [] oper = "SUB" -> Add(x, Negate(y))
    [] oper = "AND" -> Unsigned(Convert(x, "unsigned").v & Convert(y, "unsigned").v)
    [] oper = "XOR" -> Unsigned(Convert(x, "unsigned").v ^^ Convert(y, "unsigned").v)
    [] OTHER -> x

Holds(a, oper, b) ==
  CASE oper = "EQ" -> a = b
    [] oper = "NE" -> a # b
    [] oper = "LT" -> a < b
    [] oper = "LE" -> a <= b
    [] oper = "GT" -> a > b
    [] oper = "GE" -> a >= b
    [] OTHER -> TRUE

\* rc_typed_value_compare: floats win, then the sign of the left side.
Compare(x, y, oper) ==
  LET type == IF y.type = "float" THEN "float" ELSE x.type
      a == Convert(x, type).v
      b == Convert(y, type).v
  IN IF type = "signed" THEN Holds(AsSigned(a), oper, AsSigned(b))
     ELSE type = "none" \/ Holds(a, oper, b)

-----------------------------------------------------------------------------
(* Sizes: what is read from memory, shared and cut out of it.               *)

Mask(size) ==
  CASE size = "LOW" -> 3
    [] size = "HIGH" -> 12
    [] size = "BIT_0" -> 1
    [] size \in {"8_BITS", "BITCOUNT"} -> Byte - 1
    [] OTHER -> Word - 1

SharedSize(size) ==
  IF size \in {"LOW", "HIGH", "BIT_0", "BITCOUNT", "8_BITS"} THEN "8_BITS" ELSE "32_BITS"

TypeOfSize(size) == IF size = "FLOAT" THEN "float" ELSE "unsigned"

ByteAt(memory, address) ==
  IF address \in DOMAIN memory THEN memory[address] ELSE 0

Read(memory, address, shared) ==
  IF shared = "8_BITS" THEN ByteAt(memory, address)
  ELSE ByteAt(memory, address) + Byte * ByteAt(memory, address + 1)

\* rc_peek_value: a size that is not shared reads the shared one and masks it.
Peek(memory, address, size) == Read(memory, address, SharedSize(size)) & Mask(size)

BitsSet(n) == Cardinality({i \in 0 .. 3 : (n \div (2^i)) % 2 = 1})

\* rc_transform_memref_value, on integers
Transform(n, size) ==
  CASE size = "LOW" -> n & 3
    [] size = "HIGH" -> (n \div 4) & 3
    [] size = "BIT_0" -> n & 1
    [] size = "BITCOUNT" -> BitsSet(n % Byte)
    [] size = "32_BITS_BE" -> (n % Byte) * Byte + (n \div Byte)
    [] OTHER -> n

\* rc_transform_operand_value: binary coded decimals and inverted bits.
Applied(n, type, size) ==
  CASE type = "BCD" /\ size = "8_BITS" -> (n \div 4) * 10 + (n % 4)
    [] type = "BCD" /\ size \in {"32_BITS", "32_BITS_BE"} ->
         (n \div 64) * 1000 + ((n \div 16) % 4) * 100 + ((n \div 4) % 4) * 10 + (n % 4)
    [] type = "INVERTED" /\ size \in {"LOW", "HIGH"} -> n ^^ 3
    [] type = "INVERTED" /\ size = "8_BITS" -> n ^^ (Byte - 1)
    [] type = "INVERTED" /\ size \in {"32_BITS", "32_BITS_BE"} -> n ^^ (Word - 1)
    [] type = "INVERTED" -> n ^^ 1
    [] OTHER -> n

-----------------------------------------------------------------------------
(* Parsing.  An operand refers to a plain reference by a positive index and *)
(* to a modified one by a negative index; 0 is no reference.                *)

Const(n) == [type |-> "CONST", size |-> "32_BITS", num |-> n, ref |-> 0, access |-> "none"]
ConstFloat(q) == [type |-> "FP", size |-> "FLOAT", num |-> q, ref |-> 0, access |-> "none"]
NoOperand == [type |-> "NONE", size |-> "32_BITS", num |-> 0, ref |-> 0, access |-> "none"]

IsMemref(o) == o.type \in {"ADDRESS", "DELTA", "PRIOR", "BCD", "INVERTED"}

\* rc_operand_is_float: an indirect read is as wide as the operand says, any
\* other modified reference as wide as its result.
IsFloat(p, o) ==
  CASE o.type = "FP" -> TRUE
    [] o.type = "RECALL" -> o.size = "FLOAT"
    [] IsMemref(o) /\ o.ref < 0 /\ p.modified[-o.ref].oper # "INDIRECT_READ" ->
         p.modified[-o.ref].size = "FLOAT"
    [] OTHER -> IsMemref(o) /\ o.size = "FLOAT"

\* rc_operands_are_equal: a recalled operand is compared by what it refers to,
\* not by how it reads it.
SameOperand(a, b) ==
  /\ a.type = b.type
  /\ CASE a.type \in {"CONST", "FP"} -> a.num = b.num
       [] a.type = "RECALL" -> a.ref = b.ref /\ a.num = b.num
       [] OTHER -> a.size = b.size /\ a.ref = b.ref

MemrefIn(p, address, size) ==
  SelectInSeq(p.memrefs, LAMBDA e : e = [address |-> address, size |-> size])

\* rc_alloc_memref: the same address and size is the same reference.
WithMemref(p, address, size) ==
  IF MemrefIn(p, address, size) # 0 THEN p
  ELSE [p EXCEPT !.memrefs = Append(@, [address |-> address, size |-> size])]

ModifiedIn(p, size, parent, oper, modifier) ==
  -SelectInSeq(p.modified,
               LAMBDA e : /\ e.size = size /\ e.oper = oper
                          /\ SameOperand(e.parent, parent)
                          /\ SameOperand(e.modifier, modifier))

\* rc_alloc_modified_memref
WithModified(p, size, parent, oper, modifier) ==
  IF ModifiedIn(p, size, parent, oper, modifier) # 0 THEN p
  ELSE [p EXCEPT !.modified =
          Append(@, [size |-> size, parent |-> parent, oper |-> oper, modifier |-> modifier])]

\* Mutant: prior values share the reference of the whole byte.
SizeToReadShared(t) == SharedSize(t.size)

\* A prior value needs a reference of its own unless the shared one covers
\* exactly the same bits.
SizeToRead(t) ==
  IF t.access = "PRIOR" /\ Mask(SharedSize(t.size)) # Mask(t.size)
  THEN t.size ELSE SharedSize(t.size)

\* {recall}: how and what the last Remember was.
RecalledOperand(s) ==
  IF s.remember.type = "NONE"
  THEN [NoOperand EXCEPT !.type = "RECALL", !.access = "ADDRESS"]
  ELSE [s.remember EXCEPT !.access = s.remember.type, !.type = "RECALL"]

\* A read of memory, indirect after an AddAddress.
MemoryOperand(t, s) ==
  LET offset == Const(t.num)
      size == SizeToRead(t)
      o == [type |-> t.access, size |-> t.size, num |-> 0, ref |-> 0, access |-> t.access]
      indirect == WithModified(s.pool, size, s.indirect, "INDIRECT_READ", offset)
      direct == WithMemref(s.pool, t.num, size)
  IN IF s.indirect.type # "NONE"
     THEN <<[o EXCEPT !.ref = ModifiedIn(indirect, size, s.indirect, "INDIRECT_READ", offset)],
            [s EXCEPT !.pool = indirect]>>
     ELSE <<[o EXCEPT !.ref = MemrefIn(direct, t.num, size)], [s EXCEPT !.pool = direct]>>

\* s is the parse state: the pool and what the chain has built so far.
ParseOperand(t, s) ==
  CASE t.kind = "const" -> <<Const(t.num), s>>
    [] t.kind = "float" -> <<ConstFloat(t.num), s>>
    [] t.kind = "recall" -> <<RecalledOperand(s), s>>
    [] OTHER -> MemoryOperand(t, s)

\* rc_condition_convert_to_operand: the operand that stands for "operand1 oper operand2".
ToOperand(c, p) ==
  LET size == IF IsFloat(p, c.operand1) \/ IsFloat(p, c.operand2) THEN "FLOAT" ELSE "32_BITS"
      q == WithModified(p, size, c.operand1, c.oper, c.operand2)
  IN IF c.oper = "NONE" THEN <<c.operand1, p>>
     ELSE <<[type |-> "ADDRESS", size |-> size, num |-> 0, access |-> "ADDRESS",
             ref |-> ModifiedIn(q, size, c.operand1, c.oper, c.operand2)], q>>

\* rc_operand_addsource: o joined to the chain so far.  The difference of two
\* previous values is the previous value of the difference.
Joined(o, s, size) ==
  LET sameDelta == o.type \in {"DELTA", "PRIOR"} /\ o.type = s.addsource.type
      parent == IF sameDelta THEN [s.addsource EXCEPT !.type = "ADDRESS"] ELSE s.addsource
      modifier == IF sameDelta THEN [o EXCEPT !.type = "ADDRESS"] ELSE o
      type == IF sameDelta THEN o.type ELSE "ADDRESS"
      q == WithModified(s.pool, size, parent, s.addsource_oper, modifier)
  IN <<[o EXCEPT !.type = type, !.size = "32_BITS", !.num = 0,
                 !.access = IF sameDelta THEN o.access ELSE "ADDRESS",
                 !.ref = ModifiedIn(q, size, parent, s.addsource_oper, modifier)],
       [s EXCEPT !.pool = q]>>

ChainSize(s) == IF IsFloat(s.pool, s.addsource) THEN "FLOAT" ELSE "32_BITS"

\* A chain that starts with a SubSource, or a constant, gets a zero to subtract
\* from.  The operand of a negated start keeps the type it had, so a delta is
\* taken twice.
Subtractable(s) ==
  LET zero == IF IsFloat(s.pool, s.addsource) THEN ConstFloat(0) ELSE Const(0)
      sum == WithModified(s.pool, s.addsource.size, s.addsource, "ADD", Const(0))
      negated == WithModified(s.pool, ChainSize(s), s.addsource, "SUB_PARENT", zero)
  IN CASE s.addsource_oper = "ADD" /\ ~IsMemref(s.addsource) ->
            [s EXCEPT !.pool = sum,
                      !.addsource.type = "ADDRESS",
                      !.addsource.num = 0,
                      !.addsource.ref =
                        ModifiedIn(sum, s.addsource.size, s.addsource, "ADD", Const(0))]
       [] s.addsource_oper = "SUB_PARENT" ->
            [s EXCEPT !.pool = negated,
                      !.addsource.size = zero.size,
                      !.addsource.ref =
                        ModifiedIn(negated, ChainSize(s), s.addsource, "SUB_PARENT", zero)]
       [] OTHER -> s

-----------------------------------------------------------------------------
(* rc_condition_update_parse_state: what a condition hands to the next one. *)

EndOfChain(s) == [s EXCEPT !.addsource = NoOperand, !.indirect = NoOperand]

\* AddAddress
Indirected(c, s) ==
  LET o == ToOperand(c, s.pool)
  IN [s EXCEPT !.pool = o[2], !.indirect = o[1]]

\* AddSource, and the first SubSource
Begun(c, s, oper) ==
  LET o == ToOperand(c, s.pool)
  IN [s EXCEPT !.pool = o[2], !.addsource = o[1], !.addsource_oper = oper, !.indirect = NoOperand]

Continued(c, s, size) ==
  LET o == ToOperand(c, s.pool)
      j == Joined(o[1], [s EXCEPT !.pool = o[2]], size)
  IN [j[2] EXCEPT !.addsource = j[1], !.addsource_oper = "ADD", !.indirect = NoOperand]

SubtractedFrom(c, s, size) ==
  Continued(c, [s EXCEPT !.addsource_oper = IF IsMemref(s.addsource) THEN "SUB" ELSE "SUB_PARENT"],
            size)

\* The chain ends in this condition's first operand.
Closed(o, s) ==
  IF s.addsource.type = "NONE" THEN <<o, s>> ELSE Joined(o, s, o.size)

Arithmetic == {"AND", "XOR", "DIV", "MULT", "MOD", "ADD", "SUB", "NONE"}

\* A comparison on a modifying condition is dropped with its right side.
WithRight(c, left, s) ==
  LET dropped == c.type \in {"ADD_SOURCE", "SUB_SOURCE", "ADD_ADDRESS"} /\ c.oper \notin Arithmetic
      right == ParseOperand(c.operand2, s)
      condition(oper, operand2) ==
        [type |-> c.type, operand1 |-> left, oper |-> oper, operand2 |-> operand2]
  IN CASE c.oper = "NONE" -> <<condition("NONE", Const(1)), s>>
       [] dropped -> <<condition("NONE", Const(0)), right[2]>>
       [] OTHER -> <<condition(c.oper, right[1]), right[2]>>

Parsed(c, left) == WithRight(c, left[1], left[2])

Remembered(d, closed) ==
  <<[d EXCEPT !.operand1 = closed[1]], EndOfChain([closed[2] EXCEPT !.remember = closed[1]])>>

Compared(d, closed) == <<[d EXCEPT !.operand1 = closed[1]], EndOfChain(closed[2])>>

ClosedAfter(kept, s) == Closed(kept[1], [s EXCEPT !.pool = kept[2]])

\* The condition as it is evaluated, and what it leaves for the next.
Chained(d, s) ==
  LET first == s.addsource.type = "NONE"
  IN CASE d.type = "ADD_ADDRESS" -> <<d, Indirected(d, s)>>
       [] d.type = "ADD_SOURCE" /\ first -> <<d, Begun(d, s, "ADD")>>
       [] d.type = "ADD_SOURCE" -> <<d, Continued(d, s, ChainSize(s))>>
       [] d.type = "SUB_SOURCE" /\ first -> <<d, Begun(d, s, "SUB_PARENT")>>
       [] d.type = "SUB_SOURCE" -> <<d, SubtractedFrom(d, Subtractable(s), ChainSize(s))>>
       [] d.type = "REMEMBER" -> Remembered(d, ClosedAfter(ToOperand(d, s.pool), s))
       [] OTHER -> Compared(d, Closed(d.operand1, s))

ChainedPair(r) == Chained(r[1], r[2])

ParseCondition(c, s) == ChainedPair(Parsed(c, ParseOperand(c.operand1, s)))

NewParse(p) ==
  [pool |-> p, indirect |-> NoOperand, addsource |-> NoOperand, addsource_oper |-> "NONE",
   remember |-> NoOperand]

\* rc_parse_condset: the conditions in order, each over what the last one left.
ParseConditions(definition, p) ==
  FoldLeft(LAMBDA done, c :
             LET r == ParseCondition(c, done[2]) IN <<Append(done[1], r[1]), r[2]>>,
           << <<>>, NewParse(p)>>, definition)

-----------------------------------------------------------------------------
(* Evaluation.  f holds value, prior and changed of the plain references    *)
(* (f.memrefs) and of the modified ones (f.modified).                       *)

Fresh == [value |-> 0, prior |-> 0, changed |-> FALSE]

EntryOf(f, ref) == IF ref > 0 THEN f.memrefs[ref] ELSE f.modified[-ref]

TypeOfRef(p, ref) == IF ref > 0 THEN "unsigned" ELSE TypeOfSize(p.modified[-ref].size)

\* rc_get_memref_value_value
Seen(entry, access) ==
  IF access = "PRIOR" \/ (access = "DELTA" /\ entry.changed) THEN entry.prior ELSE entry.value

\* rc_evaluate_operand
Evaluate(o, p, f) ==
  LET access == IF o.type = "RECALL" THEN o.access ELSE o.type
      n == Seen(EntryOf(f, o.ref), access)
  IN CASE access = "CONST" -> Unsigned(o.num)
       [] access = "FP" -> Float(o.num)
       [] o.ref = 0 -> Unsigned(0)
       [] TypeOfRef(p, o.ref) = "float" -> Float(n)
       [] OTHER -> Unsigned(Applied(Transform(n, o.size), o.type, o.size))

\* rc_get_modified_memref_value
ModifiedValue(m, p, f, memory) ==
  LET x == Evaluate(m.parent, p, f)
      y == Evaluate(m.modifier, p, f)
      result == IF m.oper = "SUB_PARENT" THEN Add(Negate(x), y) ELSE Combine(x, y, m.oper)
  IN IF m.oper = "INDIRECT_READ"
     THEN Peek(memory, Convert(Add(x, y), "unsigned").v, m.size)
     ELSE Convert(result, TypeOfSize(m.size)).v

\* rc_update_memref_value
Updated(entry, n) ==
  IF entry.value = n THEN [entry EXCEPT !.changed = FALSE]
  ELSE [value |-> n, prior |-> entry.value, changed |-> TRUE]

\* rc_update_memref_values: the modified references in the order they were made,
\* so that each one sees its parents of this frame.
UpdateAll(p, f, memory) ==
  LET plain == [i \in DOMAIN p.memrefs |->
                  Updated(f.memrefs[i], Peek(memory, p.memrefs[i].address, p.memrefs[i].size))]
  IN FoldLeftDomain(LAMBDA g, i :
                      [g EXCEPT !.modified[i] =
                         Updated(@, ModifiedValue(p.modified[i], p, g, memory))],
                    [f EXCEPT !.memrefs = plain], p.modified)

-----------------------------------------------------------------------------
(* Comparing: rc_test_condition and its shortcuts.                          *)

PlainInteger(o) == o.type \in {"ADDRESS", "DELTA"} /\ o.ref > 0 /\ o.size # "FLOAT"

Translated(o, p) == o.size # p.memrefs[o.ref].size

\* Mutant: any delta is compared with the flag of the first operand.
ComparatorForAnyDelta(c, p) ==
  LET plain == PlainInteger(c.operand1) /\ PlainInteger(c.operand2)
  IN CASE plain /\ c.operand1.type = "ADDRESS" /\ c.operand2.type = "DELTA" -> "MEMREF_TO_DELTA"
       [] plain /\ c.operand1.type = "DELTA" /\ c.operand2.type = "ADDRESS" -> "DELTA_TO_MEMREF"
       [] OTHER -> "DEFAULT"

\* rc_condition_determine_comparator
Comparator(c, p) ==
  LET a == c.operand1
      b == c.operand2
      always(x) == IF x THEN "ALWAYS_TRUE" ELSE "ALWAYS_FALSE"
  IN CASE c.oper \in Arithmetic -> "ALWAYS_TRUE"
       [] PlainInteger(a) /\ b.type = "CONST" ->
            IF a.type = "ADDRESS" THEN "MEMREF_TO_CONST" ELSE "DELTA_TO_CONST"
       [] PlainInteger(a) /\ PlainInteger(b) /\ a.type = "ADDRESS" /\ b.type = "ADDRESS" ->
            IF a.ref = b.ref /\ ~Translated(a, p) /\ ~Translated(b, p)
            THEN always(Holds(0, c.oper, 0)) ELSE "MEMREF_TO_MEMREF"
       [] PlainInteger(a) /\ PlainInteger(b) /\ a.ref = b.ref /\ a.type # b.type ->
            IF a.type = "ADDRESS" THEN "MEMREF_TO_DELTA" ELSE "DELTA_TO_MEMREF"
       [] a.type = "CONST" /\ b.type = "CONST" -> always(Holds(a.num, c.oper, b.num))
       [] OTHER -> "DEFAULT"

\* The optimized comparators; the ones for sizes that are cut out of a shared
\* reference transform both sides first.
Shortcut(how, c, f) ==
  LET a == c.operand1
      b == c.operand2
      entry == EntryOf(f, a.ref)
      now(o) == Transform(EntryOf(f, o.ref).value, o.size)
      before(o) == Transform(Seen(EntryOf(f, o.ref), "DELTA"), o.size)
      last(o) == Transform(entry.prior, o.size)
  IN CASE how = "MEMREF_TO_CONST" -> Holds(now(a), c.oper, b.num)
       [] how = "DELTA_TO_CONST" -> Holds(before(a), c.oper, b.num)
       [] how = "MEMREF_TO_MEMREF" -> Holds(now(a), c.oper, now(b))
       [] how = "MEMREF_TO_DELTA" /\ entry.changed -> Holds(now(a), c.oper, last(b))
       [] how = "DELTA_TO_MEMREF" /\ entry.changed -> Holds(last(a), c.oper, now(b))
       [] OTHER -> Holds(0, c.oper, 0)

\* The comparator is chosen when the condition is parsed and chosen again when a
\* chain replaces its first operand.
TestCondition(c, p, f) ==
  LET how == Comparator(c, p)
  IN CASE how = "ALWAYS_TRUE" -> TRUE
       [] how = "ALWAYS_FALSE" -> FALSE
       [] how = "DEFAULT" -> Compare(Evaluate(c.operand1, p, f), Evaluate(c.operand2, p, f), c.oper)
       [] OTHER -> Shortcut(how, c, f)

-----------------------------------------------------------------------------
(* The pool grows in chunks; references never move.                         *)

\* rc_preparse_array_size
RECURSIVE ArraySize(_, _)
ArraySize(needed, minimum) == IF minimum >= needed THEN minimum ELSE ArraySize(needed, 2 * minimum)

\* Mutant: the new chunk is sized as if the old one had no room to give.
ReserveWithoutMinimum(chunks, needed) ==
  IF Last(chunks).capacity - Last(chunks).count >= needed THEN chunks
  ELSE Append(chunks, [capacity |-> needed - 1, count |-> 0])

\* rc_preparse_reserve_memrefs: the first chunk with room, and after it a new one
\* for what does not fit.
Reserve(chunks, needed) ==
  LET found == SelectInSeq(chunks, LAMBDA k : k.count < k.capacity)
      last == IF found = 0 THEN Len(chunks) ELSE found
      available == chunks[last].capacity - chunks[last].count
      minimum == IF FirstChunk > 1 THEN FirstChunk \div 2 ELSE 1
  IN IF available >= needed THEN chunks
     ELSE Append(SubSeq(chunks, 1, last),
                 [capacity |-> ArraySize(needed - available, minimum), count |-> 0])

\* What the second pass then allocates: the first chunk with room takes it.
RECURSIVE Fill(_, _)
Fill(chunks, n) ==
  LET k == SelectInSeq(chunks, LAMBDA c : c.count < c.capacity)
  IN IF n = 0 \/ k = 0 THEN <<chunks, n>>
     ELSE Fill([chunks EXCEPT ![k].count = @ + 1], n - 1)

EmptyPool ==
  [memrefs |-> <<>>, modified |-> <<>>, spilled |-> 0,
   memref_chunks |-> <<[capacity |-> FirstChunk, count |-> 0]>>,
   modified_chunks |-> <<[capacity |-> FirstChunk, count |-> 0]>>]

\* Room for the references the first pass counted, taken by the second.
Grown(p, q) ==
  LET plain == Len(q.memrefs) - Len(p.memrefs)
      modified == Len(q.modified) - Len(p.modified)
      a == Fill(Reserve(p.memref_chunks, plain), plain)
      b == Fill(Reserve(p.modified_chunks, modified), modified)
  IN [q EXCEPT !.memref_chunks = a[1], !.modified_chunks = b[1], !.spilled = @ + a[2] + b[2]]

-----------------------------------------------------------------------------
Init ==
  /\ host \in Hosts
  /\ pool = EmptyPool
  /\ conds = <<>>
  /\ values = [memrefs |-> <<>>, modified |-> <<>>]
  /\ history = <<>>
  /\ saved = {}
  /\ updated = FALSE

Extended(entries, n) == entries \o [i \in 1 .. n - Len(entries) |-> Fresh]

\* A definition is parsed against the references of those before it.
Activate ==
  /\ history = <<>> /\ Len(conds) < Len(host.definitions)
  /\ \E parsed \in {ParseConditions(host.definitions[Len(conds) + 1], pool)} :
       /\ pool' = Grown(pool, parsed[2].pool)
       /\ conds' = Append(conds, parsed[1])
       /\ values' = [memrefs |-> Extended(values.memrefs, Len(pool'.memrefs)),
                     modified |-> Extended(values.modified, Len(pool'.modified))]
  /\ UNCHANGED <<host, history, saved, updated>>

Frame ==
  /\ conds # <<>> /\ Len(history) < FrameBound
  /\ \E memory \in host.memories :
       /\ values' = UpdateAll(pool, values, memory)
       /\ history' = Append(history, memory)
  /\ updated' = TRUE
  /\ UNCHANGED <<host, pool, conds, saved>>

-----------------------------------------------------------------------------
(* Save states.  Plain references are stored by address and size, an        *)
(* indirect one with each condition it is an operand of; the other modified *)
(* references are computed again from their parents.                        *)

IsIndirect(o) == IsMemref(o) /\ o.ref < 0 /\ pool.modified[-o.ref].oper = "INDIRECT_READ"

\* The indirect references stored with the conditions, in order.
StoredIndirect ==
  {-o.ref : o \in {x \in UNION {{c.operand1, c.operand2} : c \in UNION {ToSet(d) : d \in ToSet(conds)}} :
                     IsIndirect(x)}}

Serialize ==
  /\ host.saves /\ history # <<>>
  /\ saved' = {[memrefs |-> values.memrefs,
                indirect |-> [i \in StoredIndirect |-> values.modified[i]],
                definitions |-> Len(conds), history |-> history]}
  /\ UNCHANGED <<host, pool, conds, values, history, updated>>

\* rc_runtime_progress_update_modified_memrefs: now and before are evaluated over
\* the current and the prior values of the parents.
Reconstructed(m, p, f) ==
  LET parents == {o \in {m.parent, m.modifier} : IsMemref(o)}
      past(entries) == [i \in DOMAIN entries |-> [entries[i] EXCEPT !.value = entries[i].prior]]
      earlier == [memrefs |-> past(f.memrefs), modified |-> past(f.modified)]
      before(o) == IF IsMemref(o) THEN Evaluate(o, p, earlier) ELSE Evaluate(o, p, f)
      result(x, y) == IF m.oper = "SUB_PARENT" THEN Add(Negate(x), y) ELSE Combine(x, y, m.oper)
      stored(x) == Convert(x, TypeOfSize(m.size)).v
  IN [value |-> stored(result(Evaluate(m.parent, p, f), Evaluate(m.modifier, p, f))),
      prior |-> stored(result(before(m.parent), before(m.modifier))),
      changed |-> \E o \in parents : EntryOf(f, o.ref).changed]

ReconstructAll(p, f) ==
  FoldLeftDomain(LAMBDA g, i :
                   IF p.modified[i].oper = "INDIRECT_READ"
                   THEN [g EXCEPT !.modified[i].changed = FALSE]
                   ELSE [g EXCEPT !.modified[i] = Reconstructed(p.modified[i], p, g)],
                 f, p.modified)

\* By rc_client's rules a state is loaded over the definitions it was saved with;
\* what becomes of the others is the subject of RcRuntime.
Deserialize ==
  /\ \E s \in saved :
       /\ s.definitions = Len(conds)
       /\ \E f \in {ReconstructAll(pool, [values EXCEPT !.memrefs = s.memrefs])} :
            values' = [f EXCEPT !.modified =
                         [i \in DOMAIN @ |-> IF i \in DOMAIN s.indirect THEN s.indirect[i] ELSE @[i]]]
       /\ history' = s.history
  /\ updated' = FALSE
  /\ UNCHANGED <<host, pool, conds, saved>>

\* rc_runtime_destroy, and the same game again: save states outlive it.
Destroy ==
  /\ conds # <<>>
  /\ pool' = EmptyPool /\ conds' = <<>> /\ history' = <<>>
  /\ values' = [memrefs |-> <<>>, modified |-> <<>>]
  /\ updated' = FALSE
  /\ UNCHANGED <<host, saved>>

Next == Activate \/ Frame \/ Serialize \/ Deserialize \/ Destroy

Spec == Init /\ [][Next]_vars

-----------------------------------------------------------------------------
(* What the definitions mean, over the history of the memory alone.         *)

Address(d, c) == c > 1 /\ d[c - 1].type = "ADD_ADDRESS"

RECURSIVE Meant(_, _, _, _), MeantTerm(_, _, _), MeantChain(_, _, _), MeantLeft(_, _, _)

\* The bits operand t of condition c of definition d stands for at the end of h.
MeantBits(d, c, t, h) ==
  LET base == IF Address(d, c) THEN Convert(MeantTerm(d, c - 1, h), "unsigned").v ELSE 0
  IN IF h = <<>> THEN 0
     ELSE Peek(Last(h), (base + t.num) % Word, IF t.access = "PRIOR" THEN t.size ELSE SharedSize(t.size))

RECURSIVE MeantPrior(_, _, _, _)
MeantPrior(d, c, t, h) ==
  CASE h = <<>> -> 0
    [] MeantBits(d, c, t, h) # MeantBits(d, c, t, Front(h)) -> MeantBits(d, c, t, Front(h))
    [] OTHER -> MeantPrior(d, c, t, Front(h))

\* An operand: now, one frame ago, or the last time it was different.
Meant(d, c, t, h) ==
  LET remembers == {k \in 1 .. c - 1 : d[k].type = "REMEMBER"}
      last == CHOOSE k \in remembers : \A j \in remembers : j <= k
      bits == CASE t.access = "DELTA" -> MeantBits(d, c, t, Front(h))
                [] t.access = "PRIOR" -> MeantPrior(d, c, t, h)
                [] OTHER -> MeantBits(d, c, t, h)
  IN CASE t.kind = "const" -> Unsigned(t.num)
       [] t.kind = "float" -> Float(t.num)
       [] t.kind = "recall" -> IF remembers = {} THEN Unsigned(0) ELSE MeantLeft(d, last, h)
       [] OTHER -> Unsigned(Applied(Transform(bits, t.size), t.access, t.size))

Modifies(c) == c.type \in {"ADD_SOURCE", "SUB_SOURCE", "ADD_ADDRESS", "REMEMBER"}

\* operand1 and, for a modifying condition, what its operator makes of it.
MeantTerm(d, c, h) ==
  LET x == Meant(d, c, d[c].operand1, h)
      y == Meant(d, c, d[c].operand2, h)
      type == IF "float" \in {x.type, y.type} THEN "float" ELSE "unsigned"
  IN IF Modifies(d[c]) /\ d[c].oper \in Arithmetic \ {"NONE"}
     THEN Convert(Combine(x, y, d[c].oper), type) ELSE x

Sources(d, c) ==
  {k \in 1 .. c - 1 : /\ d[k].type \in {"ADD_SOURCE", "SUB_SOURCE"}
                      /\ \A j \in k .. c - 1 : d[j].type \in {"ADD_SOURCE", "SUB_SOURCE", "ADD_ADDRESS"}}

Stored(x, type) == Convert(x, IF type = "float" THEN "float" ELSE "unsigned")

\* The sum of the sources before condition c, in the type of the first of them; a
\* single subtracted source stays negative.
MeantChain(d, c, h) ==
  LET sources == Sources(d, c)
      k == CHOOSE i \in sources : \A j \in sources : j <= i
      term == MeantTerm(d, k, h)
      added == IF d[k].type = "SUB_SOURCE" THEN Negate(term) ELSE term
      rest == MeantChain(d, k, h)
  IN IF Sources(d, k) = {} THEN added ELSE Stored(Add(rest, added), rest.type)

\* The left side of condition c: the sources, in the type of its own operand.
MeantLeft(d, c, h) ==
  LET term == MeantTerm(d, c, h)
  IN IF Sources(d, c) = {} THEN term ELSE Stored(Add(MeantChain(d, c, h), term), term.type)

-----------------------------------------------------------------------------
\* The conditions that are looked at, by definition and position.
Watched ==
  {x \in UNION {{<<k, c>> : c \in DOMAIN conds[k]} : k \in DOMAIN conds} :
     updated /\ ~Modifies(conds[x[1]][x[2]])}

\* Every operand refers to a reference that exists, a modified reference
\* only to ones made before it, and every reference has its values.
TypeOK ==
  LET refers(o, plain, modified) == o.ref \in -modified .. plain
  IN /\ host \in Hosts /\ history \in Seq(host.memories) /\ updated \in BOOLEAN
     /\ Len(values.memrefs) = Len(pool.memrefs) /\ Len(values.modified) = Len(pool.modified)
     /\ \A i \in DOMAIN pool.modified :
          /\ refers(pool.modified[i].parent, Len(pool.memrefs), i - 1)
          /\ refers(pool.modified[i].modifier, Len(pool.memrefs), i - 1)
     /\ \A d \in ToSet(conds) : \A c \in ToSet(d) :
          /\ refers(c.operand1, Len(pool.memrefs), Len(pool.modified))
          /\ refers(c.operand2, Len(pool.memrefs), Len(pool.modified))

\* Sharing loses nothing.  The state has its types; after every frame, also the
\* first one after a save state was loaded, each side of each condition evaluates,
\* through the shared and the modified references, to what the definition says of
\* the memory now and before (memref.c, rc_evaluate_operand).  The definitions keep
\* clear of what the code evaluates otherwise: a second SubSource after one of another
\* type, recalled binary coded decimals and inverted bits, recalled operands that
\* differ in how they read, sums of indirect reads or of prior values after a restore.
OperandsFollowHistory ==
  /\ TypeOK
  /\ \A x \in Watched :
       LET d == host.definitions[x[1]]
           c == conds[x[1]][x[2]]
       IN /\ Evaluate(c.operand1, pool, values) = MeantLeft(d, x[2], history)
          /\ c.oper # "NONE" =>
               Evaluate(c.operand2, pool, values) = Meant(d, x[2], d[x[2]].operand2, history)

\* A reference is compared with its own value of a frame ago in another size, and has
\* not changed since: its two sizes may differ all the same.
SizesOfUnchanged(c) ==
  /\ PlainInteger(c.operand1) /\ PlainInteger(c.operand2)
  /\ c.operand1.ref = c.operand2.ref /\ c.operand1.size # c.operand2.size
  /\ {c.operand1.type, c.operand2.type} = {"ADDRESS", "DELTA"}
  /\ ~values.memrefs[c.operand1.ref].changed

\* Each of the optimized comparators, and the general one, gives the answer of
\* comparing what the two sides mean (rc_test_condition), with one exception:
\* rc_test_condition_compare_memref_to_delta_transformed and its mirror image
\* (condition.c:639, 668) take the two sides for equal when the reference has not
\* changed, also when they are of different sizes.
ComparisonsAgree ==
  \A x \in Watched :
    LET d == host.definitions[x[1]]
        c == conds[x[1]][x[2]]
        meant == Compare(MeantLeft(d, x[2], history), Meant(d, x[2], d[x[2]].operand2, history),
                         c.oper)
    IN c.oper \notin Arithmetic =>
         (TestCondition(c, pool, values)
            <=> IF SizesOfUnchanged(c) THEN Holds(0, c.oper, 0) ELSE meant)

\* The room reserved from the first pass over a definition is enough for its second
\* pass, whatever was in the pool, and no chunk but the last has room left
\* (rc_preparse_reserve_memrefs).
PoolsSuffice ==
  /\ pool.spilled = 0
  /\ \A chunks \in {pool.memref_chunks, pool.modified_chunks} :
       \A k \in 1 .. Len(chunks) - 1 : chunks[k].count = chunks[k].capacity
  /\ FoldLeft(LAMBDA n, k : n + k.count, 0, pool.memref_chunks) = Len(pool.memrefs)
  /\ FoldLeft(LAMBDA n, k : n + k.count, 0, pool.modified_chunks) = Len(pool.modified)
=============================================================================
