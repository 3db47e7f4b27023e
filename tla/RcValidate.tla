----------------------------- MODULE RcValidate -----------------------------
(***************************************************************************)
(* The validator of triggers: it reports the first condition that cannot   *)
(* work, a comparison that has the same result whatever is in memory, and  *)
(* two conditions that conflict or of which one is redundant.              *)
(*                                                                         *)
(* Chains of AddSource and SubSource are parsed into one operand, of which *)
(* the range is computed from the ranges of its parts; two conditions are  *)
(* compared when the same chain precedes them.  Widths are scaled: a word  *)
(* has 4 bits.  BCD, inverted and recalled operands, negative floats and   *)
(* bit counts are left out.                                                *)
(***************************************************************************)
EXTENDS Integers, Sequences, SequencesExt, FiniteSetsExt, Bitwise

CONSTANTS
  Triggers,  \* sequences of groups, the core and its alternatives; groups are sequences of
             \* conditions [type, left, oper, right, hits]
  Unexposed  \* cells outside of the memory of the console, or that emulators don't show

Word == 16 \* 2^32
Widest == [bit |-> 1, byte |-> 3, word |-> Word - 1]

Pointers  == {"AddAddress"}
Sources   == {"AddSource", "SubSource"}
HitChains == {"AddHits", "SubHits"}
Combining == Pointers \cup Sources \cup HitChains \cup {"AndNext", "OrNext", "ResetNextIf"}
Finals    == {"", "PauseIf", "ResetIf", "MeasuredIf", "Trigger", "Measured"}
Comparisons == {"EQ", "NE", "LT", "LE", "GT", "GE"}

\* The operator of a condition that only makes operands may be arithmetic or NONE.
ASSUME ValidatorAssumption ==
  \A trigger \in Triggers : \A g \in DOMAIN trigger : \A i \in DOMAIN trigger[g] :
    LET c == trigger[g][i]
    IN /\ c.type \in Combining \cup Finals /\ c.hits \in Nat
       /\ c.type \notin Pointers \cup Sources => c.oper \in Comparisons

VARIABLES
  groups,  \* of the trigger
  verdict  \* [kind, group, index, with]: which condition, and which of what group it meets

validatorVars == <<groups, verdict>>

Unasked == [kind |-> "unasked", group |-> 0, index |-> 0, with |-> <<0, 0>>]
Valid == [Unasked EXCEPT !.kind = "valid"]

-----------------------------------------------------------------------------
(* Operands *)

NoOperand == [kind |-> "none"]
Const(n) == [kind |-> "const", num |-> n]
Real(halves) == [kind |-> "real", halves |-> halves]
Memref(cell, size, read) == [kind |-> "memref", cell |-> cell, size |-> size, read |-> read]

\* Memory through a pointer, and two operands combined; both are modified memrefs.
Indirect(o, pointer) ==
  IF pointer = NoOperand \/ o.kind # "memref" THEN o
  ELSE [kind |-> "indirect", parent |-> pointer, cell |-> o.cell, size |-> o.size, read |-> o.read]
Modified(parent, oper, modifier, read) ==
  [kind |-> "modified", parent |-> parent, oper |-> oper, modifier |-> modifier,
   size |-> "word", read |-> read]

IsMemref(o) == o.kind \in {"memref", "indirect", "modified"}

RECURSIVE Address(_)
Address(o) ==
  IF o.kind = "const" THEN o.num
  ELSE IF o.kind = "modified" THEN Address(o.modifier) ELSE o.cell

\* rc_condition_convert_to_operand
Term(c) == IF c.oper = "NONE" THEN c.left ELSE Modified(c.left, c.oper, c.right, "value")

\* rc_operand_addsource; the sum of two deltas is a delta.
Sum(parent, oper, o) ==
  LET deltas == /\ {parent.kind, o.kind} \cap {"const", "real"} = {}
                /\ parent.read = "delta" /\ o.read = "delta"
  IN Modified(parent, oper, o, IF deltas THEN "delta" ELSE "value")

Zero == Const(0)

\* A SubSource subtracts from what precedes it; the first is negated by what follows.
Subtracted(s, term) ==
  LET base == IF s.oper = "SUB_PARENT" THEN Modified(s.parent, "SUB_PARENT", Zero, "value")
              ELSE IF ~IsMemref(s.parent) THEN Modified(s.parent, "ADD", Zero, "value")
              ELSE s.parent
  IN IF s.parent = NoOperand THEN [s EXCEPT !.parent = term, !.oper = "SUB_PARENT"]
     ELSE [s EXCEPT !.parent = Sum(base, "SUB", term), !.oper = "ADD"]

\* rc_condition_update_parse_state: a condition as it is kept, with the operand that
\* the chain has led to.
ParsedBy(s, author) ==
  LET c == [author EXCEPT !.left = Indirect(@, s.pointer), !.right = Indirect(@, s.pointer)]
      kept == [c EXCEPT !.left = IF s.parent = NoOperand THEN @ ELSE Sum(s.parent, s.oper, @)]
      start == [s EXCEPT !.pointer = NoOperand]
  IN CASE c.type = "AddAddress" -> [s EXCEPT !.out = Append(@, c), !.pointer = Term(c)]
       [] c.type = "AddSource" ->
            [start EXCEPT !.out = Append(@, c), !.oper = "ADD",
                          !.parent = IF @ = NoOperand THEN Term(c) ELSE Sum(@, s.oper, Term(c))]
       [] c.type = "SubSource" -> [Subtracted(start, Term(c)) EXCEPT !.out = Append(@, c)]
       [] OTHER -> [start EXCEPT !.out = Append(@, kept), !.parent = NoOperand]

Parsed(group) ==
  FoldLeft(ParsedBy, [out |-> <<>>, pointer |-> NoOperand, parent |-> NoOperand, oper |-> "ADD"],
           group).out

-----------------------------------------------------------------------------
(* Ranges *)

\* rc_max_value
MaxValue(o) ==
  IF o.kind = "const" THEN o.num ELSE IF o.kind = "real" THEN Word - 1 ELSE Widest[o.size]

Saturated(n) == Min({n, Word - 1})

\* rc_combine_ranges. Unsigned: a minimum above the maximum tells of an underflow.
CombineRanges(r, oper, m) ==
  CASE oper = "MULT" -> [min |-> Saturated(r.min * m.min), max |-> Saturated(r.max * m.max)]
    [] oper = "DIV"  -> [min |-> IF m.max = 0 THEN r.min ELSE r.min \div m.max,
                         max |-> IF m.min = 0 THEN r.max ELSE r.max \div m.min]
    [] oper = "AND"  -> [min |-> 0, max |-> r.max & m.max]
    [] oper = "XOR"  -> [min |-> 0, max |-> r.max | m.max]
    [] oper = "MOD"  -> [min |-> 0, max |-> IF r.max >= m.max THEN (m.max - 1) % Word ELSE r.max]
    [] oper = "ADD"  -> [min |-> (r.min + m.min) % Word,
                         max |-> IF r.min > r.max THEN (r.max + m.max) % Word
                                 ELSE Saturated(r.max + m.max)]
    [] oper = "SUB"  -> [min |-> (r.min - m.max) % Word, max |-> (r.max - m.min) % Word]
    [] oper = "SUB_PARENT" -> [min |-> (m.min - r.max) % Word, max |-> (m.max - r.min) % Word]

\* rc_chain_get_value_range
RECURSIVE ChainRange(_)
ChainRange(o) ==
  IF o.kind # "modified"
  THEN [min |-> IF o.kind = "const" THEN o.num ELSE 0, max |-> MaxValue(o)]
  ELSE IF o.oper = "DIV" /\ IsMemref(o.modifier) /\ o.modifier = o.parent THEN [min |-> 0, max |-> 1]
  ELSE CombineRanges(ChainRange(o.parent), o.oper, ChainRange(o.modifier))

\* Mutant: an underflow is taken for a range.
OperandRangeTrusted(o) == ChainRange(o)

OperandRange(o) ==
  LET r == ChainRange(o) IN IF r.min > r.max THEN [min |-> 0, max |-> Word - 1] ELSE r

Mirrored(oper) ==
  CASE oper = "LT" -> "GT" [] oper = "LE" -> "GE" [] oper = "GT" -> "LT" [] oper = "GE" -> "LE"
    [] OTHER -> oper

\* rc_validate_range: the other operand is at least least and at most most, this one at
\* most top.
ValidateRange(least, most, oper, top) ==
  CASE oper = "EQ" /\ least > top -> "never"
    [] oper = "NE" /\ least > top -> "always"
    [] oper = "GE" /\ least > top -> "never"
    [] oper = "GE" /\ most = 0    -> "always"
    [] oper = "GT" /\ least >= top -> "never"
    [] oper = "LE" /\ least >= top -> "always"
    [] oper = "LT" /\ least > top -> "always"
    [] oper = "LT" /\ most = 0    -> "never"
    [] OTHER -> "valid"

\* The least value of an operand that is compared with; a float is rounded towards the
\* values that can meet it.
Least(o, oper) ==
  CASE o.kind = "const" -> o.num
    [] o.kind = "real"  -> (o.halves \div 2) + (IF o.halves % 2 = 1 /\ oper \in {"GE", "LT"} THEN 1 ELSE 0)
    [] OTHER -> 0

\* The ranges of both operands; a constant on the left is moved to the right.
Comparison(c) ==
  LET left == IsMemref(c.left)
      oper == IF left THEN c.oper ELSE Mirrored(c.oper)
      other == IF left THEN c.right ELSE c.left
      most == IF left THEN MaxValue(c.right) ELSE OperandRange(c.left).max
      top == IF left THEN OperandRange(c.left).max ELSE MaxValue(c.right)
  IN IF ~left /\ ~IsMemref(c.right) THEN "valid"
     ELSE IF other.kind = "real" /\ other.halves % 2 = 1 /\ oper \in {"EQ", "NE"}
     THEN IF oper = "EQ" THEN "never" ELSE "always"
     ELSE ValidateRange(Least(other, oper), most, oper, top)

-----------------------------------------------------------------------------
(* One group *)

\* The condition that what combines at i leads up to, or 0
ChainEnd(group, i) ==
  LET ends == {j \in i .. Len(group) : group[j].type \in Finals} IN IF ends = {} THEN 0 ELSE Min(ends)

\* rc_condset_has_hittargets, of the classes of rc_classify_conditions
HasHitTargets(group) ==
  \E i \in DOMAIN group :
    LET end == ChainEnd(group, i)
    IN /\ group[i].hits > 0 /\ end # 0 /\ group[i].type \notin Pointers \cup Sources
       /\ i = end \/ group[end].type \notin {"", "Trigger"} \/ group[end].hits > 0

\* in_add_hits
InAddHits(group, i) ==
  \E j \in 1 .. i - 1 :
    group[j].type \in HitChains /\ \A k \in j .. i - 1 : group[k].type \in Combining

\* rc_validate_memref; what a pointer leads to is not known.
Exposed(o) == o.kind = "memref" => o.cell \notin Unexposed

\* What rc_validate_condset_internal says of a condition c; author is as it was written.
Fault(group, i, author, c, hasHits) ==
  LET afterPointer == i > 1 /\ group[i - 1].type = "AddAddress"
  IN CASE ~afterPointer /\ ~(Exposed(author.left) /\ Exposed(author.right)) -> "address"
       [] c.type \in Sources -> "valid"
       [] c.type = "AddAddress" ->
            IF author.left.kind = "memref" /\ author.left.read = "delta" THEN "pointer" ELSE "valid"
       [] c.type = "ResetIf" /\ ~InAddHits(group, i) /\ ~hasHits -> "reset"
       [] c.type = "ResetIf" /\ ~InAddHits(group, i) /\ c.hits = 1 -> "target"
       [] c.type \in Finals \ {"ResetIf"} /\ InAddHits(group, i) /\ c.hits = 0 -> "target"
       [] /\ c.left.kind = "memref" /\ c.right.kind = "memref"
          /\ MaxValue(c.left) # MaxValue(c.right) -> "sizes"
       [] OTHER -> Comparison(c)

\* Of the whole group: what is left open at its end
Unfinished(group) ==
  LET supposing == {i \in DOMAIN group : group[i].type = "MeasuredIf"}
  IN IF group # <<>> /\ Last(group).type \in Combining
     THEN [Valid EXCEPT !.kind = "unfinished"]
     ELSE IF supposing # {} /\ \A i \in DOMAIN group : group[i].type # "Measured"
     THEN [Valid EXCEPT !.kind = "unmeasured", !.index = Min(supposing)]
     ELSE Valid

\* rc_validate_condset_internal
ValidateCondset(g, parsed, hasHits) ==
  LET fault(i) == Fault(groups[g], i, groups[g][i], parsed[g][i], hasHits)
      faults == {i \in DOMAIN groups[g] : fault(i) # "valid"}
  IN IF faults = {} THEN [Unfinished(groups[g]) EXCEPT !.group = IF @ = 0 THEN g ELSE @]
     ELSE [kind |-> fault(Min(faults)), group |-> g, index |-> Min(faults), with |-> <<0, 0>>]

-----------------------------------------------------------------------------
(* Two conditions *)

Opposite == [EQ |-> "NE", NE |-> "EQ", LT |-> "GE", LE |-> "GT", GT |-> "LE", GE |-> "LT"]

\* rc_validate_get_comparison: an operand and what it is compared to
Compared(c) ==
  CASE IsMemref(c.left) /\ c.right.kind = "const" ->
         [operand |-> c.left, oper |-> c.oper, value |-> c.right.num]
    [] c.left.kind = "const" /\ IsMemref(c.right) ->
         [operand |-> c.right, oper |-> Opposite[c.oper], value |-> c.left.num]
    [] OTHER -> [operand |-> NoOperand, oper |-> c.oper, value |-> 0]

\* rc_validate_comparison_overlap: row by the second comparison, column by the first; for
\* a first value that equals, is below and is above the second.
Overlaps ==
  LET C == "conflicts" R == "redundant" D == "defer" N == "none"
  IN [EQ |-> [EQ |-> <<R, C, C>>, LE |-> <<D, C, D>>, GE |-> <<D, D, C>>,
              NE |-> <<C, D, D>>, LT |-> <<C, C, D>>, GT |-> <<C, D, C>>],
      NE |-> [EQ |-> <<C, R, R>>, LE |-> <<N, R, N>>, GE |-> <<N, N, R>>,
              NE |-> <<R, N, N>>, LT |-> <<R, R, N>>, GT |-> <<R, N, R>>],
      LT |-> [EQ |-> <<C, R, C>>, LE |-> <<D, R, D>>, GE |-> <<C, N, C>>,
              NE |-> <<D, N, D>>, LT |-> <<R, R, D>>, GT |-> <<C, N, C>>],
      LE |-> [EQ |-> <<R, R, C>>, LE |-> <<R, R, D>>, GE |-> <<N, N, C>>,
              NE |-> <<N, N, D>>, LT |-> <<R, R, D>>, GT |-> <<C, N, C>>],
      GT |-> [EQ |-> <<C, C, R>>, LE |-> <<C, C, D>>, GE |-> <<D, D, R>>,
              NE |-> <<D, D, N>>, LT |-> <<C, C, N>>, GT |-> <<R, D, R>>],
      GE |-> [EQ |-> <<R, C, R>>, LE |-> <<N, C, N>>, GE |-> <<R, R, D>>,
              NE |-> <<N, D, N>>, LT |-> <<C, C, N>>, GT |-> <<R, D, R>>]]

ComparisonOverlap(c1, c2) ==
  Overlaps[c2.oper][c1.oper][IF c1.value = c2.value THEN 1 ELSE IF c1.value < c2.value THEN 2 ELSE 3]

\* A ResetIf, and within its group a PauseIf, must not be met.
Inverted(type, same) == type = "ResetIf" \/ (type = "PauseIf" /\ same)
Wanted(c, same) ==
  LET what == Compared(c)
  IN IF Inverted(c.type, same) THEN [what EXCEPT !.oper = Opposite[@]] ELSE what

\* What is made of an overlap of a condition c with another, d; same: they are in one
\* group; toCore: d is of the core and c is not.
Judged(c, d, same, toCore, hasHits) ==
  LET one == Wanted(c, same)
      other == Wanted(d, same)
      mutual == ComparisonOverlap(other, one) = "redundant"
      types == {c.type, d.type}
  IN CASE ComparisonOverlap(one, other) = "conflicts" ->
            IF "PauseIf" \in types /\ ~same /\ c.type # d.type THEN "none" ELSE "conflicts"
       [] ComparisonOverlap(one, other) = "redundant" ->
            CASE toCore /\ ~mutual -> "none"
              [] "PauseIf" \in types ->
                   IF ~same \/ ~mutual THEN "none"
                   ELSE IF "ResetIf" \in types THEN "conflicts" ELSE "redundant"
              [] "ResetIf" \in types /\ c.type # d.type ->
                   IF hasHits THEN "none" ELSE "redundant"
              [] "MeasuredIf" \in types ->
                   IF same /\ (d.type = "MeasuredIf" => c.type = "MeasuredIf") THEN "redundant" ELSE "none"
              [] c.type = "Trigger" /\ d.type # "Trigger" -> "none"
              [] OTHER -> "redundant"
       [] OTHER -> "none"

\* The chains of a group, as [first, last]
ChainsOf(group) ==
  {[first |-> i, last |-> ChainEnd(group, i)] :
     i \in {i \in DOMAIN group : ChainEnd(group, i) # 0 /\ (i = 1 \/ group[i - 1].type \in Finals)}}

\* Chains match when the same conditions lead up to the last.
ChainMatches(one, p, two, q) ==
  /\ SubSeq(one, p.first, p.last - 1) = SubSeq(two, q.first, q.last - 1)
  /\ \A i \in p.first .. p.last - 1 : one[i].type \in Pointers \cup Sources \cup {"AndNext"}

Comparable(c, d) ==
  LET one == Compared(c).operand
      other == Compared(d).operand
  IN /\ c.hits = 0 /\ d.hits = 0 /\ one # NoOperand /\ other # NoOperand
     /\ Address(other) = Address(one) /\ other.size = one.size /\ other.read = one.read

\* rc_validate_conflicting_conditions: of group h with those of group g
ConflictingConditions(g, h, one, two, hasHits) ==
  LET judged(p, q) == Judged(one[p.last], two[q.last], g = h, h = 1 /\ g # 1, hasHits)
      met == {pq \in ChainsOf(one) \X ChainsOf(two) :
                /\ g = h => pq[1] # pq[2]
                /\ Comparable(one[pq[1].last], two[pq[2].last])
                /\ ChainMatches(one, pq[1], two, pq[2])
                /\ judged(pq[1], pq[2]) # "none"}
      first == CHOOSE pq \in met : \A other \in met :
                 \/ pq[1].last < other[1].last
                 \/ pq[1] = other[1] /\ pq[2].last <= other[2].last
  IN IF met = {} THEN Valid
     ELSE [kind |-> judged(first[1], first[2]), group |-> h, index |-> first[2].last,
           with |-> <<g, first[1].last>>]

-----------------------------------------------------------------------------
(* The trigger *)

\* rc_validate_trigger_internal: one thing after the other, until one is not valid
ValidateTrigger(parsed, hasHits) ==
  LET condset(g) == ValidateCondset(g, parsed, hasHits)
      between(g, h) == ConflictingConditions(g, h, parsed[g], parsed[h], hasHits)
      steps(g) == IF g = 1 THEN <<condset(1), between(1, 1)>>
                  ELSE <<condset(g), between(g, g), between(1, g), between(g, 1)>>
      all == FlattenSeq([g \in DOMAIN groups |-> steps(g)])
      invalid == {i \in DOMAIN all : all[i].kind # "valid"}
  IN IF invalid = {} THEN Valid ELSE all[Min(invalid)]

ValidatorInit == groups \in Triggers /\ verdict = Unasked

Validate ==
  /\ verdict = Unasked
  /\ \E parsed \in {[g \in DOMAIN groups |-> Parsed(groups[g])]} :
       \E hasHits \in {\E g \in DOMAIN groups : HasHitTargets(groups[g])} :
         verdict' = ValidateTrigger(parsed, hasHits)
  /\ UNCHANGED groups

ValidatorSpec == ValidatorInit /\ [][Validate]_validatorVars

-----------------------------------------------------------------------------
(* Properties *)

\* The places in memory that an operand reads, and what it is worth, counted in halves.
RECURSIVE Places(_), Worth(_, _)
Places(o) ==
  CASE o.kind \in {"memref", "indirect"} -> {o}
    [] o.kind = "modified" -> Places(o.parent) \cup Places(o.modifier)
    [] OTHER -> {}

Arithmetic(a, oper, b) ==
  CASE oper = "MULT" -> a * b
    [] oper = "DIV"  -> IF b = 0 THEN 0 ELSE a \div b
    [] oper = "MOD"  -> IF b = 0 THEN 0 ELSE a % b
    [] oper = "AND"  -> a & b
    [] oper = "XOR"  -> a ^^ b
    [] oper = "ADD"  -> a + b
    [] oper = "SUB"  -> a - b
    [] oper = "SUB_PARENT" -> b - a

Worth(o, memory) ==
  CASE o.kind = "const" -> 2 * o.num
    [] o.kind = "real"  -> o.halves
    [] o.kind = "modified" ->
         2 * (Arithmetic(Worth(o.parent, memory) \div 2, o.oper, Worth(o.modifier, memory) \div 2) % Word)
    [] OTHER -> 2 * memory[o]

Met(c, memory) ==
  LET a == Worth(c.left, memory)
      b == Worth(c.right, memory)
  IN CASE c.oper = "EQ" -> a = b [] c.oper = "NE" -> a # b [] c.oper = "LT" -> a < b
       [] c.oper = "LE" -> a <= b [] c.oper = "GT" -> a > b [] c.oper = "GE" -> a >= b

Memories(cs) ==
  LET places == UNION {Places(c.left) \cup Places(c.right) : c \in cs}
  IN {memory \in [places -> 0 .. Word - 1] : \A p \in places : memory[p] <= Widest[p.size]}

Condition(place) == Parsed(groups[place[1]])[place[2]]
Reported == Condition(<<verdict.group, verdict.index>>)
Other == Condition(verdict.with)
Alike == verdict.group = verdict.with[1]
Satisfied(c, memory) == Inverted(c.type, Alike) # Met(c, memory)

\* Comparisons that are said to be always or never true are, whatever is in memory.
RangeHolds(c) == \A memory \in Memories({c}) : Met(c, memory) = (verdict.kind = "always")

\* Conditions that are said to conflict are never satisfied at once; or, of a PauseIf and
\* a ResetIf, the reset is never met when the group is not paused.
Conflicting(c, d) ==
  \/ \A memory \in Memories({c, d}) : ~(Satisfied(c, memory) /\ Satisfied(d, memory))
  \/ /\ {c.type, d.type} = {"PauseIf", "ResetIf"} /\ Alike
     /\ \A memory \in Memories({c, d}) : Met(c, memory) = Met(d, memory)

Implied(c, d) == \A memory \in Memories({c, d}) : Satisfied(d, memory) => Satisfied(c, memory)

\* Conditions that are compared as they are written: not with the constant first, not two
\* of which each is a least value, and not sums that end in different operands.
SameOperand(c, d) ==
  /\ IsMemref(d.left) /\ c.left = d.left
  /\ ~(Wanted(c, Alike).oper = "GE" /\ Wanted(d, Alike).oper = "GE")

\* What the validator tells an author is so: a comparison is always or never true, two
\* conditions conflict, or one is met whenever the other is.
VerdictsHold ==
  /\ verdict.kind \in {"always", "never"} => RangeHolds(Reported)
  /\ verdict.kind \in {"conflicts", "redundant"} =>
       LET c == Reported
           d == Other
       IN SameOperand(c, d) => IF verdict.kind = "conflicts" THEN Conflicting(c, d) ELSE Implied(c, d)

\* A condition that is said to be redundant with another, as it is written, is satisfied
\* whenever that is.
RedundantIsImplied ==
  verdict.kind = "redundant" =>
    LET c == Reported
        d == Other
    IN IsMemref(d.left) /\ c.left = d.left => Implied(c, d)

=============================================================================
