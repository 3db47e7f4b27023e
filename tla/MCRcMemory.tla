----------------------------- MODULE MCRcMemory -----------------------------
(***************************************************************************)
(* Definitions over two to four nibbles of memory, for TLC.                *)
(***************************************************************************)
EXTENDS RcMemory

M(access, size, address) == [kind |-> "memory", access |-> access, size |-> size, num |-> address]
K(n) == [kind |-> "const", access |-> "none", size |-> "32_BITS", num |-> n]
F(q) == [kind |-> "float", access |-> "none", size |-> "FLOAT", num |-> q]
Recall == [kind |-> "recall", access |-> "none", size |-> "32_BITS", num |-> 0]

C(type, a, oper, b) == [type |-> type, operand1 |-> a, oper |-> oper, operand2 |-> b]
Plain(type, a) == C(type, a, "NONE", K(1))

At(m) == [i \in 0 .. 1 |-> m[i + 1]]
Host(contents, saves, definitions) ==
  [definitions |-> definitions, saves |-> saves, memories |-> {At(m) : m \in contents}]

\* Every memory of two of these bytes, or a few that differ in what the definitions
\* look at.
Over(bytes, definitions) == Host({<<a, b>> : a, b \in bytes}, FALSE, definitions)
Saving(contents, definitions) == Host(contents, TRUE, definitions)

\* The same bytes read whole, by halves, by bits, before and last changed.
Sized ==
  <<<<C("STANDARD", M("ADDRESS", "LOW", 0), "EQ", K(2)),
      C("STANDARD", M("PRIOR", "LOW", 0), "LT", M("ADDRESS", "HIGH", 0))>>,
    <<C("STANDARD", M("ADDRESS", "8_BITS", 0), "GT", M("DELTA", "8_BITS", 0)),
      C("STANDARD", M("DELTA", "8_BITS", 0), "NE", K(5)),
      C("STANDARD", M("PRIOR", "8_BITS", 0), "GE", K(5)),
      C("STANDARD", M("BCD", "8_BITS", 1), "EQ", M("INVERTED", "LOW", 0)),
      C("STANDARD", M("ADDRESS", "BITCOUNT", 1), "GT", M("DELTA", "BIT_0", 0)),
      C("STANDARD", M("ADDRESS", "32_BITS_BE", 0), "LE", M("PRIOR", "32_BITS", 0))>>>>

\* Sums and differences of current, previous and last values.
Summed ==
  <<<<Plain("ADD_SOURCE", M("ADDRESS", "8_BITS", 0)),
      C("STANDARD", M("ADDRESS", "8_BITS", 1), "GT", M("DELTA", "8_BITS", 1)),
      Plain("SUB_SOURCE", M("ADDRESS", "LOW", 0)),
      C("STANDARD", K(20), "LT", M("ADDRESS", "8_BITS", 1))>>,
    <<Plain("ADD_SOURCE", M("DELTA", "8_BITS", 0)),
      Plain("SUB_SOURCE", M("DELTA", "8_BITS", 1)),
      C("STANDARD", M("ADDRESS", "8_BITS", 1), "NE", K(3)),
      Plain("ADD_SOURCE", M("DELTA", "8_BITS", 0)),
      C("STANDARD", M("DELTA", "8_BITS", 1), "LT", K(9)),
      Plain("ADD_SOURCE", K(7)),
      Plain("SUB_SOURCE", M("ADDRESS", "8_BITS", 0)),
      C("STANDARD", K(0), "GE", K(4))>>>>

\* Scaled terms, floats, and the type of the last operand.
Scaled ==
  <<<<C("ADD_SOURCE", M("ADDRESS", "8_BITS", 0), "MULT", F(6)),
      C("STANDARD", K(0), "GT", F(10)),
      C("SUB_SOURCE", M("ADDRESS", "8_BITS", 1), "DIV", K(2)),
      C("STANDARD", F(3), "LE", M("ADDRESS", "8_BITS", 0))>>,
    <<C("ADD_SOURCE", M("ADDRESS", "8_BITS", 0), "MOD", M("ADDRESS", "LOW", 1)),
      C("ADD_SOURCE", M("DELTA", "8_BITS", 1), "XOR", K(3)),
      C("ADD_SOURCE", M("ADDRESS", "8_BITS", 1), "EQ", K(3)),
      C("STANDARD", K(0), "NE", M("ADDRESS", "8_BITS", 1))>>>>

\* Pointers, read through a base that moves, and the values found before.
Pointed ==
  <<<<C("ADD_ADDRESS", M("ADDRESS", "8_BITS", 0), "AND", K(1)),
      C("STANDARD", M("ADDRESS", "8_BITS", 0), "GT", M("DELTA", "8_BITS", 0)),
      C("ADD_ADDRESS", M("ADDRESS", "8_BITS", 0), "AND", K(1)),
      C("STANDARD", M("PRIOR", "8_BITS", 0), "NE", M("DELTA", "LOW", 0))>>,
    <<Plain("ADD_ADDRESS", M("ADDRESS", "BIT_0", 0)),
      C("STANDARD", M("DELTA", "8_BITS", 0), "GE", K(1))>>>>

\* A remembered sum, recalled on both sides and as a base.
Recalled ==
  <<<<Plain("ADD_SOURCE", M("ADDRESS", "LOW", 0)),
      C("REMEMBER", M("ADDRESS", "8_BITS", 1), "MULT", K(2)),
      C("STANDARD", Recall, "GT", M("ADDRESS", "8_BITS", 0)),
      C("ADD_SOURCE", Recall, "SUB", K(1)),
      C("STANDARD", M("ADDRESS", "8_BITS", 0), "EQ", Recall),
      C("ADD_ADDRESS", Recall, "AND", K(1)),
      C("STANDARD", M("ADDRESS", "8_BITS", 0), "LT", M("DELTA", "8_BITS", 0)),
      C("REMEMBER", M("DELTA", "8_BITS", 0), "NONE", K(1)),
      C("STANDARD", Recall, "NE", K(4))>>>>

\* Every optimized comparator: whole bytes and halves, against constants, other
\* references and the value a frame ago of the same one.
Comparing ==
  LET if(a, oper, b) == C("STANDARD", a, oper, b)
      whole(access, address) == M(access, "8_BITS", address)
      half(access, size) == M(access, size, 0)
  IN <<<<if(whole("ADDRESS", 0), "GE", K(6)), if(whole("DELTA", 1), "LT", K(6)),
         if(half("ADDRESS", "HIGH"), "NE", K(2)), if(half("DELTA", "LOW"), "LE", K(2)),
         if(whole("ADDRESS", 0), "LT", whole("ADDRESS", 1)),
         if(half("ADDRESS", "LOW"), "GE", half("ADDRESS", "HIGH")),
         if(whole("ADDRESS", 0), "LE", whole("ADDRESS", 0)),
         if(whole("ADDRESS", 0), "NE", whole("ADDRESS", 0)),
         if(half("ADDRESS", "LOW"), "GT", half("ADDRESS", "LOW")),
         if(K(3), "LT", K(2))>>,
       <<if(whole("ADDRESS", 0), "LE", whole("DELTA", 0)),
         if(whole("DELTA", 0), "NE", whole("ADDRESS", 0)),
         if(half("ADDRESS", "LOW"), "GE", half("DELTA", "LOW")),
         if(half("DELTA", "HIGH"), "EQ", half("ADDRESS", "HIGH")),
         if(half("ADDRESS", "LOW"), "EQ", half("DELTA", "HIGH")),
         if(half("DELTA", "LOW"), "LT", half("ADDRESS", "HIGH"))>>>>

MCHosts ==
  {Over({0, 6, 9, 15}, Sized), Over({0, 7, 14}, Summed), Over({0, 5, 14}, Scaled),
   Over({0, 3, 12}, Pointed), Over({0, 5, 12}, Recalled), Over({0, 6, 9, 10}, Comparing),
   Saving({<<6, 9>>, <<9, 6>>, <<13, 9>>}, Sized), Saving({<<0, 3>>, <<3, 12>>, <<7, 5>>}, Pointed),
   Saving({<<0, 7>>, <<7, 14>>, <<5, 7>>}, SubSeq(Summed, 1, 1))}
=============================================================================
