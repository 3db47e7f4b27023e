------------------------------ MODULE MCRcData ------------------------------
\* What the library makes of data: lists and summaries, rich presence, the validator.
\* Nothing connects them, so each behaviour is of one of them.
EXTENDS RcClientLists, RcRichpresence, RcValidate, TLC

VARIABLE part

MCInit ==
  /\ part \in {"lists", "scripts", "validator"}
  /\ part = "lists" \/ (game = (CHOOSE g \in Games : TRUE) /\ hardcore = TRUE)
  /\ ListsInit /\ ScriptsInit
  /\ IF part = "validator" THEN ValidatorInit ELSE groups = <<>> /\ verdict = Unasked

MCNext ==
  /\ part' = part
  /\ \/ part = "lists" /\ ListsNext /\ UNCHANGED <<scriptVars, validatorVars>>
     \/ part = "scripts" /\ ScriptsNext /\ UNCHANGED <<listVars, validatorVars>>
     \/ part = "validator" /\ Validate /\ UNCHANGED <<listVars, scriptVars>>

MCSpec == MCInit /\ [][MCNext]_<<part, listVars, scriptVars, validatorVars>>

-----------------------------------------------------------------------------
(* Lists *)

A(subset, category, type, target, challenge) ==
  [subset |-> subset, category |-> category, type |-> type, target |-> target,
   challenge |-> challenge]

\* Two subsets; an unofficial achievement; two that are almost there; leaderboards.
MCGames == {
  [subsets |-> 2,
   achievements |-> <<A(1, "core", "progression", 5, FALSE), A(2, "core", "win", 0, TRUE)>>,
   boards |-> <<>>],
  [subsets |-> 1,
   achievements |-> <<A(1, "core", "win", 0, FALSE), A(1, "unofficial", "standard", 5, TRUE)>>,
   boards |-> <<>>],
  [subsets |-> 1,
   achievements |-> <<A(1, "core", "progression", 5, FALSE), A(1, "core", "win", 4, FALSE)>>,
   boards |-> <<>>],
  [subsets |-> 2, achievements |-> <<>>,
   boards |-> <<[subset |-> 1, hidden |-> FALSE], [subset |-> 1, hidden |-> TRUE],
                [subset |-> 2, hidden |-> FALSE]>>]}

\* Of achievements 1 and 2: all of them; the last, in softcore.
MCAnswers == {
  [hardcore |-> <<2, 9, 1, 2>>, softcore |-> <<3>>],
  [hardcore |-> <<>>, softcore |-> <<3, 2, 2>>]}

-----------------------------------------------------------------------------
(* Rich presence *)

MCLabels == {<<"a">>, <<"b", "b">>}
MCTitle == <<"P", "l", "a", "y">>
MCGlyphs == 1 :> "A" @@ 3 :> "C"
Line(first, last, label) == [first |-> first, last |-> last, label |-> label]
MCPlayed == {<<>>, <<Line(1, 1, <<"a">>), Line(2, 3, <<"b", "b">>)>>}
Say(text) == [kind |-> "text", text |-> text]
Look(cell) == [kind |-> "lookup", cell |-> cell]
Char(cell) == [kind |-> "char", cell |-> cell]
\* After two frames, at once, otherwise.
MCDisplays == <<
  [cell |-> "c", when |-> 1, hits |-> 2, parts |-> <<Say(<<"x">>), Look("c"), Char("d")>>],
  [cell |-> "d", when |-> 2, hits |-> 0, parts |-> <<Char("c"), Char("d"), Say(<<"!">>)>>],
  [parts |-> <<Look("d")>>]>>

-----------------------------------------------------------------------------
(* Validator *)

Cond(type, left, oper, right, required) ==
  [type |-> type, left |-> left, oper |-> oper, right |-> right, hits |-> required]
ByteA == Memref(1, "byte", "value")
ByteB == Memref(2, "byte", "value")
Plain(type, left, oper, n) == Cond(type, left, oper, Const(n), 0)
Add(type, left) == Cond(type, left, "NONE", Const(1), 0)

MCCompared(ns) ==
  {<<Plain(type, ByteA, oper, n)>> : type \in Finals \ {"Measured"}, oper \in Comparisons, n \in ns}

\* Ranges of memory, of the other operand, of what chains lead up to
MCBounds ==
  {<<Plain("", ByteA, oper, n)>> : oper \in Comparisons, n \in {0, 3, 4}}
  \cup {<<Cond("", Real(n), oper, ByteA, 0)>> : oper \in {"EQ", "GE", "LT", "NE"}, n \in {5, 7}}
  \cup {<<Cond("", Const(n), oper, ByteA, 0)>> : oper \in {"GT", "LE"}, n \in {3, 4}}
  \cup {<<Cond("", ByteA, oper, ByteB, 0)>> : oper \in {"GE", "LT"}}
MCModified ==
  {Cond("AddSource", ByteB, oper, Const(2), 0) : oper \in {"MULT", "AND", "XOR", "MOD"}}
  \cup {Cond("SubSource", ByteB, "DIV", ByteB, 0), Cond("AddSource", ByteA, "DIV", ByteB, 0)}
MCSums ==
  {<<c, Plain("", ByteA, oper, n)>> : c \in MCModified, oper \in {"GT", "LE"}, n \in {4, 9}}
  \cup {<<Add("AddSource", Const(7)), Add("SubSource", ByteB), Plain("", left, "GT", 9)>> :
          left \in {Const(3), ByteA}}
  \cup {<<Add("SubSource", ByteA), Add("SubSource", ByteB), Plain("", Const(0), "GT", 2)>>}
  \cup {<<Add(type, Memref(2, "byte", read)), Plain("ResetIf", Memref(1, "byte", "delta"), "EQ", n)>> :
          type \in Sources, n \in {1, 2}, read \in {"value", "delta"}}

\* Chains that end in conditions with the same and with other operands, and mistakes
MCLed ==
  {<<Plain("AndNext", ByteB, "EQ", n), Plain("", ByteA, "EQ", n)>> : n \in {1, 2}}
  \cup {<<Plain("AndNext", ByteB, "EQ", 1), Plain("", ByteA, "EQ", 2)>>,
        <<Plain("AddHits", ByteB, "EQ", 1), Plain("ResetIf", ByteA, "EQ", 2)>>,
        <<Plain("AddHits", ByteB, "EQ", 1), Plain("", ByteA, "EQ", 2)>>,
        <<Cond("AndNext", ByteB, "EQ", Const(1), 2), Cond("", ByteA, "EQ", Const(1), 1)>>,
        <<Plain("OrNext", ByteB, "EQ", 1)>>,
        <<Cond("ResetIf", ByteA, "EQ", Const(2), 1)>>,
        <<Plain("", Memref(9, "byte", "value"), "EQ", 1)>>,
        <<Cond("", ByteA, "EQ", Memref(2, "bit", "value"), 0)>>}
  \cup {<<Add("AddAddress", Memref(2, "word", read)), Plain("", Memref(9, "byte", "value"), "EQ", n)>> :
          read \in {"value", "delta"}, n \in {1, 2}}

\* A capture of hits, which a ResetIf needs; Measured, which a MeasuredIf needs.
MCHits == <<Cond("", ByteB, "EQ", Const(1), 2), Plain("Measured", ByteB, "EQ", 1)>>

\* Pairs in one group and in two; the values of two conditions are in every order.
MCPairs == (MCCompared(1 .. 3) \X MCCompared({2})) \cup (MCLed \X MCLed)
MCTriggers ==
  UNION {{<<before \o c>> : c \in MCBounds \cup MCSums \cup MCLed} : before \in {<<>>, MCHits}}
  \cup UNION {{<<MCHits \o pair[1] \o pair[2]>>, <<MCHits \o pair[1], pair[2]>>} : pair \in MCPairs}
=============================================================================
