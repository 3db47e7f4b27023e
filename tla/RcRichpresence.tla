--------------------------- MODULE RcRichpresence ---------------------------
(***************************************************************************)
(* Rich presence scripts: lookup tables from ranges of values to labels,   *)
(* and display strings of which the first whose condition holds is shown.  *)
(*                                                                         *)
(* A table is a search tree.  A range that adjoins one with the same label *)
(* widens it, one that meets another range is refused, and the tree is     *)
(* balanced when the table is complete.                                    *)
(*                                                                         *)
(* A condition with hit counts is tested in every frame; one without, when *)
(* the host asks for the message.                                          *)
(***************************************************************************)
EXTENDS Integers, Sequences, SequencesExt, FiniteSetsExt

CONSTANTS
  Top,        \* UINT_MAX, scaled
  Labels,     \* texts: sequences of characters
  LineBound,  \* lines of a lookup table
  Played,     \* tables the display strings are tried with, as sequences of lines
  Displays,   \* [when, hits, parts], the last without condition; see Holds
  Cells,      \* names of memory cells
  CellValues, \* what they hold
  Glyphs,     \* characters, by printable value
  Sizes,      \* sizes of the host's buffer
  Title,      \* "Playing" and the title of the game
  FrameBound  \* frames

ScriptValues == 0 .. Top

ASSUME ScriptsAssumption ==
  /\ Top \in Nat /\ LineBound \in Nat /\ FrameBound \in Nat
  /\ Sizes \subseteq Nat \ {0} /\ CellValues \subseteq ScriptValues /\ DOMAIN Glyphs \subseteq ScriptValues
  /\ Displays # <<>>

VARIABLES
  lines,    \* of the table, as read: [first, last, label]
  table,    \* [nodes, root, default]
  parsing,  \* "lookup", "done" or "duplicated"
  memory,   \* of each cell
  hits,     \* of each display's condition
  held,     \* how many frames since the reset each condition held: for the properties
  frames,
  shown,    \* the first answer in this frame: [display, text]
  message   \* the last answer: [display, text, size, buffer, returned]

scriptVars == <<lines, table, parsing, memory, hits, held, frames, shown, message>>

NoMessage == [display |-> 0, text |-> <<>>, size |-> 0, buffer |-> <<>>, returned |-> 0]

ScriptsInit ==
  /\ lines = <<>> /\ table = [nodes |-> <<>>, root |-> 0, default |-> <<>>] /\ parsing = "lookup"
  /\ memory = [cell \in Cells |-> 0] /\ frames = 0
  /\ hits = [d \in DOMAIN Displays |-> 0] /\ held = [d \in DOMAIN Displays |-> 0]
  /\ shown = NoMessage /\ message = NoMessage

-----------------------------------------------------------------------------
(* Lookup tables *)

\* Mutant: whatever adjoins a range widens it.
AdjoinsAny(label, other) == TRUE

\* A range widens the one it adjoins if it has its label.
Adjoins(label, other) == label = other

\* Node of a tree, or one more: 0 stands for NULL.
Leaf(line) == [first |-> line.first, last |-> line.last, label |-> line.label, left |-> 0, right |-> 0]

\* rc_insert_richpresence_lookup_item, from a node on: the nodes, or <<>> if refused.
RECURSIVE Inserted(_, _, _)
Inserted(nodes, at, line) ==
  LET node == nodes[at]
      grown == Append(nodes, Leaf(line))
      above == line.first > node.last
      below == ~above /\ line.last < node.first
      widens == Adjoins(line.label, node.label) /\
                IF above THEN line.first = node.last + 1 ELSE line.last = node.first - 1
  IN CASE above /\ widens -> [nodes EXCEPT ![at].last = line.last]
       [] above /\ ~widens -> IF node.right = 0 THEN [grown EXCEPT ![at].right = Len(grown)]
                              ELSE Inserted(nodes, node.right, line)
       [] below /\ widens -> [nodes EXCEPT ![at].first = line.first]
       [] below /\ ~widens -> IF node.left = 0 THEN [grown EXCEPT ![at].left = Len(grown)]
                              ELSE Inserted(nodes, node.left, line)
       [] OTHER -> <<>>

\* rc_rebalance_richpresence_lookup_get_items
RECURSIVE Flattened(_, _)
Flattened(nodes, at) ==
  IF at = 0 THEN <<>>
  ELSE Flattened(nodes, nodes[at].left) \o <<at>> \o Flattened(nodes, nodes[at].right)

Middle(first, last) == (first + last) \div 2

\* rc_rebalance_richpresence_lookup_rebuild
RECURSIVE Rebuilt(_, _, _, _)
Rebuilt(nodes, items, first, last) ==
  LET mid == Middle(first, last)
      left == IF mid = first THEN nodes ELSE Rebuilt(nodes, items, first, mid - 1)
      both == IF mid = last THEN left ELSE Rebuilt(left, items, mid + 1, last)
  IN [both EXCEPT ![items[mid]].left = IF mid = first THEN 0 ELSE items[Middle(first, mid - 1)],
                  ![items[mid]].right = IF mid = last THEN 0 ELSE items[Middle(mid + 1, last)]]

\* rc_rebalance_richpresence_lookup
Rebalanced(old) ==
  LET items == Flattened(old.nodes, old.root)
      offset == [i \in 0 .. Len(items) - 1 |-> items[i + 1]] \* an array of C
  IN IF Len(items) < 3 THEN old
     ELSE [old EXCEPT !.nodes = Rebuilt(old.nodes, offset, 0, Len(items) - 1),
                      !.root = offset[Middle(0, Len(items) - 1)]]

\* A line of a table; rc_parse_richpresence_lookup
ReadLine(line) ==
  /\ parsing = "lookup" /\ Len(lines) < LineBound
  /\ lines' = Append(lines, line)
  /\ \E nodes \in {IF table.root = 0 THEN <<Leaf(line)>> ELSE Inserted(table.nodes, table.root, line)} :
       IF nodes = <<>> THEN parsing' = "duplicated" /\ UNCHANGED table
       ELSE table' = [table EXCEPT !.nodes = nodes, !.root = IF @ = 0 THEN 1 ELSE @] /\ UNCHANGED parsing
  /\ UNCHANGED <<memory, hits, held, frames, shown, message>>

\* A line "*=label"
ReadDefault ==
  /\ parsing = "lookup" /\ table.default = <<>>
  /\ table' = [table EXCEPT !.default = <<"*">>]
  /\ UNCHANGED <<lines, parsing, memory, hits, held, frames, shown, message>>

\* An empty line
EndTable ==
  /\ parsing = "lookup" /\ parsing' = "done"
  /\ table' = Rebalanced(table)
  /\ UNCHANGED <<lines, memory, hits, held, frames, shown, message>>

\* The search of rc_evaluate_richpresence_display
RECURSIVE Found(_, _, _)
Found(tree, at, value) ==
  IF at = 0 THEN tree.default
  ELSE IF value > tree.nodes[at].last THEN Found(tree, tree.nodes[at].right, value)
  ELSE IF value < tree.nodes[at].first THEN Found(tree, tree.nodes[at].left, value)
  ELSE tree.nodes[at].label

-----------------------------------------------------------------------------
(* Display strings *)

\* The condition of a display compares a cell.
Holds(display, cells) == cells[display.cell] = display.when

Conditional == {d \in DOMAIN Displays : d < Len(Displays)}
WithHits(d) == d \in Conditional /\ Displays[d].hits > 0

\* rc_update_richpresence_internal: conditions with hit counts. The others, tested only
\* when asked for, keep nothing.
UpdateScript(cells) ==
  /\ parsing = "done" /\ lines \in Played /\ frames < FrameBound
  /\ memory' = cells /\ frames' = frames + 1
  /\ hits' = [d \in DOMAIN hits |->
       IF WithHits(d) /\ Holds(Displays[d], cells) /\ hits[d] < Displays[d].hits
       THEN hits[d] + 1 ELSE hits[d]]
  /\ held' = [d \in DOMAIN held |->
       IF WithHits(d) /\ Holds(Displays[d], cells) THEN held[d] + 1 ELSE held[d]]
  /\ shown' = NoMessage /\ message' = NoMessage
  /\ UNCHANGED <<lines, table, parsing>>

\* rc_reset_richpresence
ResetScript ==
  /\ parsing = "done" /\ lines \in Played
  /\ hits' = [d \in DOMAIN hits |-> 0] /\ held' = [d \in DOMAIN held |-> 0]
  /\ shown' = NoMessage /\ message' = NoMessage
  /\ UNCHANGED <<lines, table, parsing, memory, frames>>

\* A run of character macros ends at the first that is zero; others that are not
\* printable are shown as a question mark.
Characters(run) ==
  LET values == [i \in DOMAIN run |-> memory[run[i].cell]]
      zeros == {i \in DOMAIN run : values[i] = 0}
      end == IF zeros = {} THEN Len(run) ELSE Min(zeros) - 1
  IN [i \in 1 .. end |-> IF values[i] \in DOMAIN Glyphs THEN Glyphs[values[i]] ELSE "?"]

\* rc_evaluate_richpresence_display, what it writes given room. The room of a run of
\* characters, 256, is not reached.
RECURSIVE FullText(_)
FullText(parts) ==
  IF parts = <<>> THEN <<>>
  ELSE IF parts[1].kind = "text" THEN parts[1].text \o FullText(Tail(parts))
  ELSE IF parts[1].kind = "lookup"
       THEN Found(table, table.root, memory[parts[1].cell]) \o FullText(Tail(parts))
  ELSE LET others == {i \in DOMAIN parts : parts[i].kind # "char"}
           end == IF others = {} THEN Len(parts) ELSE Min(others) - 1
       IN Characters(SubSeq(parts, 1, end)) \o FullText(SubSeq(parts, end + 1, Len(parts)))

\* Part by part into a buffer: one that does not fit is cut, and nothing follows it.
Filled(size, texts) ==
  FoldLeft(LAMBDA state, text :
             IF state.room = 0 \/ text = <<>> THEN [state EXCEPT !.length = @ + Len(text)]
             ELSE IF Len(text) >= state.room
             THEN [buffer |-> state.buffer \o SubSeq(text, 1, state.room - 1), room |-> 0,
                   length |-> state.length + Len(text)]
             ELSE [buffer |-> state.buffer \o text, room |-> state.room - Len(text),
                   length |-> state.length + Len(text)],
           [buffer |-> <<>>, room |-> size, length |-> 0], texts)

\* The parts, each run of character macros as one
Pieces(parts) ==
  LET starts == {i \in DOMAIN parts : parts[i].kind # "char" \/ i = 1 \/ parts[i - 1].kind # "char"}
      begin == SetToSortSeq(starts, <)
      until(n) == IF n = Len(begin) THEN Len(parts) ELSE begin[n + 1] - 1
  IN [n \in DOMAIN begin |-> FullText(SubSeq(parts, begin[n], until(n)))]

\* rc_get_richpresence_display_string
Chosen ==
  Min({d \in DOMAIN Displays :
         d \notin Conditional \/ (IF WithHits(d) THEN hits[d] = Displays[d].hits
                                  ELSE Holds(Displays[d], memory))})

\* rc_client_get_rich_presence_message: without a text, the title of the game.
Message(size, display, written) ==
  IF written.length > 0
  THEN [display |-> display, text |-> FullText(Displays[display].parts), size |-> size,
        buffer |-> written.buffer, returned |-> written.length]
  ELSE [display |-> 0, text |-> Title, size |-> size,
        buffer |-> SubSeq(Title, 1, Min({size - 1, Len(Title)})),
        returned |-> IF Len(Title) >= size THEN size - 1 ELSE Len(Title)]

Ask(size) ==
  /\ parsing = "done" /\ lines \in Played
  /\ \E display \in {Chosen} :
       \E written \in {Filled(size, Pieces(Displays[display].parts))} :
         message' = Message(size, display, written)
  /\ shown' = IF shown = NoMessage THEN message' ELSE shown
  /\ UNCHANGED <<lines, table, parsing, memory, hits, held, frames>>

ScriptsNext ==
  \/ \E first \in ScriptValues, last \in ScriptValues, label \in Labels :
       first <= last /\ ReadLine([first |-> first, last |-> last, label |-> label])
  \/ ReadDefault \/ EndTable \/ ResetScript
  \/ \E cells \in [Cells -> CellValues] : UpdateScript(cells)
  \/ \E size \in Sizes : Ask(size)

ScriptsSpec == ScriptsInit /\ [][ScriptsNext]_scriptVars

-----------------------------------------------------------------------------
(* Properties *)

Covers(line, value) == value \in line.first .. line.last
Overlap(l, m) == lines[l].first <= lines[m].last /\ lines[m].first <= lines[l].last
NoneOverlap(n) == \A l, m \in 1 .. n : l # m => ~Overlap(l, m)

RECURSIVE Height(_, _)
Height(nodes, at) ==
  IF at = 0 THEN 0 ELSE 1 + Max({Height(nodes, nodes[at].left), Height(nodes, nodes[at].right)})

\* A table that names no value twice is accepted, and shows for each value the label of
\* the line that has it, while it is read and balanced; a table that is refused names
\* some value twice. Balanced, a search takes no more steps than it must.
TableAgrees ==
  /\ NoneOverlap(Len(lines)) =>
       /\ parsing # "duplicated"
       /\ \A value \in ScriptValues :
            Found(table, table.root, value) =
              IF \E l \in DOMAIN lines : Covers(lines[l], value)
              THEN lines[CHOOSE l \in DOMAIN lines : Covers(lines[l], value)].label ELSE table.default
  /\ parsing = "duplicated" => \E l \in 1 .. Len(lines) - 1 : Overlap(l, Len(lines))
  /\ parsing = "done" => 2 ^ Height(table.nodes, table.root) <= 2 * Max({Len(table.nodes), 1})

\* The message is the first display whose condition was met: now, or often enough since
\* the reset, counting frames and not how often the host asked.
ShowsFirst ==
  message.display # 0 =>
    \A d \in 1 .. message.display :
      (d = message.display) =
        (d \notin Conditional \/ (IF WithHits(d) THEN held[d] >= Displays[d].hits
                                  ELSE Holds(Displays[d], memory)))

\* Whatever the size of the buffer, the host is told the same within a frame, gets as much
\* of it as fits, and is given "the number of characters written to buffer"
\* (rc_client.h:686). Excepted is a message of the script that was cut: for it the code
\* returns the length the whole message would have had (README, section 5).
FitsBuffer ==
  message # NoMessage =>
    /\ message.display = shown.display /\ message.text = shown.text
    /\ message.buffer = SubSeq(message.text, 1, Min({message.size - 1, Len(message.text)}))
    /\ message.display = 0 \/ message.buffer = message.text =>
         message.returned = Len(message.buffer)

\* What a rich presence script says is what the host shows.
ScriptsAgree == TableAgrees /\ ShowsFirst /\ FitsBuffer

=============================================================================
