------------------------------ MODULE HarBlocks ------------------------------
(***************************************************************************)
(* QdProgram::compile: the flat list of HAR entries, some of which are     *)
(* control tags, becomes a tree of blocks.  An entry is reduced to its     *)
(* tag; a statement that is no control tag ("odd", such as elif or set)    *)
(* becomes a request like any other entry.                                  *)
(*                                                                         *)
(* An operator whose comment contradicts its successor is a faulty variant *)
(* of it that no specification uses.                                       *)
(***************************************************************************)
EXTENDS Integers, SequencesExt

Openers == {"if", "for", "while"}
Ends == {"endif", "endfor", "endwhile"}
EndOf == [t \in Openers |-> CASE t = "if" -> "endif" [] t = "for" -> "endfor"
                              [] t = "while" -> "endwhile"]
Tags == {"request", "odd", "else", "disabled"} \cup Openers \cup Ends

Enabled(list) == SelectSeq(list, LAMBDA t : t # "disabled")

-----------------------------------------------------------------------------
(* parse_blocks: a parse is what it made of the entries before the cursor. *)

Parse(blocks, cursor) == [ok |-> TRUE, blocks |-> blocks, cursor |-> cursor]
Failure == [ok |-> FALSE, blocks |-> <<>>, cursor |-> 0]
NoEnd == "end of HAR"
Statement(list, cursor) == IF cursor <= Len(list) THEN list[cursor] ELSE NoEnd

\* hasElse tells an empty else from none, which the code does not keep.
Plain(tag) == [do |-> "request", tag |-> tag]
Loop(tag, body) == [do |-> tag, body |-> body]
Branch(then, hasElse, else) == [do |-> "if", then |-> then, hasElse |-> hasElse, else |-> else]

RECURSIVE ParseBlocks(_, _, _, _)

\* The list is at its end, or at a tag that some enclosing block must want.
ParseEnd(list, made, cursor, end) ==
  IF \/ end = NoEnd /\ cursor > Len(list)
     \/ end # NoEnd /\ Statement(list, cursor) = end
     \/ end = "endif" /\ Statement(list, cursor) = "else"
  THEN Parse(made, cursor)
  ELSE Failure

ParseLoop(list, made, cursor, end) ==
  LET tag == list[cursor]
      body == ParseBlocks(list, <<>>, cursor + 1, EndOf[tag])
  IN  IF body.ok /\ Statement(list, body.cursor) = EndOf[tag]
      THEN ParseBlocks(list, Append(made, Loop(tag, body.blocks)), body.cursor + 1, end)
      ELSE Failure

\* The else branch is parsed and forgotten.
ParseIfWithoutElse(list, made, cursor, end) ==
  LET then == ParseBlocks(list, <<>>, cursor + 1, "endif")
      hasElse == then.ok /\ Statement(list, then.cursor) = "else"
      else == IF hasElse THEN ParseBlocks(list, <<>>, then.cursor + 1, "endif") ELSE then
  IN  IF else.ok /\ Statement(list, else.cursor) = "endif"
      THEN ParseBlocks(list, Append(made, Branch(then.blocks, hasElse, <<>>)),
                       else.cursor + 1, end)
      ELSE Failure

ParseIf(list, made, cursor, end) ==
  LET then == ParseBlocks(list, <<>>, cursor + 1, "endif")
      hasElse == then.ok /\ Statement(list, then.cursor) = "else"
      else == IF hasElse THEN ParseBlocks(list, <<>>, then.cursor + 1, "endif") ELSE then
  IN  IF else.ok /\ Statement(list, else.cursor) = "endif"
      THEN ParseBlocks(list, Append(made, Branch(then.blocks, hasElse,
                                                 IF hasElse THEN else.blocks ELSE <<>>)),
                       else.cursor + 1, end)
      ELSE Failure

ParseBlocks(list, made, cursor, end) ==
  LET tag == Statement(list, cursor)
  IN  IF cursor > Len(list) \/ tag \in Ends \cup {"else"}
      THEN ParseEnd(list, made, cursor, end)
      ELSE IF tag = "if" THEN ParseIf(list, made, cursor, end)
      ELSE IF tag \in Openers THEN ParseLoop(list, made, cursor, end)
      ELSE ParseBlocks(list, Append(made, Plain(tag)), cursor + 1, end)

Compile(list) == ParseBlocks(Enabled(list), <<>>, 1, NoEnd)

-----------------------------------------------------------------------------
(* The reference: tags nest like brackets, and an if has at most one else. *)

Step(opened, tag) ==
  LET top == IF opened = <<>> THEN "none" ELSE Last(opened)
  IN  IF top = "bad" THEN opened
      ELSE IF tag \in Openers THEN Append(opened, tag)
      ELSE IF tag = "else" THEN IF top = "if" THEN Append(Front(opened), "else") ELSE <<"bad">>
      ELSE IF tag = "endif" THEN IF top \in {"if", "else"} THEN Front(opened) ELSE <<"bad">>
      ELSE IF tag = "endfor" THEN IF top = "for" THEN Front(opened) ELSE <<"bad">>
      ELSE IF tag = "endwhile" THEN IF top = "while" THEN Front(opened) ELSE <<"bad">>
      ELSE opened

WellNested(list) == FoldLeft(Step, <<>>, Enabled(list)) = <<>>

RECURSIVE Flat(_)
Flat(blocks) ==
  IF blocks = <<>> THEN <<>>
  ELSE LET b == Head(blocks)
       IN  (CASE b.do = "if" -> <<"if">> \o Flat(b.then)
                                  \o (IF b.hasElse THEN <<"else">> ELSE <<>>)
                                  \o Flat(b.else) \o <<"endif">>
              [] b.do \in {"for", "while"} -> <<b.do>> \o Flat(b.body) \o <<EndOf[b.do]>>
              [] OTHER -> <<b.tag>>)
           \o Flat(Tail(blocks))
=============================================================================
