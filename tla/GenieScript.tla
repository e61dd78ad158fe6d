----------------------------- MODULE GenieScript -----------------------------
(***************************************************************************)
(* The text between the two halves of genie_space.py: the renderer writes  *)
(* materialize_governance.sql as one script, the deploy takes it apart     *)
(* again.  A text is a sequence of characters; what an INSERT says before  *)
(* its first literal is a character of its own, and so are the two dashes  *)
(* of a comment and the line break, of which splitlines knows more kinds.  *)
(***************************************************************************)
EXTENDS Integers, SequencesExt

(* _sql_str: a literal escapes its quotes by doubling them. *)
EscapedChar(c) == IF c = "'" THEN <<"'", "'">> ELSE <<c>>
Escaped(text) == FlattenSeq([i \in DOMAIN text |-> EscapedChar(text[i])])
InsertOf(text) == <<"insert", "'">> \o Escaped(text) \o <<"'">>

(* A header comment, and under it every statement on lines of its own. *)
Ended(statement) == <<"break">> \o statement \o <<";">>
Script(statements) ==
    <<"--">> \o FlattenSeq([i \in DOMAIN statements |-> Ended(statements[i])])

-----------------------------------------------------------------------------
(* What is left of a chunk without its comment lines, stripped: a line is a  *)
(* comment when "--" is the first in it that is no white space, whether the  *)
(* line stands in a literal or not.                                          *)
WhiteSpace == {" ", "break"}

OpensComment(text, j) ==
    /\ text[j] = "--"
    /\ \E k \in 1..j :
          /\ k = 1 \/ text[k - 1] = "break"
          /\ \A m \in k..j - 1 : text[m] = " "

(* A line break belongs to the line it ends. *)
InComment(text, i) ==
    \E j \in DOMAIN text :
        /\ OpensComment(text, j)
        /\ \A k \in (i..j - 1) \cup (j..i - 1) : text[k] # "break"

Strip(text) ==
    LET kept == {i \in DOMAIN text : text[i] \notin WhiteSpace}
    IN  IF kept = {} THEN <<>> ELSE SubSeq(text, Min(kept), Max(kept))

Cleaned(text) ==
    Strip(FlattenSeq([i \in DOMAIN text |-> IF InComment(text, i) THEN <<>> ELSE <<text[i]>>]))

NoCommentLine(text) == \A j \in DOMAIN text : ~OpensComment(text, j)

-----------------------------------------------------------------------------
(* What the splitter makes of the rest of a text: cur, the characters that   *)
(* still belong to the current statement, and out, the statements after it.  *)

Nothing == [cur |-> <<>>, out |-> <<>>]

(* cur.append *)
Push(chars, chunks) == [cur |-> chars \o chunks.cur, out |-> chunks.out]

(* The statements, of which an empty one is dropped. *)
Body(chunks) ==
    LET body == Cleaned(chunks.cur)
    IN  IF body = <<>> THEN chunks.out ELSE <<body>> \o chunks.out

(* out.append, cur = [] *)
Close(chunks) == [cur |-> <<>>, out |-> Body(chunks)]

Doubled(text, i) == i < Len(text) /\ text[i] = "'" /\ text[i + 1] = "'"

(* The loop at position i, given what comes of the text after it in each     *)
(* state; escaped is the second quote of two.                                *)
Outside(text, i, next) ==
    CASE text[i] = ";" -> Close(next.outside)
      [] text[i] = "'" -> Push(<<"'">>, next.inside)
      [] OTHER -> Push(<<text[i]>>, next.outside)

Inside(text, i, next) ==
    CASE Doubled(text, i) -> Push(<<"'">>, next.escaped)
      [] text[i] = "'" /\ ~Doubled(text, i) -> Push(<<"'">>, next.outside)
      [] OTHER -> Push(<<text[i]>>, next.inside)

Step(text, i, next) ==
    [outside |-> Outside(text, i, next),
     inside |-> Inside(text, i, next),
     escaped |-> Push(<<text[i]>>, next.inside)]

AtEnd == [outside |-> Nothing, inside |-> Nothing, escaped |-> Nothing]

Chunks(text) ==
    LET from[i \in 1 .. Len(text) + 1] ==
            IF i > Len(text) THEN AtEnd ELSE Step(text, i, from[i + 1])
    IN  from

(* Mistake: split(";"), literals or not. *)
split_everywhere(text) ==
    LET from[i \in 1 .. Len(text) + 1] ==
            IF i > Len(text) THEN Nothing
            ELSE IF text[i] = ";" THEN Close(from[i + 1])
            ELSE Push(<<text[i]>>, from[i + 1])
    IN  Body(from[1])

(* _split_statements: at the semicolons outside a literal. *)
split_statements(text) == Body(Chunks(text)[1].outside)

=============================================================================
