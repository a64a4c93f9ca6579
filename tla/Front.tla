-------------------------------- MODULE Front --------------------------------
(***************************************************************************)
(* The front end on one file: someone may edit the file, the lexer scans   *)
(* it line by line, the parser reads the tokens (Lexer::tokenize and       *)
(* Parser::parse_program as lib.rs and lsp.rs call them, on files that are *)
(* whole and on files that are being written).                             *)
(***************************************************************************)
EXTENDS Lexer

CONSTANTS
    Sources,    \* the sources, records [lines, tree, ...]
    Noise,      \* items that an edit may put into a line
    TreeOf(_)   \* what the parser makes of a sequence of tokens

VARIABLES
    source,     \* the member of Sources that the file was
    lines,      \* the lines that are still to be scanned
    ended,      \* the file ends with a newline
    edited,     \* the file is not that source any more
    lexer,      \* the state of the lexer
    phase,      \* "writing", "lexing", "lexed", or how it ended
    tree        \* the declarations that were read
vars == <<source, lines, ended, edited, lexer, phase, tree>>

Init ==
    /\ source \in DOMAIN Sources
    /\ lines = Sources[source].lines
    /\ ended \in BOOLEAN
    /\ edited = FALSE
    /\ lexer = NewLexer
    /\ phase = "writing"
    /\ tree = <<>>

(***************************************************************************)
(* One edit of the file                                                    *)
(***************************************************************************)

Changed(n, items) == [lines EXCEPT ![n].items = items]
DropItem(n, j) == Changed(n, RemoveAt(lines[n].items, j))
DoubleItem(n, j) == Changed(n, InsertAt(lines[n].items, j, lines[n].items[j]))
PutItem(n, j, item) == Changed(n, [lines[n].items EXCEPT ![j] = item])
\* the file as far as it is written
CutAfter(n, j) == Append(SubSeq(lines, 1, n - 1), [lines[n] EXCEPT !.items = SubSeq(@, 1, j)])
Shift(n, by) == [lines EXCEPT ![n].col = @ + by]

Edit ==
    /\ phase = "writing" /\ Sources[source].editable
    /\ \E n \in DOMAIN lines :
         \/ \E j \in DOMAIN lines[n].items :
              \/ lines' = DropItem(n, j)
              \/ lines' = DoubleItem(n, j)
              \/ lines' = CutAfter(n, j)
              \/ \E item \in Noise : lines' = PutItem(n, j, item)
         \/ lines' = RemoveAt(lines, n)
         \/ \E by \in {-4, -2, 4} : lines[n].col + by >= 1 /\ lines' = Shift(n, by)
    /\ edited' = TRUE
    /\ phase' = "lexing"
    /\ UNCHANGED <<source, ended, lexer, tree>>
Keep ==
    /\ phase = "writing"
    /\ phase' = "lexing"
    /\ UNCHANGED <<source, lines, ended, edited, lexer, tree>>

(***************************************************************************)
(* Lexing, a line at a time; the first error ends it                       *)
(***************************************************************************)

Reached(lx, next) == IF lx.failed THEN "rejected" ELSE next
Scan ==
    /\ phase = "lexing" /\ lines # <<>>
    /\ LET lx == ScanLine(lexer, Head(lines))
       IN lexer' = IF Len(lines) > 1 \/ ended THEN ScanEnd(lx) ELSE lx
    /\ lines' = Tail(lines)
    /\ phase' = Reached(lexer', "lexing")
    /\ UNCHANGED <<source, ended, edited, tree>>
Finish ==
    /\ phase = "lexing" /\ lines = <<>>
    /\ lexer' = EndOfFile(lexer)
    /\ phase' = "lexed"
    /\ UNCHANGED <<source, lines, ended, edited, tree>>

(***************************************************************************)
(* Parsing                                                                 *)
(***************************************************************************)

Parse ==
    /\ phase = "lexed"
    /\ LET r == TreeOf(lexer.tokens)
       IN /\ phase' = CASE r.how = "ok" -> "parsed" [] r.how = "err" -> "rejected" [] r.how = "panic" -> "panicked"
          /\ tree' = IF r.how = "ok" THEN r.v ELSE <<>>
    /\ UNCHANGED <<source, lines, ended, edited, lexer>>

Next == Edit \/ Keep \/ Scan \/ Finish \/ Parse
Spec == Init /\ [][Next]_vars

-----------------------------------------------------------------------------
\* What is written as the language has it is read back as the tree it was
\* written from, however it is laid out: precedence and grouping, the ends of
\* blocks with and without /end, comments and blank lines.
ReadsBack ==
    ~edited /\ phase \in {"parsed", "rejected", "panicked"} => phase = "parsed" /\ tree = Sources[source].tree

\* No file makes the parser index past its tokens (adv_tok, cur_tok): a file
\* that is cut off, or wrong in one place, is read or rejected.
NeverPanics == phase # "panicked"
=============================================================================
