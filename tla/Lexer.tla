-------------------------------- MODULE Lexer --------------------------------
(***************************************************************************)
(* The lexer's layout, src/lexer/mod.rs: what newlines, indentation,       *)
(* brackets and comments become.  A source is a sequence of lines          *)
(* [col, items]: the column of the first item, from 1, and the lexemes of  *)
(* the line, each scanned already (scan_string, scan_number and the other  *)
(* scanners of one lexeme are abstracted to the item they give).  A word   *)
(* is a keyword or an identifier; a string with {code} carries that code   *)
(* as items; "block" is a #* comment *#, "#" a comment to the end of line. *)
(***************************************************************************)
EXTENDS Integers, Sequences, SequencesExt, FiniteSets, TLC

\* lookup_keyword, but for `ret`
Reserved ==
    {"and", "as", "assert", "async", "await", "break", "case", "catch", "channel", "class", "close", "constexpr", "continue",
     "coro", "defer", "dtor", "directive", "elif", "else", "enum", "export", "extern", "extends", "false", "finally", "fn", "for",
     "from", "if", "impl", "implements", "import", "in", "input", "interface", "is", "lazy", "loop", "macro", "marker", "match",
     "new", "not", "null", "or", "paste", "plugin", "pon", "println", "private", "public", "receive", "repeated", "resume",
     "return", "select", "self", "send", "set", "spawn", "step", "struct", "test", "bench", "throw", "then", "trait", "true",
     "try", "type", "unsafe", "while", "with", "yield"}
\* the lexemes of the scan_* functions
Symbols ==
    {",", ";", ":", "(", ")", "[", "]", "{", "}", ".", "..", "...", "?", "?.", "??", "|>", "!=", "=", "==", "<", "<=", ">", ">=",
     "+", "+=", "-", "-=", "*", "*=", "**", "%", "%=", "/", "//", "/=", "#", "~", "^", "_", "&", "@"}
Capitals == {"A", "D", "Int", "List", "P", "Q", "T"}
Word(w) ==
    IF w \in Reserved \cup Symbols THEN [k |-> w, s |-> w] ELSE [k |-> "id", s |-> w, upper |-> w \in Capitals]

(***************************************************************************)
(* The state of the lexer                                                  *)
(***************************************************************************)

NewLexer == [indents |-> <<1>>, start |-> TRUE, parens |-> 0, tokens |-> <<>>, failed |-> FALSE]
Layout(k) == [k |-> k, s |-> k]
Emit(lx, toks) == [lx EXCEPT !.tokens = @ \o toks]

Deeper(lx, col) == {n \in DOMAIN lx.indents : lx.indents[n] > col}
\* [mutant] a line that goes back leaves one level only
DedentsOnce(lx, target) ==
    [Emit(lx, <<Layout("dedent")>>) EXCEPT !.indents = Front(lx.indents)]

\* generate_dedents: one Dedent for each level left, which must lead to a
\* column that some line above began at
Dedents(lx, target) ==
    LET left == Deeper(lx, target)
        rest == SubSeq(lx.indents, 1, Len(lx.indents) - Cardinality(left))
    IN [Emit(lx, [n \in 1..Cardinality(left) |-> Layout("dedent")]) EXCEPT !.indents = rest, !.failed = Last(rest) # target]
Indents(lx, col) ==
    CASE col > Last(lx.indents) -> [Emit(lx, <<Layout("indent")>>) EXCEPT !.indents = Append(@, col)]
      [] col < Last(lx.indents) -> Dedents(lx, col)
      [] OTHER -> lx

\* a string's {code} has a lexer of its own: one line, and its end
InnerCode(items) == Append(Append(items, Layout("nl")), [k |-> "eof", s |-> ""])
Tokenized(item) ==
    IF item.k # "str" THEN item
    ELSE [item EXCEPT !.parts = [n \in DOMAIN @ |-> IF "code" \in DOMAIN @[n] THEN [code |-> InnerCode(@[n].code)] ELSE @[n]]]
\* within a line a directive is a division and a word
Unslashed(item) == IF item.k = "directive" THEN <<Word("/")>> \o item.rest ELSE <<Tokenized(item)>>
Depth(parens, k) ==
    CASE k \in {"(", "[", "{"} -> parens + 1
      [] k \in {")", "]", "}"} /\ parens > 0 -> parens - 1
      [] OTHER -> parens
ScanItem(lx, item) ==
    CASE item.k = "#comment" -> lx
      [] item.k = "block" -> Emit(lx, <<Layout("comment")>>)
      [] OTHER -> [Emit(lx, Unslashed(item)) EXCEPT !.parens = Depth(@, item.k)]

\* scan_directive_or_scope at the start of a line: a lone `/` is a directive
Directed(item) ==
    CASE item.k = "/" -> [k |-> "directive", s |-> "/", scope |-> FALSE]
      [] item.k = "directive" -> [k |-> "directive", s |-> item.s, scope |-> item.scope]
      [] OTHER -> item
\* scan_line_start: a blank line, or one that a # comments out, leaves the
\* lexer at the start of a line; so does a block comment, before what follows it
RECURSIVE ScanStart(_, _, _)
ScanStart(lx, col, items) ==
    CASE items = <<>> \/ Head(items).k \in {"#comment", "#"} -> [lx |-> lx, items |-> <<>>]
      [] Head(items).k = "block" -> ScanStart(Emit(lx, <<Layout("comment")>>), col + 1, Tail(items))
      [] OTHER ->
           LET in == [Indents(lx, col) EXCEPT !.start = FALSE]
               begun == IF Head(items).k = "//" THEN <<Word("/")>> \o [items EXCEPT ![1] = Word("/")] ELSE items
           IN IF Head(begun).k \in {"/", "directive"} THEN [lx |-> Emit(in, <<Directed(Head(begun))>>), items |-> Tail(begun)]
              ELSE [lx |-> in, items |-> begun]
ScanItems(lx, items) == FoldLeft(ScanItem, lx, items)
\* in brackets a newline is nothing, and the next line has no start
ScanEnd(lx) ==
    IF lx.start \/ lx.parens > 0 THEN lx ELSE [Emit(lx, <<Layout("nl")>>) EXCEPT !.start = TRUE]
ScanLine(lx, line) ==
    LET begun == IF lx.start THEN ScanStart(lx, line.col, line.items) ELSE [lx |-> lx, items |-> line.items]
    IN ScanItems(begun.lx, begun.items)

\* [mutant] no newline is made up
EndOfFileBare(lx) == Emit(Dedents(lx, 1), <<[k |-> "eof", s |-> ""]>>)

\* the end of the file, at the start of a line or not
EndOfFile(lx) ==
    Emit(Dedents(lx, 1), (IF lx.start THEN <<>> ELSE <<Layout("nl")>>) \o <<[k |-> "eof", s |-> ""]>>)
=============================================================================
