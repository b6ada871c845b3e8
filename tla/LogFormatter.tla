---------------------------- MODULE LogFormatter ----------------------------
(***************************************************************************)
(* LogFormatter of http_server/Log.cpp: init() turns a layout pattern such *)
(* as "%d{%H:%M}%T%m%n" into the list of items a log line is made of.      *)
(*                                                                         *)
(* A pattern is a sequence of characters.  Only four classes of them are   *)
(* told apart by init(): "%", the two braces, letters, and the rest.       *)
(***************************************************************************)
EXTENDS Integers, Sequences, FiniteSetsExt

CONSTANTS Letters,      \* the letters that occur in patterns
          Others,       \* the characters that are neither letters, % nor braces
          Known,        \* the letters s_format_items has an item for
          MaxPattern    \* the length up to which every pattern is looked at

ASSUME LetterAssumption == /\ Known \subseteq Letters
                           /\ Letters \cap (Others \cup {"%", "{", "}"}) = {}
                           /\ Others \cap {"%", "{", "}"} = {}
                           /\ MaxPattern \in Nat

Chars == Letters \cup Others \cup {"%", "{", "}"}

(***************************************************************************)
(* The inner loop: what follows the "%" at position i.                     *)
(***************************************************************************)

\* The first position after i that ends the name of the conversion: a "{" or a character that
\* is neither a letter nor a brace; one past the pattern when there is none.
NameEnd(p, i) ==
    Min({n \in i + 1 .. Len(p) : p[n] \notin Letters \cup {"}"}} \cup {Len(p) + 1})

\* The position of the "}" that closes the "{" at position b; 0 when it is never closed.
Closing(p, b) ==
    LET ends == {n \in b + 1 .. Len(p) : p[n] = "}"}
    IN  IF ends = {} THEN 0 ELSE Min(ends)

\* str, fmt, fmt_status and n when the inner loop ends.
Conversion(p, i) ==
    LET b    == NameEnd(p, i)
        name == SubSeq(p, i + 1, b - 1)
        c    == Closing(p, b)
    IN  IF b > Len(p) \/ p[b] # "{"
          THEN [str |-> name, fmt |-> <<>>, status |-> 0, n |-> b]
          ELSE IF c = 0
                 THEN [str |-> name, fmt |-> <<>>, status |-> 1, n |-> Len(p) + 1]
                 ELSE [str |-> name, fmt |-> SubSeq(p, b + 1, c - 1), status |-> 0, n |-> c + 1]

(***************************************************************************)
(* The outer loop.  The state of it: the next position to look at, the     *)
(* literal text read so far, the pieces found, and m_error.                *)
(***************************************************************************)

Text(s)      == [type |-> "text", str |-> s, fmt |-> <<>>]
Item(s, f)   == [type |-> "item", str |-> s, fmt |-> f]
BadPattern   == [type |-> "pattern_error", str |-> <<>>, fmt |-> <<>>]
BadFormat(s) == [type |-> "error_format", str |-> s, fmt |-> <<>>]

Flush(nstr) == IF nstr = <<>> THEN <<>> ELSE <<Text(nstr)>>

\* Variant: the "i = n - 1" is "i = n".
SkipsOne(conv) == conv.n + 1

\* Where the outer loop goes on after a conversion: i = n - 1, then ++i.
Resume(conv) == conv.n

\* One turn of the outer loop at position i.
Turn(p, st, i) ==
    LET conv == Conversion(p, i)
    IN  IF i < st.next THEN st
        ELSE IF p[i] # "%"
          THEN [st EXCEPT !.next = i + 1, !.nstr = Append(@, p[i])]
        ELSE IF i < Len(p) /\ p[i + 1] = "%"
          THEN [st EXCEPT !.next = i + 1, !.nstr = Append(@, "%")]
        ELSE IF conv.status = 0
          THEN [st EXCEPT !.next = Resume(conv), !.nstr = <<>>,
                          !.vec = @ \o Flush(st.nstr) \o <<Item(conv.str, conv.fmt)>>]
          ELSE [st EXCEPT !.next = i + 1, !.vec = Append(@, BadPattern), !.error = TRUE]

Scan(p) == MapThenFoldSet(LAMBDA i, st : Turn(p, st, i),
                          [next |-> 1, nstr |-> <<>>, vec |-> <<>>, error |-> FALSE],
                          LAMBDA i : i, Max, DOMAIN p)

\* s_format_items.find
HasItem(str) == Len(str) = 1 /\ str[1] \in Known

\* init(): m_items and m_error of the formatter of pattern p.
Parse(p) ==
    LET end == Scan(p)
        vec == end.vec \o Flush(end.nstr)
        Build(x) == IF x.type = "item" /\ ~HasItem(x.str) THEN BadFormat(x.str) ELSE x
    IN  [items |-> [k \in 1 .. Len(vec) |-> Build(vec[k])],
         error |-> end.error \/ \E k \in 1 .. Len(vec) : vec[k].type = "item" /\ ~HasItem(vec[k].str)]

IsError(p) == Parse(p).error
Items(p)   == Parse(p).items

(***************************************************************************)
(* The reference: how a list of items is spelled as a pattern.             *)
(***************************************************************************)

Spelled(x) == IF x.type = "text" THEN x.str
              ELSE <<"%">> \o x.str \o (IF x.fmt = <<>> THEN <<>> ELSE <<"{">> \o x.fmt \o <<"}">>)

Spelling(items) == MapThenFoldSet(LAMBDA s, before : before \o s, <<>>,
                                  LAMBDA k : Spelled(items[k]), Max, DOMAIN items)

UpTo(S, n) == UNION {[1 .. m -> S] : m \in 0 .. n}

Holds(p, s) == \E k \in 0 .. Len(p) - Len(s) : SubSeq(p, k + 1, k + Len(s)) = s

\* Two texts in a row are one text, a text has no "%" and no item begins inside a text.  The name of
\* an item without braces ends where the letters and braces end.
IsLayout(items) ==
    \A k \in 2 .. Len(items) :
        items[k].type = "text" =>
            /\ items[k - 1].type = "item"
            /\ items[k - 1].fmt = <<>> => items[k].str[1] \in Others

Layouts ==
    LET texts == {Text(s) : s \in UpTo(Chars \ {"%"}, 2) \ {<<>>}}
        items == {Item(<<c>>, f) : c \in Known, f \in UpTo(Chars \ {"}"}, 2)}
    IN  {l \in UpTo(texts \cup items, 2) : IsLayout(l)}

\* An accepted pattern is read without losing, adding or moving a character: spelling its items
\* gives the pattern back.  "%%" is left out because init() does not read it as one "%", and "{}"
\* because an empty format is the same to an item as no format.  (LogFormatter::init)
FormatterReadsBack ==
    \A p \in UpTo(Chars, MaxPattern) :
        (~IsError(p) /\ ~Holds(p, <<"%", "%">>) /\ ~Holds(p, <<"{", "}">>)) => Spelling(Items(p)) = p

\* Every layout of the form the comment above init() describes, texts, %x and %x{...}, is accepted
\* and yields exactly its items.
FormatterAccepts ==
    \A l \in Layouts : ~IsError(Spelling(l)) /\ Items(Spelling(l)) = l
=============================================================================
