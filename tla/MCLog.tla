------------------------------- MODULE MCLog -------------------------------
(* Logging with the formatters LogFormatter makes of the patterns.         *)
EXTENDS Log, LogFormatter, TLC

MCDefault  == <<"%", "m", " ">>
MCPatterns == {<<"%", "m", "%", "m">>, <<"%", "q">>}

\* m_items and m_error of the formatters in use.
Parsed   == [p \in Patterns \cup {Default} |-> Items(p)]
Rejected == [p \in Patterns \cup {Default} |-> IsError(p)]

MCItems  == Parsed
MCError  == Rejected

\* Patterns are parsed as they are written: an accepted pattern is read without losing, adding or moving a
\* character, and every layout of texts, %x and %x{...} is accepted and yields its items.  This does not
\* depend on the state, and is looked at before the first call.  (LogFormatter::init)
PatternsAreParsed == calls = 0 => FormatterReadsBack /\ FormatterAccepts

Symmetry == Permutations(Threads) \cup Permutations(Loggers) \cup Permutations(Appenders)
=============================================================================
