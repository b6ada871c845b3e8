-------------------------------- MODULE Text --------------------------------
(* http_server/utils.cpp: URLDecode of the texts a client sends, and the   *)
(* dates of the negotiated caching, as toGMTString writes and              *)
(* compareGMTStr reads them.  A character is its code.  A client escapes   *)
(* the characters it likes; a file is modified and fetched again.          *)
EXTENDS Integers, Sequences, SequencesExt, FiniteSetsExt

CONSTANTS Chars, MaxText,
          Dates   \* of modification: <<year, month, day, hour, minute, second>>

VARIABLES url, plain,     \* the text as sent and as meant
          stamp, mtime    \* the dates of the client's copy and of the file

vars == <<url, plain, stamp, mtime>>

PERCENT == 37
NUL == 0

\* operator[] inserts 0 for the characters that are not there, '0' among them.
OnlyCapitals(c) == CASE c \in 49..57 -> c - 48
                     [] c \in 65..70 -> c - 55
                     [] OTHER -> 0
HEXMAP(c) == CASE c \in 49..57 -> c - 48
               [] c \in 97..102 -> c - 87
               [] c \in 65..70 -> c - 55
               [] OTHER -> 0

\* "%" without two characters behind it makes a string of a null pointer.
Throws == <<-1>>

RECURSIVE Decoded(_, _)
Decoded(s, res) ==
    IF s = <<>> THEN res
    ELSE IF s[1] # PERCENT THEN Decoded(Tail(s), Append(res, s[1]))
    ELSE IF Len(s) < 3 THEN Throws
    ELSE Decoded(SubSeq(s, 4, Len(s)), Append(res, HEXMAP(s[2]) * 16 + HEXMAP(s[3])))

\* The result is made of a C string.
UptoNul(s) == LET ends == {i \in DOMAIN s : s[i] = NUL}
              IN  IF ends = {} THEN s ELSE SubSeq(s, 1, Min(ends) - 1)
URLDecode(s) == UptoNul(Decoded(s, <<>>))

Digit(n) == IF n < 10 THEN {48 + n} ELSE {55 + n, 87 + n}
Escapes(c) == {<<PERCENT, h, l>> : h \in Digit(c \div 16), l \in Digit(c % 16)}

---------------------------------------------------------------------------
\* strftime's %b; the month as MONTH_MAP has it, where "Sept" stands for "Sep".
Months == <<"Jan", "Feb", "Mar", "Apr", "May", "Jun",
            "Jul", "Aug", "Sep", "Oct", "Nov", "Dec">>
toGMTString(d) == [d EXCEPT ![2] = Months[d[2]]]

MONTH_MAP(name) ==
    LET known == [Months EXCEPT ![9] = "Sept"]
    IN  IF Contains(known, name) THEN CHOOSE i \in 1..12 : known[i] = name ELSE 0

MonthFirst(s1, s2) ==
    LET d1 == [s1 EXCEPT ![2] = MONTH_MAP(@)]
        d2 == [s2 EXCEPT ![2] = MONTH_MAP(@)]
    IN  d1[2] > d2[2] \/ (d1[2] = d2[2] /\ d1 # d2 => d1[1] > d2[1])
\* The first of year, month, ..., second that differs decides.
compareGMTStr(s1, s2) ==
    LET d1 == [s1 EXCEPT ![2] = MONTH_MAP(@)]
        d2 == [s2 EXCEPT ![2] = MONTH_MAP(@)]
        differ == {i \in 1..6 : d1[i] # d2[i]}
    IN  differ = {} \/ d1[Min(differ)] > d2[Min(differ)]

---------------------------------------------------------------------------
Init == url = <<>> /\ plain = <<>> /\ stamp \in Dates /\ mtime = stamp

Sends(c, s) == /\ Len(plain) < MaxText
               /\ url' = url \o s /\ plain' = Append(plain, c)
               /\ UNCHANGED <<stamp, mtime>>
SendsPlain == \E c \in Chars \ {PERCENT, NUL} : Sends(c, <<c>>)
SendsEscaped == \E c \in Chars : \E s \in Escapes(c) : Sends(c, s)

Older(d, e) == LET differ == {i \in 1..6 : d[i] # e[i]}
               IN  differ # {} /\ d[Min(differ)] < e[Min(differ)]
Modified == /\ url = <<>>
            /\ \E d \in Dates : Older(mtime, d) /\ mtime' = d
            /\ UNCHANGED <<url, plain, stamp>>
Fetched == /\ url = <<>>
           /\ stamp' = mtime /\ UNCHANGED <<url, plain, mtime>>

Next == SendsPlain \/ SendsEscaped \/ Modified \/ Fetched
Spec == Init /\ [][Next]_vars

---------------------------------------------------------------------------
(* Whatever characters a client escapes, and in whichever case, URLDecode  *)
(* gives the text meant, up to a NUL in it, and a text cut inside its last *)
(* escape is never taken for a shorter one.                                *)
DecodesWhatWasMeant ==
    /\ URLDecode(url) = UptoNul(plain)
    /\ Len(url) >= 3 /\ url[Len(url) - 2] = PERCENT =>
         \A cut \in 1..2 : URLDecode(SubSeq(url, 1, Len(url) - cut)) = Throws

(* "if s1 < s2 false, else true" (utils.h): the client's copy is found     *)
(* fresh exactly when the file has not been modified since, for dates      *)
(* outside September.                                                      *)
FreshUnlessModified ==
    stamp[2] # 9 /\ mtime[2] # 9 =>
        (compareGMTStr(toGMTString(stamp), toGMTString(mtime)) <=> ~Older(stamp, mtime))
=============================================================================
