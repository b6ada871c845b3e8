--------------------------- MODULE LRUCacheProofs ---------------------------
(* The cache of file contents for any number of threads and files and any  *)
(* capacity: map and list agree and are in the order of use, each array is *)
(* freed once, stale entries are detected and no response is older than    *)
(* the request.                                                            *)
EXTENDS LRUCache, FiniteSetTheorems, TLAPS

(* Moving an element to the front (list::splice) keeps the elements, each  *)
(* once, and their number.                                                 *)
LEMMA ToFrontFacts ==
    ASSUME NEW S, NEW s \in Seq(S), NEW i \in DOMAIN s
    PROVE  /\ ToFront(s, i) \in Seq(S) /\ Len(ToFront(s, i)) = Len(s)
           /\ Range(ToFront(s, i)) = Range(s)
           /\ IsInjective(s) => IsInjective(ToFront(s, i))
  <1> DEFINE f == ToFront(s, i)
  <1>1. DOMAIN s = 1..Len(s) /\ Len(s) \in Nat /\ i \in 1..Len(s)
    OBVIOUS
  <1>2. /\ DOMAIN f = 1..Len(s)
        /\ \A j \in 1..Len(s) :
              f[j] = IF j = 1 THEN s[i] ELSE IF j <= i THEN s[j - 1] ELSE s[j]
    BY <1>1 DEF ToFront
  <1>3. f \in [1..Len(s) -> S]
    BY <1>1 DEF ToFront
  <1>4. f \in Seq(S) /\ Len(f) = Len(s)
    BY <1>1, <1>3
  <1>5. Range(f) \subseteq Range(s)
    BY <1>1, <1>2 DEF Range
  <1>6. Range(s) \subseteq Range(f)
    <2> SUFFICES ASSUME NEW j \in 1..Len(s) PROVE s[j] \in Range(f)
      BY <1>1 DEF Range
    <2>1. CASE j = i
      BY <2>1, <1>1, <1>2 DEF Range
    <2>2. CASE j < i
      <3>1. j + 1 \in 1..Len(s) /\ f[j + 1] = s[j]
        BY <2>2, <1>1, <1>2
      <3> HIDE DEF f
      <3> QED BY <3>1, <1>2 DEF Range
    <2>3. CASE j > i
      <3>1. f[j] = s[j]
        BY <2>3, <1>1, <1>2
      <3> HIDE DEF f
      <3> QED BY <3>1, <1>2 DEF Range
    <2> QED BY <2>1, <2>2, <2>3, <1>1
  <1>7. ASSUME IsInjective(s) PROVE IsInjective(f)
    <2> SUFFICES ASSUME NEW a \in 1..Len(s), NEW b \in 1..Len(s), a < b, f[a] = f[b]
                 PROVE  FALSE
      <3> HIDE DEF f
      <3> QED BY <1>2 DEF IsInjective
    <2> DEFINE from(j) == IF j = 1 THEN i ELSE IF j <= i THEN j - 1 ELSE j
    <2>1. /\ from(a) \in 1..Len(s) /\ from(b) \in 1..Len(s) /\ from(a) # from(b)
          /\ f[a] = s[from(a)] /\ f[b] = s[from(b)]
      BY <1>1, <1>2
    <2> HIDE DEF f, from
    <2> QED BY <1>1, <1>7, <2>1, Zenon DEF IsInjective
  <1> QED BY <1>4, <1>5, <1>6, <1>7, Zenon

(* A new element at the front (list::push_front).                          *)
LEMMA PushFrontFacts ==
    ASSUME NEW S, NEW s \in Seq(S), NEW e \in S
    PROVE  /\ <<e>> \o s \in Seq(S) /\ Len(<<e>> \o s) = Len(s) + 1
           /\ (<<e>> \o s)[1] = e
           /\ \A j \in 2..(Len(s) + 1) : (<<e>> \o s)[j] = s[j - 1]
           /\ Range(<<e>> \o s) = Range(s) \cup {e}
           /\ IsInjective(s) /\ e \notin Range(s) => IsInjective(<<e>> \o s)
  <1> DEFINE f == <<e>> \o s
  <1>1. DOMAIN s = 1..Len(s) /\ Len(s) \in Nat
    OBVIOUS
  <1>2. /\ f \in Seq(S) /\ Len(f) = Len(s) + 1 /\ f[1] = e
        /\ \A j \in 2..(Len(s) + 1) : f[j] = s[j - 1]
    BY <1>1
  <1>3. DOMAIN f = 1..(Len(s) + 1)
    BY <1>2
  <1> HIDE DEF f
  <1>4. \A j \in 1..Len(s) : f[j + 1] = s[j] /\ j + 1 \in DOMAIN f
    BY <1>1, <1>2, <1>3
  <1>5. Range(f) = Range(s) \cup {e}
    <2>1. ASSUME NEW j \in DOMAIN f PROVE f[j] \in Range(s) \cup {e}
      BY <1>1, <1>2, <1>3 DEF Range
    <2>2. ASSUME NEW j \in DOMAIN s PROVE s[j] \in Range(f)
      BY <1>1, <1>4 DEF Range
    <2>3. 1 \in DOMAIN f
      BY <1>1, <1>3
    <2> QED BY <2>1, <2>2, <2>3, <1>2 DEF Range
  <1>6. ASSUME IsInjective(s), e \notin Range(s) PROVE IsInjective(f)
    <2> SUFFICES ASSUME NEW a \in DOMAIN f, NEW b \in DOMAIN f, a < b, f[a] = f[b]
                 PROVE  FALSE
      BY <1>1, <1>3 DEF IsInjective
    <2>1. b - 1 \in DOMAIN s /\ f[b] = s[b - 1]
      BY <1>1, <1>2, <1>3
    <2>2. CASE a = 1
      BY <1>2, <1>6, <2>1, <2>2 DEF Range
    <2>3. CASE a > 1
      <3>1. a - 1 \in DOMAIN s /\ f[a] = s[a - 1] /\ a - 1 # b - 1
        BY <1>1, <1>2, <1>3, <2>3
      <3> QED BY <1>6, <2>1, <3>1 DEF IsInjective
    <2> QED BY <2>2, <2>3, <1>3, <1>1
  <1> QED BY <1>2, <1>5, <1>6 DEF f

(* Without its last element (list::pop_back).                              *)
LEMMA FrontFacts ==
    ASSUME NEW S, NEW s \in Seq(S), Len(s) > 0, IsInjective(s)
    PROVE  LET f == SubSeq(s, 1, Len(s) - 1) IN
           /\ f \in Seq(S) /\ Len(f) = Len(s) - 1
           /\ \A j \in 1..(Len(s) - 1) : f[j] = s[j]
           /\ s[Len(s)] \in Range(s)
           /\ Range(f) = Range(s) \ {s[Len(s)]}
           /\ IsInjective(f)
  <1> DEFINE f == SubSeq(s, 1, Len(s) - 1)
  <1>1. DOMAIN s = 1..Len(s) /\ Len(s) \in Nat /\ Len(s) \in DOMAIN s
    OBVIOUS
  <1>2. f \in Seq(S) /\ Len(f) = Len(s) - 1 /\ \A j \in 1..(Len(s) - 1) : f[j] = s[j]
    BY <1>1
  <1>3. DOMAIN f = 1..(Len(s) - 1)
    BY <1>1, <1>2
  <1> HIDE DEF f
  <1>4. \A j \in DOMAIN f : j \in DOMAIN s /\ j # Len(s) /\ f[j] = s[j]
    BY <1>1, <1>2, <1>3
  <1>5. \A j \in DOMAIN s : j = Len(s) \/ j \in DOMAIN f
    BY <1>1, <1>3
  <1>6. Range(f) = Range(s) \ {s[Len(s)]}
    BY <1>1, <1>4, <1>5 DEF Range, IsInjective
  <1>7. IsInjective(f)
    BY <1>4 DEF IsInjective
  <1> QED BY <1>1, <1>2, <1>6, <1>7, Zenon DEF f, Range

-----------------------------------------------------------------------------
(* The inductive invariant                                                 *)

Stamps == Times \cup {Never}
Arrays == [mtime : Stamps, len : Nat, whole : BOOLEAN, freed : BOOLEAN]
Places == {"idle", "first", "reread first", "set", "load", "args", "reread", "aborted", "undefined"}
Rereading == {"reread first", "reread"}
Reading == Rereading \cup {"load"}

Types == /\ exists \subseteq Files
         /\ mtime \in [Files -> Times] /\ size \in [Files -> Sizes]
         /\ entry \in [Files -> [val : Nat, mtime : Stamps, fsize : Nat]]
         /\ buffers \in Seq(Arrays) /\ Len(buffers) <= MaxAllocs
         /\ lock \in Threads \cup {Null}
         /\ pc \in [Threads -> Places]
         /\ key \in [Threads -> Files \cup {Null}]
         /\ stat \in [Threads -> [mtime : Stamps, fsize : Nat]]
         /\ val \in [Threads -> Nat \cup {NotYet}] /\ fsize \in [Threads -> Nat \cup {NotYet}]
         /\ asked \in [Threads -> Stamps]

\* Map and list agree, and the list is the beginning of the order of use.
Lists == /\ list \in Seq(Files) /\ recent \in Seq(Files)
         /\ map = Range(list) /\ IsInjective(list) /\ IsInjective(recent)
         /\ Len(list) <= Capacity /\ Len(list) <= Len(recent)
         /\ \A i \in 1..Len(list) : list[i] = recent[i]

\* A thread that serves a file opened it when it was no newer than it is.
Serves(t) == pc[t] \notin {"idle", "aborted", "undefined"} =>
                 key[t] \in Files /\ ~Later(asked[t], mtime[key[t]])

\* A thread between stat and read holds the mutex, and has seen the file as it
\* is or as it was at an earlier time.
Reads(t) == pc[t] \in Reading =>
                /\ lock = t
                /\ ~Later(stat[t].mtime, mtime[key[t]])
                /\ stat[t].mtime = mtime[key[t]] => size[key[t]] = stat[t].fsize
                /\ pc[t] = "load" => key[t] \notin map /\ Len(list) < Capacity
                /\ pc[t] \in Rereading => key[t] \in map

\* The array getValue returned is freed or as new as the file was when opened.
Holds(t) == /\ pc[t] = "idle" => val[t] = NotYet
            /\ val[t] > 0 => /\ val[t] \in DOMAIN buffers
                             /\ \/ buffers[val[t]].freed
                                \/ ~Later(asked[t], buffers[val[t]].mtime)

\* The time of an entry is at most that of its file, and earlier if the content differs.
Entry(k) == /\ entry[k].val \in DOMAIN buffers /\ entry[k].val > 0
            /\ ~buffers[entry[k].val].freed
            /\ ~Later(entry[k].mtime, mtime[k])
            /\ Later(mtime[k], entry[k].mtime) \/
                 (buffers[entry[k].val].mtime = mtime[k] /\ buffers[entry[k].val].whole)

Owned == /\ \A i \in DOMAIN buffers : buffers[i].freed \/ \E k \in map : entry[k].val = i
         /\ \A k, l \in map : entry[k].val = entry[l].val => k = l

IInv == /\ Types /\ Lists /\ Owned /\ ~old
        /\ \A t \in Threads : Serves(t) /\ Reads(t) /\ Holds(t)
        /\ \A k \in map : Entry(k)

-----------------------------------------------------------------------------
(* Modification times are ordered.                                         *)
LEMMA LaterFacts ==
    ASSUME NEW a \in Stamps, NEW b \in Stamps, NEW c \in Stamps
    PROVE  /\ ~Later(a, a)
           /\ Later(a, b) /\ ~Later(c, b) => Later(a, c)
           /\ ~Later(a, b) /\ ~Later(b, c) => ~Later(a, c)
           /\ Later(a, b) \/ Later(b, a) \/ a = b
           /\ Later(a, b) => ~Later(b, a) /\ Expired(a, b)
  BY CacheAssumption DEF Stamps, Later, Never, Expired

(* In a list without repetitions a key has one position.                   *)
LEMMA PositionFacts ==
    ASSUME NEW s \in Seq(Files), NEW k, \E i \in DOMAIN s : s[i] = k
    PROVE  /\ Position(s, k) \in DOMAIN s /\ s[Position(s, k)] = k
           /\ IsInjective(s) => \A i \in DOMAIN s : s[i] = k => i = Position(s, k)
  <1>1. Position(s, k) \in DOMAIN s /\ s[Position(s, k)] = k
    BY DEF Position
  <1> QED BY <1>1 DEF IsInjective

(* getValue moves the key to the front of the list and of the order of use.*)
LEMMA ListsUsed ==
    ASSUME Lists, NEW k \in map, list' = Spliced(k), recent' = Used(k), map' = map
    PROVE  Lists' /\ Len(list') = Len(list)
  <1> DEFINE p == Position(list, k)
  <1>1. /\ DOMAIN list = 1..Len(list) /\ DOMAIN recent = 1..Len(recent)
        /\ Len(list) \in Nat /\ Len(recent) \in Nat
    BY DEF Lists
  <1>2. p \in DOMAIN list /\ list[p] = k
    BY PositionFacts DEF Lists, Range
  <1>3. p \in DOMAIN recent /\ recent[p] = k
    BY <1>1, <1>2 DEF Lists
  <1>4. Position(recent, k) = p
    BY <1>3, PositionFacts DEF Lists
  <1>5. list' = ToFront(list, p) /\ recent' = ToFront(recent, p)
    BY <1>3, <1>4 DEF Spliced, Used
  <1> HIDE DEF p
  <1>6. /\ list' \in Seq(Files) /\ Len(list') = Len(list) /\ Range(list') = Range(list)
        /\ IsInjective(list')
    BY <1>2, <1>5, ToFrontFacts DEF Lists
  <1>7. recent' \in Seq(Files) /\ Len(recent') = Len(recent) /\ IsInjective(recent')
    BY <1>3, <1>5, ToFrontFacts DEF Lists
  <1>8. \A i \in 1..Len(list) : list'[i] = recent'[i]
    <2> TAKE i \in 1..Len(list)
    <2>1. i \in DOMAIN list /\ i \in DOMAIN recent
      BY <1>1 DEF Lists
    <2>2. /\ list'[i] = IF i = 1 THEN list[p] ELSE IF i <= p THEN list[i - 1] ELSE list[i]
          /\ recent'[i] = IF i = 1 THEN recent[p] ELSE IF i <= p THEN recent[i - 1] ELSE recent[i]
      BY <1>5, <2>1 DEF ToFront
    <2>3. i = 1 \/ i - 1 \in 1..Len(list)
      BY <1>1
    <2> QED BY <1>2, <1>3, <2>2, <2>3 DEF Lists
  <1> QED BY <1>6, <1>7, <1>8 DEF Lists

(* setValue drops the last key of a full list.                             *)
LEMMA ListsEvicted ==
    ASSUME Lists, Full, map' = map \ {list[Len(list)]}, list' = SubSeq(list, 1, Len(list) - 1),
           recent' = recent
    PROVE  Lists' /\ list[Len(list)] \in map /\ Len(list') < Capacity
  <1>1. list \in Seq(Files) /\ Len(list) > 0 /\ Len(list) \in Nat /\ IsInjective(list)
    BY CacheAssumption DEF Lists, Full
  <1>2. /\ list' \in Seq(Files) /\ Len(list') = Len(list) - 1 /\ IsInjective(list')
        /\ \A j \in 1..(Len(list) - 1) : list'[j] = list[j]
        /\ Range(list') = Range(list) \ {list[Len(list)]} /\ list[Len(list)] \in Range(list)
    BY <1>1, FrontFacts
  <1> QED BY <1>1, <1>2, CacheAssumption DEF Lists, Full

(* setValue puts a new key in front.                                       *)
LEMMA ListsLoaded ==
    ASSUME Lists, NEW k \in Files \ map, Len(list) < Capacity,
           list' = <<k>> \o list, map' = map \cup {k}, recent' = Used(k)
    PROVE  Lists'
  <1>1. /\ DOMAIN list = 1..Len(list) /\ DOMAIN recent = 1..Len(recent)
        /\ Len(list) \in Nat /\ Len(recent) \in Nat
        /\ list \in Seq(Files) /\ recent \in Seq(Files)
    BY DEF Lists
  <1>2. /\ list' \in Seq(Files) /\ Len(list') = Len(list) + 1 /\ IsInjective(list')
        /\ list'[1] = k /\ \A j \in 2..(Len(list) + 1) : list'[j] = list[j - 1]
        /\ Range(list') = Range(list) \cup {k}
    BY <1>1, PushFrontFacts DEF Lists
  <1>3. CASE \E i \in DOMAIN recent : recent[i] = k
    <2> DEFINE p == Position(recent, k)
    <2>1. p \in 1..Len(recent) /\ recent[p] = k
      BY <1>1, <1>3, PositionFacts, Zenon
    <2>2. recent' = ToFront(recent, p)
      BY <1>3 DEF Used
    <2> HIDE DEF p
    <2>3. p > Len(list)
      BY <1>1, <2>1 DEF Lists, Range
    <2>4. recent' \in Seq(Files) /\ Len(recent') = Len(recent) /\ IsInjective(recent')
      BY <1>1, <2>1, <2>2, ToFrontFacts DEF Lists
    <2>5. recent'[1] = k /\ \A j \in 2..(Len(list) + 1) : recent'[j] = recent[j - 1]
      BY <1>1, <2>1, <2>2, <2>3 DEF ToFront
    <2>6. \A j \in 2..(Len(list) + 1) : j - 1 \in 1..Len(list)
      BY <1>1
    <2>7. \A j \in 1..Len(list') : list'[j] = recent'[j]
      BY <1>1, <1>2, <2>5, <2>6, SMTT(40) DEF Lists
    <2> QED BY <1>1, <1>2, <2>1, <2>3, <2>4, <2>7, CacheAssumption DEF Lists
  <1>4. CASE ~\E i \in DOMAIN recent : recent[i] = k
    <2>1. recent' = <<k>> \o recent /\ k \notin Range(recent)
      BY <1>4 DEF Used, Range
    <2>2. /\ recent' \in Seq(Files) /\ Len(recent') = Len(recent) + 1 /\ IsInjective(recent')
          /\ recent'[1] = k /\ \A j \in 2..(Len(recent) + 1) : recent'[j] = recent[j - 1]
      BY <1>1, <2>1, PushFrontFacts DEF Lists
    <2>3. \A j \in 2..(Len(list) + 1) : j - 1 \in 1..Len(list) /\ j \in 2..(Len(recent) + 1)
      BY <1>1 DEF Lists
    <2>4. \A j \in 1..Len(list') : list'[j] = recent'[j]
      <3> TAKE j \in 1..Len(list')
      <3>1. j = 1 \/ j \in 2..(Len(list) + 1)
        BY <1>1, <1>2
      <3>2. CASE j = 1
        BY <1>2, <2>2, <3>2
      <3>3. CASE j \in 2..(Len(list) + 1)
        <4>1. list'[j] = list[j - 1] /\ recent'[j] = recent[j - 1]
          BY <1>2, <2>2, <2>3, <3>3
        <4> QED BY <2>3, <3>3, <4>1 DEF Lists
      <3> QED BY <3>1, <3>2, <3>3
    <2>5. Len(list') <= Capacity /\ Len(list') <= Len(recent')
      BY <1>1, <1>2, <2>2, CacheAssumption DEF Lists
    <2>6. map' = Range(list')
      BY <1>2 DEF Lists
    <2> QED BY <1>2, <2>2, <2>4, <2>5, <2>6, Zenon DEF Lists
  <1> QED BY <1>3, <1>4

-----------------------------------------------------------------------------
(* Every step keeps the invariant.                                         *)

(* At first the cache is empty and nobody asks.                            *)
LEMMA InitIInv == Init => IInv
  <1> SUFFICES ASSUME Init PROVE IInv
    OBVIOUS
  <1> USE DEF Init
  <1>1. Types
    BY CacheAssumption DEF Types, Stamps, Arrays, Places, NoStat, Never, NotYet
  <1>2. Lists
    BY CacheAssumption DEF Lists, Range, IsInjective
  <1>3. Owned /\ ~old /\ \A k \in map : Entry(k)
    BY DEF Owned
  <1>4. \A t \in Threads : Serves(t) /\ Reads(t) /\ Holds(t)
    BY DEF Serves, Reads, Holds, Reading, Rereading, NotYet
  <1> QED BY <1>1, <1>2, <1>3, <1>4 DEF IInv

(* A file that changes gets a later time, and a later time is all that     *)
(* entries and threads allow for.                                          *)
LEMMA ChangeIInv ==
    ASSUME IInv, NEW f \in Mutable, NEW m \in Times, NEW n \in Sizes, Change(f, m, n)
    PROVE  IInv'
  <1> USE DEF Change, cacheVars, threadVars
  <1>1. Types'
    BY CacheAssumption, Zenon DEF IInv, Types
  <1>2. Lists' /\ Owned' /\ ~old'
    BY DEF IInv, Lists, Owned
  <1>3. /\ \A k \in Files : (mtime'[k] = mtime[k] /\ size'[k] = size[k]) \/ Later(mtime'[k], mtime[k])
        /\ \A k \in Files : mtime[k] \in Stamps /\ mtime'[k] \in Stamps
    BY CacheAssumption DEF IInv, Types, Stamps
  <1>4. \A k \in map' : Entry(k)'
    <2> SUFFICES ASSUME NEW k \in map PROVE Entry(k)'
      OBVIOUS
    <2>1. k \in Files /\ entry[k].mtime \in Stamps /\ Entry(k)
      BY DEF IInv, Lists, Range, Types
    <2>2. CASE mtime'[k] = mtime[k]
      BY <2>1, <2>2 DEF Entry
    <2>3. CASE Later(mtime'[k], mtime[k])
      <3>1. Later(mtime'[k], entry[k].mtime) /\ ~Later(entry[k].mtime, mtime'[k])
        BY <1>3, <2>1, <2>3, LaterFacts DEF Entry
      <3> QED BY <2>1, <3>1 DEF Entry
    <2> QED BY <1>3, <2>1, <2>2, <2>3
  <1>5. ASSUME NEW t \in Threads PROVE Serves(t)' /\ Reads(t)' /\ Holds(t)'
    <2>1. Serves(t) /\ Reads(t) /\ Holds(t) /\ asked[t] \in Stamps /\ stat[t].mtime \in Stamps
      BY DEF IInv, Types
    <2>2. Serves(t)'
      <3>1. CASE key[t] \in Files
        BY <1>3, <2>1, <3>1, LaterFacts DEF Serves
      <3> QED BY <2>1, <3>1 DEF Serves
    <2>3. Reads(t)'
      <3>1. CASE pc[t] \in Reading
        <4>1. key[t] \in Files
          BY <2>1, <3>1, Zenon DEF Serves, Reading, Rereading
        <4>2. CASE mtime'[key[t]] = mtime[key[t]] /\ size'[key[t]] = size[key[t]]
          BY <2>1, <4>2 DEF Reads
        <4>3. CASE Later(mtime'[key[t]], mtime[key[t]])
          <5>1. Later(mtime'[key[t]], stat[t].mtime)
            BY <1>3, <2>1, <3>1, <4>1, <4>3, LaterFacts DEF Reads
          <5>2. ~Later(stat[t].mtime, mtime'[key[t]]) /\ stat[t].mtime # mtime'[key[t]]
            BY <1>3, <2>1, <4>1, <5>1, LaterFacts
          <5> QED BY <2>1, <5>2 DEF Reads
        <4> QED BY <1>3, <4>1, <4>2, <4>3
      <3> QED BY <3>1 DEF Reads
    <2>4. Holds(t)'
      BY <2>1, Zenon DEF Holds
    <2> QED BY <2>2, <2>3, <2>4
  <1> QED BY <1>1, <1>2, <1>4, <1>5 DEF IInv

(* A step that leaves the cache, the threads and the times of files alone. *)
LEMMA Unmoved ==
    ASSUME IInv, Types', UNCHANGED <<mtime, size>>, UNCHANGED cacheVars,
           UNCHANGED <<lock, pc, key, stat, val, asked, old>>
    PROVE  IInv'
  <1>1. UNCHANGED <<map, list, entry, buffers, recent>>
    BY DEF cacheVars
  <1>2. Lists' /\ Owned' /\ ~old'
    BY <1>1 DEF IInv, Lists, Owned
  <1>3. \A k \in map' : Entry(k)'
    <2>1. \A k \in map : Entry(k)
      BY DEF IInv
    <2> QED BY <1>1, <2>1 DEF Entry
  <1>4. ASSUME NEW t \in Threads PROVE Serves(t)' /\ Reads(t)' /\ Holds(t)'
    <2>1. Serves(t) /\ Reads(t) /\ Holds(t)
      BY DEF IInv
    <2>2. Serves(t)'
      BY <2>1 DEF Serves
    <2>3. Reads(t)'
      BY <1>1, <2>1 DEF Reads
    <2>4. Holds(t)'
      BY <1>1, <2>1 DEF Holds
    <2> QED BY <2>2, <2>3, <2>4
  <1> QED BY <1>2, <1>3, <1>4 DEF IInv

(* Removing a file leaves the cache alone.                                 *)
LEMMA RemoveIInv ==
    ASSUME IInv, NEW f \in Mutable, Remove(f)
    PROVE  IInv'
  <1> USE DEF Remove, cacheVars, threadVars
  <1>1. Types'
    BY DEF IInv, Types
  <1> QED BY <1>1, Unmoved

(* getSize reads the entry and changes nothing of the cache.               *)
LEMMA GetSizeIInv ==
    ASSUME IInv, NEW t \in Threads, GetSize(t)
    PROVE  IInv'
  <1> USE DEF GetSize, fileVars, cacheVars
  <1>1. key[t] \in Files => entry[key[t]].fsize \in Nat
    BY DEF IInv, Types
  <1>2. key[t] \in Files
    BY DEF IInv, Serves
  <1>3. Types'
    BY <1>1, <1>2 DEF IInv, Types
  <1> QED BY <1>3, Unmoved, Zenon

(* A request that opens its file notes how new the file is.                *)
LEMMA RequestIInv ==
    ASSUME IInv, NEW t \in Threads, NEW k \in Files, Request(t, k)
    PROVE  IInv'
  <1> USE DEF Request, fileVars, cacheVars
  <1>1. mtime[k] \in Stamps
    BY DEF IInv, Types, Stamps
  <1>2. Types'
    BY <1>1, Zenon DEF IInv, Types, Places
  <1>3. Lists' /\ Owned' /\ ~old' /\ \A l \in map' : Entry(l)'
    BY Zenon DEF IInv, Lists, Owned, Entry
  <1>4. Serves(t)' /\ Reads(t)' /\ Holds(t)'
    <2>1. /\ pc'[t] = "first" /\ key'[t] = k /\ asked'[t] = mtime[k] /\ mtime' = mtime
          /\ val'[t] = NotYet
      BY DEF IInv, Types, Holds
    <2>2. ~Later(mtime[k], mtime[k])
      BY <1>1, LaterFacts
    <2>3. Serves(t)'
      BY <2>1, <2>2 DEF Serves
    <2>4. Reads(t)'
      BY <2>1, Zenon DEF Reads, Reading, Rereading
    <2>5. Holds(t)'
      BY <2>1 DEF Holds, NotYet
    <2> QED BY <2>3, <2>4, <2>5
  <1>5. ASSUME NEW u \in Threads, u # t PROVE Serves(u)' /\ Reads(u)' /\ Holds(u)'
    <2>1. /\ pc'[u] = pc[u] /\ key'[u] = key[u] /\ asked'[u] = asked[u]
          /\ UNCHANGED <<mtime, size, lock, stat, val, buffers, map, list>>
      BY <1>5 DEF IInv, Types
    <2> QED BY <2>1, Zenon DEF IInv, Serves, Reads, Holds
  <1> QED BY <1>2, <1>3, <1>4, <1>5 DEF IInv

(* The response is made of an array that is not freed, so that its content *)
(* is as new as the file was when it was opened.                           *)
LEMMA CopyIInv ==
    ASSUME IInv, NEW t \in Threads, Copy(t)
    PROVE  IInv'
  <1> USE DEF Copy, fileVars, cacheVars
  <1>1. Types'
    <2>1. pc' \in [Threads -> Places] /\ key' \in [Threads -> Files \cup {Null}]
      BY Zenon DEF IInv, Types, Places
    <2>2. /\ val' \in [Threads -> Nat \cup {NotYet}] /\ fsize' \in [Threads -> Nat \cup {NotYet}]
          /\ asked' \in [Threads -> Stamps]
      BY DEF IInv, Types, Stamps
    <2> QED BY <2>1, <2>2 DEF IInv, Types
  <1>2. Lists' /\ Owned' /\ \A k \in map' : Entry(k)'
    BY Zenon DEF IInv, Lists, Owned, Entry
  <1>3. ~old'
    <2>1. CASE ~Copyable(t)
      BY <2>1 DEF IInv
    <2>2. CASE Copyable(t)
      <3>1. val[t] # 0 /\ ~buffers[val[t]].freed
        BY <2>2 DEF Copyable
      <3>2. val[t] > 0
        BY <3>1 DEF IInv, Types, Holds, NotYet
      <3>3. ~Later(asked[t], buffers[val[t]].mtime)
        BY <3>1, <3>2 DEF IInv, Holds
      <3> QED BY <2>2, <3>3, Zenon DEF IInv
    <2> QED BY <2>1, <2>2, Zenon
  <1>4. Serves(t)' /\ Reads(t)' /\ Holds(t)'
    <2>1. pc'[t] \in {"idle", "undefined"} /\ val'[t] = NotYet
      BY DEF IInv, Types
    <2>2. Serves(t)' /\ Reads(t)'
      BY <2>1, Zenon DEF Serves, Reads, Reading, Rereading
    <2>3. Holds(t)'
      BY <2>1 DEF Holds, NotYet
    <2> QED BY <2>2, <2>3
  <1>5. ASSUME NEW u \in Threads, u # t PROVE Serves(u)' /\ Reads(u)' /\ Holds(u)'
    <2>1. /\ pc'[u] = pc[u] /\ key'[u] = key[u] /\ asked'[u] = asked[u] /\ val'[u] = val[u]
          /\ UNCHANGED <<mtime, size, lock, stat, buffers, map, list>>
      BY <1>5 DEF IInv, Types
    <2> QED BY <2>1, Zenon DEF IInv, Serves, Reads, Holds
  <1> QED BY <1>1, <1>2, <1>3, <1>4, <1>5, Zenon DEF IInv

(* getValue returns what it finds only if its time is that of the file,    *)
(* and the content is then the file's.                                     *)
LEMMA GetValueIInv ==
    ASSUME IInv, NEW t \in Threads, GetValue(t)
    PROVE  IInv'
  <1> DEFINE k == key[t]
  <1>1. /\ UNCHANGED <<exists, mtime, size, map, entry, buffers, key, fsize, asked, old>>
        /\ lock = Null /\ pc[t] \in {"first", "args"} /\ k \in Files
    BY Zenon DEF GetValue, fileVars, IInv, Serves
  <1>2. \A u \in Threads : pc[u] \notin Reading
    BY <1>1, CacheAssumption, Zenon DEF IInv, Reads
  <1>3. Lists' /\ Len(list') = Len(list)
    <2>1. CASE k \notin map
      BY <1>1, <2>1, Zenon DEF GetValue, IInv, Lists
    <2>2. CASE k \in map
      BY <1>1, <2>2, ListsUsed, Zenon DEF GetValue, IInv
    <2> QED BY <2>1, <2>2
  <1>4. Owned' /\ ~old' /\ \A l \in map' : Entry(l)'
    BY <1>1, Zenon DEF IInv, Owned, Entry
  <1>5. \/ /\ \E v \in Nat : Returns(t, v) /\ (v = 0 \/ (k \in map /\ v = entry[k].val
                                   /\ ~Expired(mtime[k], entry[k].mtime)))
           /\ UNCHANGED <<lock, stat>>
        \/ /\ k \in map /\ lock' = t /\ stat' = [stat EXCEPT ![t] = StatOf(k)]
           /\ pc' = [pc EXCEPT ![t] = IF pc[t] = "first" THEN "reread first" ELSE "reread"]
           /\ UNCHANGED val
    <2>1. entry[k].val \in Nat
      BY <1>1 DEF IInv, Types
    <2> QED BY <2>1, Zenon DEF GetValue
  <1> HIDE DEF k
  <1>6. CASE \E v \in Nat : Returns(t, v) /\ (v = 0 \/ (k \in map /\ v = entry[k].val
                                   /\ ~Expired(mtime[k], entry[k].mtime)))
                            /\ UNCHANGED <<lock, stat>>
    <2>1. PICK v \in Nat : /\ Returns(t, v) /\ UNCHANGED <<lock, stat>>
                           /\ v = 0 \/ (k \in map /\ v = entry[k].val
                                        /\ ~Expired(mtime[k], entry[k].mtime))
      BY <1>6
    <2>2. \E p \in {"set", "args"} : pc' = [pc EXCEPT ![t] = p]
      BY <2>1, Zenon DEF Returns
    <2>3. val' = val \/ val' = [val EXCEPT ![t] = v]
      BY <2>1, Zenon DEF Returns
    <2>4. Types'
      <3>1. pc' \in [Threads -> Places]
        BY <2>2, Zenon DEF IInv, Types, Places
      <3>2. val' \in [Threads -> Nat \cup {NotYet}]
        BY <2>3 DEF IInv, Types
      <3> QED BY <1>1, <2>1, <3>1, <3>2 DEF IInv, Types
    <2>5. v > 0 => v \in DOMAIN buffers /\ ~Later(asked[t], buffers[v].mtime)
      <3> SUFFICES ASSUME v > 0 PROVE v \in DOMAIN buffers /\ ~Later(asked[t], buffers[v].mtime)
        OBVIOUS
      <3>1. k \in map /\ v = entry[k].val /\ ~Expired(mtime[k], entry[k].mtime) /\ Entry(k)
        <4>1. v # 0
          OBVIOUS
        <4>2. k \in map /\ v = entry[k].val /\ ~Expired(mtime[k], entry[k].mtime)
          BY <2>1, <4>1, Zenon
        <4> QED BY <4>2, Zenon DEF IInv
      <3>2. mtime[k] \in Stamps /\ entry[k].mtime \in Stamps
        BY <1>1 DEF IInv, Types, Stamps
      <3>3. buffers[v].mtime = mtime[k]
        BY <3>1, <3>2, LaterFacts, Zenon DEF Entry
      <3>4. ~Later(asked[t], mtime[k])
        BY <1>1, Zenon DEF IInv, Serves, k
      <3> QED BY <3>1, <3>3, <3>4, Zenon DEF Entry
    <2>6. ASSUME NEW u \in Threads PROVE Serves(u)' /\ Reads(u)' /\ Holds(u)'
      <3>1. pc'[u] = pc[u] \/ (u = t /\ pc'[u] \in {"set", "args"})
        BY <2>2 DEF IInv, Types
      <3>2. val'[u] = val[u] \/ (u = t /\ val'[u] = v)
        BY <2>3 DEF IInv, Types
      <3>3. Serves(u)'
        BY <1>1, <3>1, Zenon DEF IInv, Serves
      <3>4. Reads(u)'
        BY <1>2, <3>1, Zenon DEF Reads, Reading, Rereading
      <3>5. Holds(u)'
        <4>1. pc'[u] = "idle" => pc[u] = "idle" /\ u # t
          BY <1>1, <3>1
        <4> QED BY <1>1, <2>5, <3>2, <4>1, Zenon DEF IInv, Holds
      <3> QED BY <3>3, <3>4, <3>5
    <2> QED BY <1>3, <1>4, <2>4, <2>6 DEF IInv
  <1>7. CASE /\ k \in map /\ lock' = t /\ stat' = [stat EXCEPT ![t] = StatOf(k)]
             /\ pc' = [pc EXCEPT ![t] = IF pc[t] = "first" THEN "reread first" ELSE "reread"]
             /\ UNCHANGED val
    <2>1. StatOf(k) \in [mtime : Stamps, fsize : Nat]
      BY <1>1, CacheAssumption, Zenon DEF StatOf, IInv, Types, Stamps
    <2>2. Types'
      BY <1>1, <1>7, <2>1, Zenon DEF IInv, Types, Places
    <2>3. pc'[t] \in Rereading /\ stat'[t] = StatOf(k)
      BY <1>7, Zenon DEF IInv, Types, Rereading
    <2>4. \A u \in Threads : u # t => pc'[u] = pc[u]
      BY <1>7, Zenon DEF IInv, Types
    <2>5. ASSUME NEW u \in Threads PROVE Serves(u)' /\ Reads(u)' /\ Holds(u)'
      <3>1. Serves(u)'
        BY <1>1, <2>4 DEF IInv, Serves
      <3>2. Reads(u)'
        <4>1. CASE u # t
          BY <1>2, <2>4, <4>1 DEF Reads
        <4>2. CASE u = t
          <5>1. mtime[k] \in Stamps
            BY <1>1 DEF IInv, Types, Stamps
          <5>2. ~Later(mtime[k], mtime[k])
            BY <5>1, LaterFacts
          <5>3. stat'[t].mtime = mtime[k] /\ stat'[t].fsize = size[k]
            BY <2>3 DEF StatOf
          <5>4. key'[t] = k
            BY <1>1 DEF k
          <5> QED BY <1>1, <1>7, <2>3, <4>2, <5>2, <5>3, <5>4, Zenon DEF Reads, Rereading
        <4> QED BY <4>1, <4>2
      <3>3. Holds(u)'
        BY <1>1, <1>7, <2>3, <2>4, Zenon DEF IInv, Holds, Rereading
      <3> QED BY <3>1, <3>2, <3>3
    <2> QED BY <1>3, <1>4, <2>2, <2>5 DEF IInv
  <1> QED BY <1>5, <1>6, <1>7, Zenon

(* delete[] of an array leaves the others as they are.                     *)
LEMMA FreeFacts ==
    ASSUME buffers \in Seq(Arrays), NEW i \in DOMAIN buffers
    PROVE  /\ Free(i) \in Seq(Arrays) /\ Len(Free(i)) = Len(buffers)
           /\ Free(i)[i].freed /\ \A j \in DOMAIN buffers : j # i => Free(i)[j] = buffers[j]
  <1>1. Freed \in Arrays /\ Freed.freed
    BY DEF Freed, Arrays, Stamps
  <1>2. DOMAIN Free(i) = DOMAIN buffers /\ Free(i) \in [1..Len(buffers) -> Arrays]
    BY <1>1 DEF Free
  <1>3. Free(i) \in Seq(Arrays) /\ Len(Free(i)) = Len(buffers)
    BY <1>2
  <1>4. Free(i)[i] = Freed /\ \A j \in DOMAIN buffers : j # i => Free(i)[j] = buffers[j]
    BY DEF Free
  <1> QED BY <1>1, <1>3, <1>4

(* An array only ever becomes freed, so that what a thread holds stays     *)
(* freed or as new as it was.                                              *)
LEMMA HoldsOn ==
    ASSUME NEW u, Holds(u), pc'[u] = "idle" => pc[u] = "idle", val'[u] = val[u], asked'[u] = asked[u],
           \A i \in DOMAIN buffers : i \in DOMAIN buffers'
                                     /\ (buffers'[i] = buffers[i] \/ buffers'[i].freed)
    PROVE  Holds(u)'
  BY DEF Holds

(* The assertion that fails in the middle of a call changes nothing else.  *)
LEMMA AbortsIInv ==
    ASSUME IInv, NEW t \in Threads, Aborts(t), stat' = [stat EXCEPT ![t] = NoStat],
           UNCHANGED <<fileVars, key, fsize, asked, old>>
    PROVE  IInv'
  <1> USE DEF Aborts, fileVars, cacheVars
  <1>1. NoStat \in [mtime : Stamps, fsize : Nat]
    BY DEF NoStat, Stamps
  <1>2. pc' \in [Threads -> Places] /\ stat' \in [Threads -> [mtime : Stamps, fsize : Nat]]
    BY <1>1, Zenon DEF IInv, Types, Places
  <1>3. Types'
    BY <1>2, Zenon DEF IInv, Types
  <1>4. Lists' /\ Owned' /\ ~old' /\ \A k \in map' : Entry(k)'
    BY Zenon DEF IInv, Lists, Owned, Entry
  <1>5. ASSUME NEW u \in Threads PROVE Serves(u)' /\ Reads(u)' /\ Holds(u)'
    <2>1. IF u = t THEN pc'[u] = "aborted" ELSE pc'[u] = pc[u] /\ stat'[u] = stat[u]
      BY DEF IInv, Types
    <2> QED BY <2>1, Zenon DEF IInv, Serves, Reads, Holds, Reading, Rereading
  <1> QED BY <1>3, <1>4, <1>5 DEF IInv

(* The keys of the map are files.                                          *)
LEMMA KeysAreFiles == Lists => map \subseteq Files
  BY DEF Lists, Range

(* An array appended to a sequence of arrays.                              *)
LEMMA AppendFacts ==
    ASSUME NEW S, NEW s \in Seq(S), NEW e \in S
    PROVE  /\ Append(s, e) \in Seq(S) /\ Len(Append(s, e)) = Len(s) + 1
           /\ Append(s, e)[Len(s) + 1] = e
           /\ \A i \in 1..Len(s) : Append(s, e)[i] = s[i]
           /\ DOMAIN Append(s, e) = 1..(Len(s) + 1)
  OBVIOUS

\* bs are the arrays with those freed that are the array of no other entry.
Kept(t, bs) == /\ bs \in Seq(Arrays) /\ Len(bs) = Len(buffers)
               /\ \A i \in DOMAIN buffers :
                     \/ bs[i] = buffers[i] /\ (buffers[i].freed
                                               \/ \E l \in map \ {key[t]} : entry[l].val = i)
                     \/ bs[i].freed /\ ~\E l \in map \ {key[t]} : entry[l].val = i

\* What is read becomes the array of the entry of the thread's key.
Appends(t, bs) == buffers' = Append(bs, Loaded(t))
Enters(t) == /\ map' = map \cup {key[t]} /\ mtime' = mtime
             /\ entry' = [entry EXCEPT ![key[t]] =
                             [val |-> NewBuffer, mtime |-> TimeOfStat(t), fsize |-> stat[t].fsize]]

(* The content read belongs to its entry alone, and is the file's or       *)
(* stamped with an earlier time; what is not any other entry's is freed.   *)
LEMMA Stored ==
    ASSUME IInv, NEW t \in Threads, pc[t] \in Reading, Len(buffers) < MaxAllocs,
           NEW STATE bs, Kept(t, bs), Appends(t, bs), Enters(t)
    PROVE  /\ buffers' \in Seq(Arrays) /\ Len(buffers') <= MaxAllocs
           /\ entry' \in [Files -> [val : Nat, mtime : Stamps, fsize : Nat]]
           /\ Owned' /\ \A l \in map' : Entry(l)'
           /\ \A i \in DOMAIN buffers : i \in DOMAIN buffers'
                                        /\ (buffers'[i] = buffers[i] \/ buffers'[i].freed)
           /\ NewBuffer \in DOMAIN buffers' /\ NewBuffer > 0
           /\ ~Later(asked[t], buffers'[NewBuffer].mtime)
  <1>0. PICK k : k = key[t]
    BY Zenon
  <1> DEFINE n == NewBuffer
  <1>1. /\ Types /\ Serves(t) /\ Reads(t) /\ k \in Files /\ map \subseteq Files
        /\ mtime[k] \in Stamps /\ stat[t] \in [mtime : Stamps, fsize : Nat]
    <2>0. Types /\ Serves(t) /\ Reads(t) /\ Lists
      BY DEF IInv
    <2>1. Types /\ Serves(t) /\ Reads(t) /\ map \subseteq Files
      BY <2>0, KeysAreFiles
    <2>2. k \in Files
      BY <1>0, <2>1, Zenon DEF Serves, Reading, Rereading
    <2> QED BY <2>1, <2>2 DEF Types, Stamps
  <1>2. DOMAIN buffers = 1..Len(buffers) /\ Len(buffers) \in Nat
    <2>1. buffers \in Seq(Arrays)
      BY <1>1 DEF Types
    <2> QED BY <2>1
  <1>3. /\ Loaded(t) \in Arrays /\ ~Loaded(t).freed /\ Loaded(t).mtime = mtime[k]
        /\ size[k] = stat[t].fsize => Loaded(t).whole
    BY <1>0, <1>1, Zenon DEF Loaded, Arrays
  <1>4. n = Len(buffers) + 1 /\ n \in Nat /\ n > 0 /\ n \notin DOMAIN buffers
    BY <1>2 DEF NewBuffer
  <1>5. /\ buffers' \in Seq(Arrays) /\ Len(buffers') = n /\ buffers'[n] = Loaded(t)
        /\ \A i \in DOMAIN buffers : buffers'[i] = bs[i]
    <2>1. buffers' = Append(bs, Loaded(t)) /\ bs \in Seq(Arrays) /\ Len(bs) = Len(buffers)
      BY DEF Kept, Appends
    <2>2. /\ buffers' \in Seq(Arrays) /\ Len(buffers') = Len(bs) + 1
          /\ buffers'[Len(bs) + 1] = Loaded(t) /\ \A i \in 1..Len(bs) : buffers'[i] = bs[i]
      BY <1>3, <2>1, AppendFacts
    <2> QED BY <1>2, <1>4, <2>1, <2>2
  <1>6. DOMAIN buffers' = DOMAIN buffers \cup {n}
    <2>1. DOMAIN buffers' = 1..n
      BY <1>5
    <2> QED BY <1>2, <1>4, <2>1
  <1>7. Len(buffers') <= MaxAllocs
    BY <1>2, <1>4, <1>5, CacheAssumption
  <1> HIDE DEF n
  <1>8. /\ entry' \in [Files -> [val : Nat, mtime : Stamps, fsize : Nat]]
        /\ entry'[k] = [val |-> n, mtime |-> stat[t].mtime, fsize |-> stat[t].fsize]
        /\ \A l \in Files : l # k => entry'[l] = entry[l]
    BY <1>0, <1>1, <1>4 DEF Types, TimeOfStat, Enters, n
  <1>9. \A l \in map : Entry(l)
    BY DEF IInv
  <1>10. Entry(k)'
    <2>1. entry'[k].val = n /\ entry'[k].mtime = stat[t].mtime
      BY <1>8
    <2>2. ~Later(stat[t].mtime, mtime[k]) /\ (stat[t].mtime = mtime[k] => size[k] = stat[t].fsize)
      BY <1>0, <1>1 DEF Reads
    <2>3. Later(mtime[k], stat[t].mtime) \/ stat[t].mtime = mtime[k]
      BY <1>1, <2>2, LaterFacts, Zenon
    <2>4. /\ n \in DOMAIN buffers' /\ n > 0 /\ ~buffers'[n].freed
          /\ buffers'[n].mtime = mtime[k] /\ (size[k] = stat[t].fsize => buffers'[n].whole)
      BY <1>3, <1>4, <1>5, <1>6, Zenon
    <2>5. \/ Later(mtime[k], stat[t].mtime)
          \/ buffers'[n].mtime = mtime[k] /\ buffers'[n].whole
      BY <2>2, <2>3, <2>4, Zenon
    <2>6. mtime' = mtime
      BY DEF Enters
    <2> QED BY <2>1, <2>2, <2>4, <2>5, <2>6, Zenon DEF Entry
  <1>11. ASSUME NEW l \in map, l # k PROVE Entry(l)' /\ entry'[l].val # n
    <2>1. entry'[l] = entry[l] /\ Entry(l)
      BY <1>1, <1>8, <1>9, <1>11, Zenon
    <2>2. entry[l].val \in DOMAIN buffers
      BY <2>1 DEF Entry
    <2>3. bs[entry[l].val] = buffers[entry[l].val]
      BY <1>0, <1>11, <2>1, <2>2, Zenon DEF Kept, Entry
    <2>4. mtime' = mtime
      BY Zenon DEF Enters
    <2> QED BY <1>4, <1>5, <1>6, <2>1, <2>2, <2>3, <2>4, Zenon DEF Entry
  <1>12. Owned'
    <2>1. ASSUME NEW i \in DOMAIN buffers'
          PROVE  buffers'[i].freed \/ \E l \in map' : entry'[l].val = i
      <3>1. CASE i = n
        <4>1. k \in map'
          BY <1>0, Zenon DEF Enters
        <4>2. entry'[k].val = n
          BY <1>8
        <4> QED BY <3>1, <4>1, <4>2, Zenon
      <3>2. CASE i \in DOMAIN buffers
        BY <1>0, <1>1, <1>5, <1>8, <3>2, Zenon DEF Kept, Enters
      <3> QED BY <1>6, <3>1, <3>2
    <2>2. ASSUME NEW a \in map', NEW b \in map', entry'[a].val = entry'[b].val PROVE a = b
      <3>1. entry'[k].val = n
        BY <1>8
      <3>2. CASE a # k /\ b # k
        <4>1. a \in map /\ b \in map
          BY <1>0, <2>2, <3>2, Zenon DEF Enters
        <4>2. entry[a].val = entry[b].val
          BY <1>1, <1>8, <2>2, <3>2, <4>1
        <4>3. Owned
          BY DEF IInv
        <4> QED BY <4>1, <4>2, <4>3 DEF Owned
      <3> QED BY <1>0, <1>11, <2>2, <3>1, <3>2, Zenon DEF Enters
    <2> QED BY <2>1, <2>2 DEF Owned
  <1>13. ~Later(asked[t], buffers'[n].mtime)
    BY <1>0, <1>1, <1>3, <1>5, Zenon DEF Serves, Reading, Rereading
  <1>14. \A l \in map' : Entry(l)'
    BY <1>0, <1>10, <1>11, Zenon DEF Enters
  <1>15. \A i \in DOMAIN buffers : i \in DOMAIN buffers'
                                   /\ (buffers'[i] = buffers[i] \/ buffers'[i].freed)
    BY <1>5, <1>6 DEF Kept
  <1> QED
    BY <1>4, <1>5, <1>6, <1>7, <1>8, <1>12, <1>13, <1>14, <1>15, Zenon DEF n

(* Freeing the old array of an entry frees that of no other entry.         *)
LEMMA OldIsFreed ==
    ASSUME IInv, NEW t \in Threads, key[t] \in map
    PROVE  Kept(t, Free(entry[key[t]].val))
  <1> DEFINE b == entry[key[t]].val
  <1>1. buffers \in Seq(Arrays) /\ b \in DOMAIN buffers /\ Owned
    BY Zenon DEF IInv, Types, Entry
  <1>2. /\ Free(b) \in Seq(Arrays) /\ Len(Free(b)) = Len(buffers) /\ Free(b)[b].freed
        /\ \A j \in DOMAIN buffers : j # b => Free(b)[j] = buffers[j]
    BY <1>1, FreeFacts
  <1>3. ASSUME NEW i \in DOMAIN buffers
        PROVE  \/ Free(b)[i] = buffers[i] /\ (buffers[i].freed
                                              \/ \E l \in map \ {key[t]} : entry[l].val = i)
               \/ Free(b)[i].freed /\ ~\E l \in map \ {key[t]} : entry[l].val = i
    <2>1. CASE i = b
      <3>1. ~\E l \in map \ {key[t]} : entry[l].val = i
        BY <1>1, <2>1 DEF Owned
      <3> QED BY <1>2, <2>1, <3>1, Zenon
    <2>2. CASE i # b
      <3>1. buffers[i].freed \/ \E l \in map \ {key[t]} : entry[l].val = i
        BY <1>1, <2>2 DEF Owned
      <3> QED BY <1>2, <2>2, <3>1, Zenon
    <2> QED BY <2>1, <2>2, Zenon
  <1> QED BY <1>2, <1>3, Zenon DEF Kept

(* After a read, done under the mutex, no thread is between stat and read. *)
LEMMA AfterRead ==
    ASSUME IInv, NEW t \in Threads, pc[t] \in Reading,
           pc' = [pc EXCEPT ![t] = "args"], UNCHANGED <<key, asked, mtime>>
    PROVE  \A u \in Threads : /\ Serves(u)' /\ Reads(u)'
                              /\ pc'[u] = "idle" => pc[u] = "idle"
  <1> TAKE u \in Threads
  <1>1. IF u = t THEN pc'[u] = "args" ELSE pc'[u] = pc[u]
    BY DEF IInv, Types
  <1>2. u # t => pc[u] \notin Reading
    BY Zenon DEF IInv, Reads
  <1>3. Serves(u)'
    BY <1>1, Zenon DEF IInv, Serves, Reading, Rereading
  <1>4. Reads(u)'
    BY <1>1, <1>2, Zenon DEF Reads, Reading, Rereading
  <1> QED BY <1>1, <1>3, <1>4

(* The rest of an expired getValue frees the old array of the entry only.  *)
LEMMA RereadIInv ==
    ASSUME IInv, NEW t \in Threads, Reread(t)
    PROVE  IInv'
  <1>1. CASE ~ReadsAll(t)
    <2>1. Aborts(t) /\ stat' = [stat EXCEPT ![t] = NoStat]
          /\ UNCHANGED <<fileVars, key, fsize, asked, old>>
      BY <1>1, Zenon DEF Reread
    <2> QED BY <2>1, AbortsIInv, Zenon
  <1>2. CASE ReadsAll(t)
    <2> DEFINE b == entry[key[t]].val
    <2>1. /\ pc[t] \in Rereading /\ pc[t] \in Reading /\ Len(buffers) < MaxAllocs
          /\ buffers' = Append(Free(b), Loaded(t))
          /\ entry' = [entry EXCEPT ![key[t]] =
                          [val |-> NewBuffer, mtime |-> TimeOfStat(t), fsize |-> stat[t].fsize]]
          /\ lock' = Null /\ Returns(t, NewBuffer) /\ UNCHANGED <<map, list, recent>>
          /\ stat' = [stat EXCEPT ![t] = NoStat]
          /\ UNCHANGED <<exists, mtime, size, key, fsize, asked, old>>
      BY <1>2, Zenon DEF Reread, OldFreed, fileVars, Rereading, Reading, Aborts
    <2>2. key[t] \in map /\ Entry(key[t]) /\ buffers \in Seq(Arrays)
      BY <2>1, Zenon DEF IInv, Reads, Types
    <2>5. Kept(t, Free(b))
      BY <2>2, OldIsFreed
    <2>6. Appends(t, Free(b)) /\ Enters(t) /\ map' = map \cup {key[t]}
      BY <2>1, <2>2, Zenon DEF Appends, Enters
    <2>7. /\ buffers' \in Seq(Arrays) /\ Len(buffers') <= MaxAllocs
          /\ entry' \in [Files -> [val : Nat, mtime : Stamps, fsize : Nat]]
          /\ Owned' /\ \A l \in map' : Entry(l)'
          /\ \A i \in DOMAIN buffers : i \in DOMAIN buffers'
                                       /\ (buffers'[i] = buffers[i] \/ buffers'[i].freed)
          /\ NewBuffer \in DOMAIN buffers' /\ NewBuffer > 0
          /\ ~Later(asked[t], buffers'[NewBuffer].mtime)
      BY <2>1, <2>5, <2>6, Stored, Zenon
    <2>8. NewBuffer \in Nat /\ NewBuffer # 0
      BY <2>2 DEF NewBuffer
    <2>9. pc' = [pc EXCEPT ![t] = "args"] /\ (val' = val \/ val' = [val EXCEPT ![t] = NewBuffer])
      <3>1. NewBuffer # 0 /\ Returns(t, NewBuffer)
        BY <2>1, <2>8, Zenon
      <3>2. CASE pc[t] \in {"first", "reread first"} /\ UNCHANGED val
                 /\ pc' = [pc EXCEPT ![t] = IF NewBuffer = 0 THEN "set" ELSE "args"]
        BY <3>1, <3>2, Zenon
      <3>3. CASE pc' = [pc EXCEPT ![t] = "args"] /\ val' = [val EXCEPT ![t] = NewBuffer]
        BY <3>3
      <3> QED BY <3>1, <3>2, <3>3, Zenon DEF Returns
    <2>10. Types'
      <3>1. pc' \in [Threads -> Places] /\ val' \in [Threads -> Nat \cup {NotYet}]
        BY <2>8, <2>9, Zenon DEF IInv, Types, Places
      <3>2. stat' \in [Threads -> [mtime : Stamps, fsize : Nat]]
        BY <2>1, Zenon DEF IInv, Types, NoStat, Stamps
      <3> QED BY <2>1, <2>7, <3>1, <3>2, Zenon DEF IInv, Types
    <2>11. Lists' /\ ~old'
      BY <2>1, Zenon DEF IInv, Lists
    <2>12. \A u \in Threads : Serves(u)' /\ Reads(u)' /\ (pc'[u] = "idle" => pc[u] = "idle")
      BY <2>1, <2>9, AfterRead, Zenon
    <2>13. ASSUME NEW u \in Threads PROVE Holds(u)'
      <3>1. val'[u] = val[u] \/ (u = t /\ val'[u] = NewBuffer)
        BY <2>9 DEF IInv, Types
      <3>2. CASE val'[u] = val[u]
        BY <2>1, <2>7, <2>12, <3>2, HoldsOn, Zenon DEF IInv
      <3>3. CASE u = t /\ val'[u] = NewBuffer
        <4>1. pc'[u] # "idle" /\ asked'[u] = asked[t]
          BY <2>1, <2>9, <3>3, Zenon DEF IInv, Types
        <4> QED BY <2>7, <3>3, <4>1, Zenon DEF Holds
      <3> QED BY <3>1, <3>2, <3>3
    <2> QED BY <2>7, <2>10, <2>11, <2>12, <2>13, Zenon DEF IInv
  <1> QED BY <1>1, <1>2

(* The rest of setValue adds an entry with an array of its own.            *)
LEMMA LoadIInv ==
    ASSUME IInv, NEW t \in Threads, Load(t)
    PROVE  IInv'
  <1>1. CASE ~ReadsAll(t)
    <2>1. Aborts(t) /\ stat' = [stat EXCEPT ![t] = NoStat]
          /\ UNCHANGED <<fileVars, key, fsize, asked, old>>
      BY <1>1, Zenon DEF Load
    <2> QED BY <2>1, AbortsIInv, Zenon
  <1>2. CASE ReadsAll(t)
    <2>1. /\ pc[t] = "load" /\ pc[t] \in Reading /\ Len(buffers) < MaxAllocs
          /\ buffers' = Append(buffers, Loaded(t))
          /\ entry' = [entry EXCEPT ![key[t]] =
                          [val |-> NewBuffer, mtime |-> TimeOfStat(t), fsize |-> stat[t].fsize]]
          /\ list' = <<key[t]>> \o list /\ map' = map \cup {key[t]} /\ recent' = Used(key[t])
          /\ lock' = Null /\ pc' = [pc EXCEPT ![t] = "args"]
          /\ stat' = [stat EXCEPT ![t] = NoStat]
          /\ UNCHANGED <<exists, mtime, size, key, fsize, asked, old, val>>
      BY <1>2, Zenon DEF Load, fileVars, Rereading, Reading, Aborts
    <2>2. key[t] \in Files \ map /\ Len(list) < Capacity /\ buffers \in Seq(Arrays)
      BY <2>1, Zenon DEF IInv, Reads, Serves, Types
    <2>3. Kept(t, buffers) /\ Appends(t, buffers) /\ Enters(t)
      <3>1. \A i \in DOMAIN buffers : buffers[i].freed \/ \E l \in map \ {key[t]} : entry[l].val = i
        BY <2>2, Zenon DEF IInv, Owned
      <3> QED BY <2>1, <2>2, <3>1, Zenon DEF Kept, Appends, Enters
    <2>4. /\ buffers' \in Seq(Arrays) /\ Len(buffers') <= MaxAllocs
          /\ entry' \in [Files -> [val : Nat, mtime : Stamps, fsize : Nat]]
          /\ Owned' /\ \A l \in map' : Entry(l)'
          /\ \A i \in DOMAIN buffers : i \in DOMAIN buffers'
                                       /\ (buffers'[i] = buffers[i] \/ buffers'[i].freed)
      BY <2>1, <2>3, Stored, Zenon
    <2>5. Types'
      <3>1. pc' \in [Threads -> Places]
        BY <2>1, Zenon DEF IInv, Types, Places
      <3>2. stat' \in [Threads -> [mtime : Stamps, fsize : Nat]]
        BY <2>1, Zenon DEF IInv, Types, NoStat, Stamps
      <3> QED BY <2>1, <2>4, <3>1, <3>2, Zenon DEF IInv, Types
    <2>6. Lists' /\ ~old'
      BY <2>1, <2>2, ListsLoaded, Zenon DEF IInv
    <2>7. \A u \in Threads : Serves(u)' /\ Reads(u)' /\ (pc'[u] = "idle" => pc[u] = "idle")
      BY <2>1, AfterRead, Zenon
    <2>8. \A u \in Threads : Holds(u)'
      BY <2>1, <2>4, <2>7, HoldsOn, Zenon DEF IInv
    <2> QED BY <2>4, <2>5, <2>6, <2>7, <2>8, Zenon DEF IInv
  <1> QED BY <1>1, <1>2

(* The part of setValue before stat drops one entry at most, with its      *)
(* array, and leaves room for the new one.                                 *)
LEMMA SetValueIInv ==
    ASSUME IInv, NEW t \in Threads, SetValue(t)
    PROVE  IInv'
  <1> DEFINE k == key[t]
             last == list[Len(list)]
  <1>1. /\ pc[t] = "set" /\ lock = Null /\ k \in Files
        /\ UNCHANGED <<exists, mtime, size, key, val, fsize, asked, old, entry, recent>>
    BY Zenon DEF SetValue, fileVars, cacheVars, IInv, Serves
  <1>2. \A u \in Threads : pc[u] \notin Reading
    BY <1>1, CacheAssumption, Zenon DEF IInv, Reads
  <1>3. Types /\ buffers \in Seq(Arrays) /\ Len(buffers) \in Nat /\ DOMAIN buffers = 1..Len(buffers)
    BY DEF IInv, Types
  <1>4. \/ UNCHANGED <<map, list, buffers>> /\ (k \in map \/ ~Full)
        \/ /\ Full /\ k \notin map /\ map' = map \ {last} /\ list' = SubSeq(list, 1, Len(list) - 1)
           /\ buffers' = Free(entry[last].val)
    BY Zenon DEF SetValue, cacheVars
  <1>5. \/ \E p \in {"args", "aborted"} : pc' = [pc EXCEPT ![t] = p] /\ UNCHANGED <<lock, stat>>
        \/ /\ k \notin map /\ lock' = t /\ stat' = [stat EXCEPT ![t] = StatOf(k)]
           /\ pc' = [pc EXCEPT ![t] = "load"]
    BY Zenon DEF SetValue
  <1>6. /\ Lists' /\ Owned' /\ (\A l \in map' : Entry(l)') /\ map' \subseteq map
        /\ buffers' \in Seq(Arrays) /\ Len(buffers') <= MaxAllocs
        /\ \A i \in DOMAIN buffers : i \in DOMAIN buffers'
                                     /\ (buffers'[i] = buffers[i] \/ buffers'[i].freed)
        /\ k \notin map => Len(list') < Capacity
    <2>1. CASE UNCHANGED <<map, list, buffers>> /\ (k \in map \/ ~Full)
      <3>1. Lists' /\ Owned' /\ \A l \in map' : Entry(l)'
        BY <1>1, <2>1, Zenon DEF IInv, Lists, Owned, Entry
      <3>2. ~Full => Len(list) < Capacity
        BY CacheAssumption DEF IInv, Lists, Full
      <3> QED BY <1>3, <2>1, <3>1, <3>2 DEF Types
    <2>2. CASE /\ Full /\ k \notin map /\ map' = map \ {last}
               /\ list' = SubSeq(list, 1, Len(list) - 1) /\ buffers' = Free(entry[last].val)
      <3>1. Lists' /\ last \in map /\ Len(list') < Capacity
        BY <1>1, <2>2, ListsEvicted, Zenon DEF IInv
      <3>2. PICK e : e = last
        OBVIOUS
      <3>3. Entry(e) /\ entry[e].val \in DOMAIN buffers
        BY <3>1, <3>2, Zenon DEF IInv, Entry
      <3>4. /\ buffers' \in Seq(Arrays) /\ Len(buffers') = Len(buffers)
            /\ buffers'[entry[e].val].freed
            /\ \A j \in DOMAIN buffers : j # entry[e].val => buffers'[j] = buffers[j]
        BY <1>3, <2>2, <3>2, <3>3, FreeFacts, Zenon
      <3>5. DOMAIN buffers' = DOMAIN buffers
        BY <1>3, <3>4
      <3>6. e \in map /\ map' = map \ {e}
        BY <2>2, <3>1, <3>2
      <3> HIDE DEF last
      <3>7. ASSUME NEW l \in map' PROVE Entry(l)'
        <4>1. l \in map /\ l # e /\ Entry(l)
          BY <3>6, <3>7 DEF IInv
        <4>2. entry[l].val # entry[e].val
          BY <3>6, <4>1, Zenon DEF IInv, Owned
        <4>3. entry[l].val \in DOMAIN buffers /\ buffers'[entry[l].val] = buffers[entry[l].val]
          BY <3>4, <4>1, <4>2, Zenon DEF Entry
        <4> QED BY <1>1, <3>5, <4>1, <4>3, Zenon DEF Entry
      <3>8. Owned'
        <4>1. ASSUME NEW i \in DOMAIN buffers'
              PROVE  buffers'[i].freed \/ \E l \in map' : entry'[l].val = i
          BY <1>1, <3>4, <3>5, <3>6, Zenon DEF IInv, Owned
        <4>2. \A a, b \in map' : entry'[a].val = entry'[b].val => a = b
          BY <1>1, <3>6, Zenon DEF IInv, Owned
        <4> QED BY <4>1, <4>2 DEF Owned
      <3> QED BY <1>3, <3>1, <3>4, <3>5, <3>6, <3>7, <3>8, Zenon DEF Types
    <2> QED BY <1>4, <2>1, <2>2, Zenon
  <1>7. \A u \in Threads : pc'[u] = "idle" => pc[u] = "idle"
    BY <1>1, <1>5 DEF IInv, Types
  <1>8. \A u \in Threads : Holds(u)'
    BY <1>1, <1>6, <1>7, HoldsOn, Zenon DEF IInv
  <1>9. CASE \E p \in {"args", "aborted"} :
                pc' = [pc EXCEPT ![t] = p] /\ UNCHANGED <<lock, stat>>
    <2>1. PICK p \in {"args", "aborted"} : pc' = [pc EXCEPT ![t] = p] /\ UNCHANGED <<lock, stat>>
      BY <1>9, Zenon
    <2>2. pc' \in [Threads -> Places]
      BY <1>3, <2>1, Zenon DEF Types, Places
    <2>3. Types'
      BY <1>1, <1>3, <1>6, <2>1, <2>2, Zenon DEF Types
    <2>4. \A u \in Threads : pc'[u] = pc[u] \/ (u = t /\ pc'[u] \in {"args", "aborted"})
      BY <1>3, <2>1 DEF Types
    <2>5. \A u \in Threads : Serves(u)' /\ Reads(u)'
      BY <1>1, <1>2, <2>4, Zenon DEF IInv, Serves, Reads, Reading, Rereading
    <2> QED BY <1>1, <1>6, <1>8, <2>3, <2>5, Zenon DEF IInv
  <1>10. CASE /\ k \notin map /\ lock' = t /\ stat' = [stat EXCEPT ![t] = StatOf(k)]
              /\ pc' = [pc EXCEPT ![t] = "load"]
    <2>1. StatOf(k) \in [mtime : Stamps, fsize : Nat] /\ mtime[k] \in Stamps
      BY <1>1, <1>3, CacheAssumption, Zenon DEF StatOf, Types, Stamps
    <2>2. /\ pc' \in [Threads -> Places]
          /\ stat' \in [Threads -> [mtime : Stamps, fsize : Nat]]
      BY <1>3, <1>10, <2>1, Zenon DEF Types, Places
    <2>3. Types'
      BY <1>1, <1>3, <1>6, <1>10, <2>2, Zenon DEF Types
    <2>4. \A u \in Threads : IF u = t THEN pc'[u] = "load" ELSE pc'[u] = pc[u]
      BY <1>3, <1>10 DEF Types
    <2>5. \A u \in Threads : Serves(u)'
      BY <1>1, <2>4, Zenon DEF IInv, Serves
    <2>6. Reads(t)'
      <3>1. ~Later(mtime[k], mtime[k])
        BY <2>1, LaterFacts, Zenon
      <3>2. stat'[t].mtime = mtime[k] /\ stat'[t].fsize = size[k] /\ key'[t] = k
        BY <1>1, <1>3, <1>10, Zenon DEF StatOf, Types
      <3>3. k \notin map' /\ Len(list') < Capacity
        BY <1>6, <1>10, Zenon
      <3> HIDE DEF k
      <3> QED BY <1>1, <1>10, <2>4, <3>1, <3>2, <3>3, Zenon DEF Reads, Rereading
    <2>7. \A u \in Threads : Reads(u)'
      BY <1>2, <2>4, <2>6, Zenon DEF Reads
    <2> QED BY <1>1, <1>6, <1>8, <2>3, <2>5, <2>7, Zenon DEF IInv
  <1> QED BY <1>5, <1>9, <1>10

(* Every step, and a step that changes nothing, keeps the invariant.       *)
LEMMA NextIInv == IInv /\ [Next]_vars => IInv'
  <1> SUFFICES ASSUME IInv, [Next]_vars PROVE IInv'
    OBVIOUS
  <1>1. ASSUME NEW k \in Mutable, Remove(k) PROVE IInv'
    BY <1>1, RemoveIInv
  <1>2. ASSUME NEW k \in Mutable, NEW m \in Times, NEW n \in Sizes, Change(k, m, n) PROVE IInv'
    BY <1>2, ChangeIInv
  <1>3. ASSUME NEW t \in Threads, ThreadStep(t) PROVE IInv'
    BY <1>3, RequestIInv, GetValueIInv, RereadIInv, SetValueIInv, LoadIInv, GetSizeIInv, CopyIInv
    DEF ThreadStep
  <1>4. CASE UNCHANGED vars
    <2>1. /\ UNCHANGED <<exists, mtime, size>> /\ UNCHANGED cacheVars
          /\ UNCHANGED <<lock, pc, key, stat, val, fsize, asked, old>>
      BY <1>4 DEF vars, fileVars, threadVars
    <2>2. Types'
      BY <2>1, Zenon DEF IInv, Types, cacheVars
    <2> QED BY <2>1, <2>2, Unmoved
  <1> QED BY <1>1, <1>2, <1>3, <1>4 DEF Next

(* The invariant holds in every state of every behaviour.                  *)
LEMMA CacheInvariant == Spec => []IInv
  BY InitIInv, NextIInv, PTL DEF Spec

-----------------------------------------------------------------------------
(* cacheMap and cacheList hold the same keys in the order of use, and no   *)
(* more of them than the capacity, for any capacity, files and threads.    *)
THEOREM CacheMapMatchesList == Spec => []MapMatchesList
  <1>1. ASSUME IInv PROVE MapMatchesList
    <2>1. /\ list \in Seq(Files) /\ recent \in Seq(Files) /\ Len(list) \in Nat /\ Len(recent) \in Nat
          /\ DOMAIN list = 1..Len(list)
      BY <1>1 DEF IInv, Lists
    <2>2. list \in Bijection(1..Len(list), Range(list))
      BY <1>1, <2>1 DEF IInv, Lists, Bijection, Injection, Surjection, IsInjective, Range
    <2>3. ExistsBijection(1..Len(list), Range(list))
      BY <2>2 DEF ExistsBijection
    <2>4. Cardinality(Range(list)) = Len(list)
      BY <2>1, <2>3, FS_CountingElements
    <2>5. list = SubSeq(recent, 1, Len(list))
      <3> DEFINE s == SubSeq(recent, 1, Len(list))
      <3>1. s \in Seq(Files) /\ Len(s) = Len(list) /\ \A i \in 1..Len(list) : s[i] = recent[i]
        BY <1>1, <2>1 DEF IInv, Lists
      <3> HIDE DEF s
      <3>2. \A i \in 1..Len(list) : s[i] = list[i]
        BY <1>1, <3>1 DEF IInv, Lists
      <3>3. list = s
        BY <2>1, <3>1, <3>2
      <3> QED BY <3>3 DEF s
    <2> QED BY <1>1, <2>4, <2>5 DEF IInv, Lists, MapMatchesList
  <1> QED BY <1>1, CacheInvariant, PTL

(* Refreshing and evicting free each array once: the live ones are those   *)
(* of the entries, one each.                                               *)
THEOREM CacheBuffersAreOwned == Spec => []BuffersAreOwned
  <1>1. ASSUME IInv PROVE BuffersAreOwned
    BY <1>1 DEF IInv, Owned, Entry, BuffersAreOwned
  <1> QED BY <1>1, CacheInvariant, PTL

(* getValue finds every entry expired that is not its file's whole present *)
(* content, even if the file changed between stat and read.                *)
THEOREM CacheStaleIsDetected == Spec => []StaleIsDetected
  <1>1. ASSUME IInv PROVE StaleIsDetected
    <2> SUFFICES ASSUME NEW k \in map \cap exists,
                        \/ buffers[entry[k].val].mtime # mtime[k]
                        \/ ~buffers[entry[k].val].whole
                 PROVE  Expired(mtime[k], entry[k].mtime)
      BY Zenon DEF StaleIsDetected
    <2>1. Later(mtime[k], entry[k].mtime)
      BY <1>1, Zenon DEF IInv, Entry
    <2>2. mtime[k] \in Stamps /\ entry[k].mtime \in Stamps
      BY <1>1 DEF IInv, Types, Stamps
    <2> QED BY <2>1, <2>2, LaterFacts, Zenon
  <1> QED BY <1>1, CacheInvariant, PTL

(* No response is made of content older than the file was when the request *)
(* opened it, if it is made of live memory at all.                         *)
THEOREM CacheServedIsNotOld == Spec => []ServedIsNotOld
  BY CacheInvariant, PTL DEF IInv, ServedIsNotOld
=============================================================================
