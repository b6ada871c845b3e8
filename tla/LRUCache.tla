------------------------------ MODULE LRUCache ------------------------------
(***************************************************************************)
(* LRUCache, the cache of file contents that the loop threads share, and   *)
(* the part of HttpServer::createResponse that uses it:                    *)
(*                                                                         *)
(*     if(!_cache.getValue(url)) _cache.setValue(url);                     *)
(*     std::string s(_cache.getValue(url), _cache.getSize(url));           *)
(*                                                                         *)
(* getValue and setValue hold the mutex, getSize does not, and the copy is *)
(* made after all of them; the order of the last two calls is unspecified. *)
(* Files change and vanish at any time, between stat and read, too.        *)
(***************************************************************************)
EXTENDS Integers, Sequences, FiniteSets, Functions

CONSTANTS
    Threads,        \* the loop threads
    Files,          \* the keys: paths under the web root
    Mutable,        \* the files that change and vanish
    Capacity,       \* entries the cache holds
    Times,          \* modification times a file may get: records of sec and nsec
    Sizes,          \* sizes a file may have
    MaxAllocs,      \* bound on the buffers allocated
    Null            \* nullptr, and nobody

ASSUME CacheAssumption ==
    /\ Mutable \subseteq Files
    /\ Capacity \in Nat \ {0}
    /\ Times \subseteq [sec : Nat, nsec : Nat]
    /\ Sizes \subseteq Nat
    /\ MaxAllocs \in Nat
    /\ Null \notin Threads \cup Files

VARIABLES
    exists,     \* the files that exist
    mtime,      \* their modification times, which identify their contents
    size,       \* their sizes
    map,        \* the keys of cacheMap
    list,       \* the keys of cacheList, in its order
    entry,      \* the CacheNode of a key of the list: val, mtime, fsize
    buffers,    \* the character arrays allocated: contents, length, freed
    lock,       \* who holds the mutex across a step, or Null
    pc, key,    \* of each thread: its place, the file it wants
    stat,       \* of each thread: what stat returned
    val, fsize, \* of each thread: what getValue and getSize returned
    asked,      \* history: the file's time when the thread opened it
    recent,     \* history: the files by their last use, the latest first
    old         \* history: a response had content older than the file it opened

fileVars == <<exists, mtime, size>>
cacheVars == <<map, list, entry, buffers, recent>>
threadVars == <<pc, key, stat, val, fsize, asked, old>>
vars == <<fileVars, cacheVars, lock, threadVars>>

Later(a, b) == a.sec > b.sec \/ (a.sec = b.sec /\ a.nsec > b.nsec)

Never == [sec |-> 0, nsec |-> 0]

NoStat == [mtime |-> Never, fsize |-> 0]

NotYet == -1    \* a call that has not returned

Init ==
    /\ exists = Files
    /\ \E m \in Times : mtime = [k \in Files |-> m]
    /\ \E n \in Sizes : size = [k \in Files |-> n]
    /\ map = {} /\ list = <<>>
    /\ entry = [k \in Files |-> [val |-> 0, mtime |-> Never, fsize |-> 0]]
    /\ buffers = <<>> /\ lock = Null /\ recent = <<>>
    /\ pc = [t \in Threads |-> "idle"] /\ key = [t \in Threads |-> Null]
    /\ stat = [t \in Threads |-> NoStat]
    /\ val = [t \in Threads |-> NotYet] /\ fsize = [t \in Threads |-> NotYet]
    /\ asked = [t \in Threads |-> Never] /\ old = FALSE

-----------------------------------------------------------------------------
(* The files                                                               *)

Change(k, m, n) ==
    /\ Later(m, mtime[k])
    /\ exists' = exists \cup {k}
    /\ mtime' = [mtime EXCEPT ![k] = m]
    /\ size' = [size EXCEPT ![k] = n]
    /\ UNCHANGED <<cacheVars, lock, threadVars>>

Remove(k) ==
    /\ exists' = exists \ {k}
    /\ UNCHANGED <<mtime, size, cacheVars, lock, threadVars>>

-----------------------------------------------------------------------------
(* The cache                                                               *)

Position(s, k) == CHOOSE i \in DOMAIN s : s[i] = k

(* The element at position i becomes the first.                            *)
ToFront(s, i) == [j \in DOMAIN s |-> IF j = 1 THEN s[i] ELSE IF j <= i THEN s[j - 1] ELSE s[j]]

StaysPut(k) == list

Spliced(k) == ToFront(list, Position(list, k))

Used(k) ==
    IF \E i \in DOMAIN recent : recent[i] = k
    THEN ToFront(recent, Position(recent, k)) ELSE <<k>> \o recent

Freed == [mtime |-> Never, len |-> 0, whole |-> FALSE, freed |-> TRUE]

Free(i) == [buffers EXCEPT ![i] = Freed]

OnlySeconds(now, cached) == now.sec > cached.sec

Expired(now, cached) == now.sec > cached.sec \/ now.nsec > cached.nsec

StatOf(k) == [mtime |-> mtime[k], fsize |-> size[k]]

(* A call of getValue returns v: the test of createResponse, or the value. *)
Returns(t, v) ==
    \/ /\ pc[t] \in {"first", "reread first"}
       /\ pc' = [pc EXCEPT ![t] = IF v = 0 THEN "set" ELSE "args"]
       /\ UNCHANGED val
    \/ /\ pc[t] \in {"args", "reread"}
       /\ pc' = [pc EXCEPT ![t] = "args"]
       /\ val' = [val EXCEPT ![t] = v]

(* getValue, up to its stat.                                               *)
GetValue(t) ==
    LET k == key[t] IN
    /\ pc[t] = "first" \/ (pc[t] = "args" /\ val[t] = NotYet)
    /\ lock = Null
    /\ \/ /\ k \notin map
          /\ Returns(t, 0)
          /\ UNCHANGED <<list, recent, lock, stat>>
       \/ /\ k \in map
          /\ list' = Spliced(k)
          /\ recent' = Used(k)
          /\ \/ /\ k \notin exists
                /\ Returns(t, 0)
                /\ UNCHANGED <<lock, stat>>
             \/ /\ k \in exists /\ ~Expired(mtime[k], entry[k].mtime)
                /\ Returns(t, entry[k].val)
                /\ UNCHANGED <<lock, stat>>
             \/ /\ k \in exists /\ Expired(mtime[k], entry[k].mtime)
                /\ lock' = t
                /\ stat' = [stat EXCEPT ![t] = StatOf(k)]
                /\ pc' = [pc EXCEPT ![t] = IF pc[t] = "first" THEN "reread first" ELSE "reread"]
                /\ UNCHANGED val
    /\ UNCHANGED <<fileVars, map, entry, buffers, key, fsize, asked, old>>

(* open and read give what stat promised.                                  *)
ReadsAll(t) == key[t] \in exists /\ size[key[t]] >= stat[t].fsize

(* What is read may be newer than what stat saw, and longer.               *)
Loaded(t) == [mtime |-> mtime[key[t]], len |-> stat[t].fsize, whole |-> size[key[t]] = stat[t].fsize,
              freed |-> FALSE]

TimeOfRead(t) == mtime[key[t]]

TimeOfStat(t) == stat[t].mtime

(* The assertion on the number of bytes read fails.                        *)
Aborts(t) ==
    /\ pc' = [pc EXCEPT ![t] = "aborted"]
    /\ UNCHANGED <<cacheVars, lock, val>>

NewBuffer == Len(buffers) + 1

KeepsOld(t) == buffers

OldFreed(t) == Free(entry[key[t]].val)

(* The rest of a getValue that found its entry expired.                    *)
Reread(t) ==
    /\ pc[t] \in {"reread first", "reread"}
    /\ \/ /\ ~ReadsAll(t)
          /\ Aborts(t)
       \/ /\ ReadsAll(t) /\ Len(buffers) < MaxAllocs
          /\ buffers' = Append(OldFreed(t), Loaded(t))
          /\ entry' = [entry EXCEPT ![key[t]] =
                           [val |-> NewBuffer, mtime |-> TimeOfStat(t), fsize |-> stat[t].fsize]]
          /\ lock' = Null
          /\ Returns(t, NewBuffer)
          /\ UNCHANGED <<map, list, recent>>
    /\ stat' = [stat EXCEPT ![t] = NoStat]
    /\ UNCHANGED <<fileVars, key, fsize, asked, old>>

FullTooLate == Len(list) > Capacity

Full == Len(list) = Capacity

(* setValue, up to its stat: the last entry makes room.                    *)
SetValue(t) ==
    LET k == key[t]
        last == list[Len(list)]
    IN
    /\ pc[t] = "set" /\ lock = Null
    /\ \/ /\ k \in map
          /\ pc' = [pc EXCEPT ![t] = "args"]
          /\ UNCHANGED <<cacheVars, lock, stat>>
       \/ /\ k \notin map
          /\ \/ /\ Full
                /\ map' = map \ {last}
                /\ list' = SubSeq(list, 1, Len(list) - 1)
                /\ buffers' = Free(entry[last].val)
             \/ /\ ~Full
                /\ UNCHANGED <<map, list, buffers>>
          /\ \/ /\ k \in exists
                /\ lock' = t
                /\ stat' = [stat EXCEPT ![t] = StatOf(k)]
                /\ pc' = [pc EXCEPT ![t] = "load"]
             \/ /\ k \notin exists
                /\ pc' = [pc EXCEPT ![t] = "aborted"]
                /\ UNCHANGED <<lock, stat>>
          /\ UNCHANGED <<entry, recent>>
    /\ UNCHANGED <<fileVars, key, val, fsize, asked, old>>

(* The rest of setValue.                                                   *)
Load(t) ==
    LET k == key[t] IN
    /\ pc[t] = "load"
    /\ \/ /\ ~ReadsAll(t)
          /\ Aborts(t)
       \/ /\ ReadsAll(t) /\ Len(buffers) < MaxAllocs
          /\ buffers' = Append(buffers, Loaded(t))
          /\ entry' = [entry EXCEPT ![k] =
                           [val |-> NewBuffer, mtime |-> TimeOfStat(t), fsize |-> stat[t].fsize]]
          /\ list' = <<k>> \o list
          /\ map' = map \cup {k}
          /\ recent' = Used(k)
          /\ lock' = Null
          /\ pc' = [pc EXCEPT ![t] = "args"]
          /\ UNCHANGED val
    /\ stat' = [stat EXCEPT ![t] = NoStat]
    /\ UNCHANGED <<fileVars, key, fsize, asked, old>>

(* getSize takes no lock.                                                  *)
GetSize(t) ==
    /\ pc[t] = "args" /\ fsize[t] = NotYet
    /\ fsize' = [fsize EXCEPT ![t] = IF key[t] \in map THEN entry[key[t]].fsize ELSE 0]
    /\ UNCHANGED <<fileVars, cacheVars, lock, pc, key, stat, val, asked, old>>

-----------------------------------------------------------------------------
(* createResponse                                                          *)

Request(t, k) ==
    /\ pc[t] = "idle" /\ k \in exists
    /\ pc' = [pc EXCEPT ![t] = "first"]
    /\ key' = [key EXCEPT ![t] = k]
    /\ asked' = [asked EXCEPT ![t] = mtime[k]]
    /\ UNCHANGED <<fileVars, cacheVars, lock, stat, val, fsize, old>>

(* The string is made of what the two calls returned.                      *)
Copyable(t) == val[t] # 0 /\ ~buffers[val[t]].freed /\ fsize[t] <= buffers[val[t]].len

Copy(t) ==
    /\ pc[t] = "args" /\ val[t] # NotYet /\ fsize[t] # NotYet
    /\ \/ /\ Copyable(t)
          /\ old' = (old \/ Later(asked[t], buffers[val[t]].mtime))
          /\ pc' = [pc EXCEPT ![t] = "idle"]
       \/ /\ ~Copyable(t)
          /\ pc' = [pc EXCEPT ![t] = "undefined"]
          /\ UNCHANGED old
    /\ key' = [key EXCEPT ![t] = Null] /\ asked' = [asked EXCEPT ![t] = Never]
    /\ val' = [val EXCEPT ![t] = NotYet] /\ fsize' = [fsize EXCEPT ![t] = NotYet]
    /\ UNCHANGED <<fileVars, cacheVars, lock, stat>>

-----------------------------------------------------------------------------
Running == \A t \in Threads : pc[t] \notin {"aborted", "undefined"}

ThreadStep(t) ==
    \/ \E k \in Files : Request(t, k)
    \/ GetValue(t) \/ Reread(t) \/ SetValue(t) \/ Load(t) \/ GetSize(t) \/ Copy(t)

Next ==
    /\ Running
    /\ \/ \E k \in Mutable : Remove(k) \/ \E m \in Times, n \in Sizes : Change(k, m, n)
       \/ \E t \in Threads : ThreadStep(t)

Spec == Init /\ [][Next]_vars

-----------------------------------------------------------------------------
TypeOK ==
    /\ exists \subseteq Files
    /\ mtime \in [Files -> Times] /\ size \in [Files -> Sizes]
    /\ map \subseteq Files
    /\ list \in Seq(Files) /\ recent \in Seq(Files)
    /\ entry \in [Files -> [val : Nat, mtime : Times \cup {Never}, fsize : Nat]]
    /\ buffers \in Seq([mtime : Times \cup {Never}, len : Nat, whole : BOOLEAN, freed : BOOLEAN])
    /\ Len(buffers) <= MaxAllocs
    /\ \A k \in map : entry[k].val \in DOMAIN buffers
    /\ lock \in Threads \cup {Null}
    /\ pc \in [Threads -> {"idle", "first", "reread first", "set", "load", "args", "reread",
                           "aborted", "undefined"}]
    /\ key \in [Threads -> Files \cup {Null}]
    /\ stat \in [Threads -> [mtime : Times \cup {Never}, fsize : Nat]]
    /\ old \in BOOLEAN
    /\ val \in [Threads -> Int] /\ fsize \in [Threads -> Int]
    /\ \A t \in Threads : val[t] > 0 => val[t] \in DOMAIN buffers

(* cacheMap and cacheList hold the same keys, each once, and no more of    *)
(* them than the capacity, and the list is in the order of use: what       *)
(* setValue drops from its end is what was not asked for longest.          *)
MapMatchesList ==
    /\ map = Range(list)
    /\ Len(list) = Cardinality(map)
    /\ Len(list) <= Capacity
    /\ list = SubSeq(recent, 1, Len(list))

(* Refreshing and evicting free each character array once: those not freed *)
(* are the ones of the entries, and no two entries share one.              *)
BuffersAreOwned ==
    /\ {i \in DOMAIN buffers : ~buffers[i].freed} = {entry[k].val : k \in map}
    /\ \A k, l \in map : entry[k].val = entry[l].val => k = l

(* An entry that is not the whole present content of its file, because the *)
(* file changed after it was read or between stat and read, is found       *)
(* expired by the next getValue.                                           *)
StaleIsDetected ==
    \A k \in map \cap exists :
        LET b == buffers[entry[k].val] IN
        b.mtime # mtime[k] \/ ~b.whole => Expired(mtime[k], entry[k].mtime)

(* A response has content at least as new as the file was when the request *)
(* opened it, whatever the other threads did, if its copy is made of live  *)
(* memory at all.                                                          *)
ServedIsNotOld == ~old
=============================================================================
