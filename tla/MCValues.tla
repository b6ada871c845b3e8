------------------------------ MODULE MCValues ------------------------------
(* The sequential components of the repository, side by side for TLC:      *)
(* running says which of them is called.  The others stay in an initial    *)
(* state.                                                                  *)
EXTENDS Buffer

CONSTANTS DEFAULT_SIZE, MaxSize, Numbers, MaxNodes,          \* m_vector, linkedlist
          Treed, MaxLen,                                     \* SearchTree
          Keys, CachedValues, CacheSize,                     \* prac LRUCache
          Chars, MaxText, Names, Params, Cases, Strings,     \* utils, http
          Bytes, MaxInput                                    \* algorithms

VARIABLES running,
          vec, elements,
          nodes, listed, answer,
          ring, head, tail, ringed, reply,
          root, meant, lost, dangling,
          entries, m, cursize, returned,
          url, plain, stamp, mtime,
          _headers, _params, _cookies, _version, _state, _content, last,
          input

vVars == <<vec, elements>>
lVars == <<nodes, listed, answer>>
dVars == <<ring, head, tail, ringed, reply>>
rVars == <<root, meant, lost, dangling>>
kVars == <<entries, m, cursize, returned>>
xVars == <<url, plain, stamp, mtime>>
hVars == <<_headers, _params, _cookies, _version, _state, _content, last>>
allVars == <<running, bufferVars, vVars, lVars, dVars, rVars, kVars, xVars, hVars, input>>

\* Dates that differ in one part only, and dates around the ends of months.
FirstDate == <<2020, 8, 30, 23, 59, 59>>
Dates == {FirstDate, <<2020, 8, 31, 22, 59, 59>>, <<2020, 8, 31, 23, 58, 59>>,
          <<2020, 8, 31, 23, 59, 58>>, <<2020, 8, 31, 23, 59, 59>>, <<2020, 9, 1, 0, 0, 0>>,
          <<2020, 10, 1, 0, 0, 0>>, <<2020, 12, 1, 0, 0, 0>>, <<2021, 1, 1, 0, 0, 0>>}

V == INSTANCE MVector WITH Values <- Numbers
L == INSTANCE LinkedList WITH Values <- Numbers, elements <- listed
D == INSTANCE DbLinkedList
       WITH Values <- Numbers, nodes <- ring, elements <- ringed, answer <- reply
R == INSTANCE SearchTree WITH Values <- Treed
K == INSTANCE LinkedCache
       WITH Values <- CachedValues, capacity <- CacheSize, nodes <- entries
X == INSTANCE Text
H == INSTANCE HttpFields WITH Keys <- Params, Values <- Strings
A == INSTANCE Algorithms WITH MaxLen <- MaxInput

Init ==
    /\ running \in {"Buffer", "m_vector", "linkedList", "dbLinkedList", "SearchTree",
                    "LRUCache", "utils", "http", "algorithms"}
    /\ BufferInit /\ L!Init /\ D!Init /\ K!Init /\ H!Init /\ A!Init
    /\ V!Init /\ (running # "m_vector" => elements = <<>>)
    /\ X!Init /\ (running # "utils" => stamp = FirstDate)
    /\ R!Init /\ (running # "SearchTree" => root = <<>>)

Next ==
    \/ /\ running = "Buffer" /\ BufferNext
       /\ UNCHANGED <<running, vVars, lVars, dVars, rVars, kVars, xVars, hVars, input>>
    \/ /\ running = "m_vector" /\ V!Next
       /\ UNCHANGED <<running, bufferVars, lVars, dVars, rVars, kVars, xVars, hVars, input>>
    \/ /\ running = "linkedList" /\ L!Next
       /\ UNCHANGED <<running, bufferVars, vVars, dVars, rVars, kVars, xVars, hVars, input>>
    \/ /\ running = "dbLinkedList" /\ D!Next
       /\ UNCHANGED <<running, bufferVars, vVars, lVars, rVars, kVars, xVars, hVars, input>>
    \/ /\ running = "SearchTree" /\ R!Next
       /\ UNCHANGED <<running, bufferVars, vVars, lVars, dVars, kVars, xVars, hVars, input>>
    \/ /\ running = "LRUCache" /\ K!Next
       /\ UNCHANGED <<running, bufferVars, vVars, lVars, dVars, rVars, xVars, hVars, input>>
    \/ /\ running = "utils" /\ X!Next
       /\ UNCHANGED <<running, bufferVars, vVars, lVars, dVars, rVars, kVars, hVars, input>>
    \/ /\ running = "http" /\ H!Next
       /\ UNCHANGED <<running, bufferVars, vVars, lVars, dVars, rVars, kVars, xVars, input>>
    \/ /\ running = "algorithms" /\ A!Next
       /\ UNCHANGED <<running, bufferVars, vVars, lVars, dVars, rVars, kVars, xVars, hVars>>

Spec == Init /\ [][Next]_allVars

---------------------------------------------------------------------------
(* m_vector is the sequence that its calls mean, and its searches find.    *)
VectorIsSequence == V!VectorIsSequence

(* The linked structures hold what their calls mean: linkedList and        *)
(* dbLinkedList read as sequences with no node lost or deleted twice,      *)
(* SearchTree stays in order and loses values in one known way only, and   *)
(* the list and the map of prac/LRUCache.h have the same nodes.            *)
LinksAreRight == /\ L!ListIsSequence /\ D!RingIsSequence
                 /\ R!TreeHoldsKeys
                 /\ K!LinksMatchMap

(* The cache of prac/LRUCache.h is a least-recently-used cache.            *)
ImplementsRecentCache == K!ImplementsRecentCache

(* URLDecode gives the text meant, dates compare as they follow each       *)
(* other, and headers, parameters and cookies are those set last.          *)
TextIsRight == X!DecodesWhatWasMeant /\ X!FreshUnlessModified /\ H!FieldsAreThoseSet

(* The sorts, common subsequences and base64 texts are the ones defined.   *)
AlgorithmsAreRight == A!AlgorithmsAreRight
=============================================================================
