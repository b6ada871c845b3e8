----------------------------- MODULE HttpFields -----------------------------
(* http_server/http.cpp: the tables of names, and the maps and fields of   *)
(* HttpRequest and HttpResponse, whose getters insert what they do not     *)
(* find.  A name is a text and the case it is written in: the maps of      *)
(* headers and parameters compare without case, the one of cookies does    *)
(* not.  One message stands for both classes: their common members have    *)
(* the same code.                                                          *)
EXTENDS Integers, Sequences, FiniteSets

CONSTANTS Names,     \* the texts used as names of headers
          Keys,      \* the texts used as names of parameters and cookies
          Cases, Values

VARIABLES _headers, _params, _cookies,   \* partial functions
          _version, _state, _content,
          last       \* history: what was set last under each name, the value got

vars == <<_headers, _params, _cookies, _version, _state, _content, last>>

http_headers ==
    {"Connection", "Date", "MIME-Version", "Trailer", "Transfer-Encoding", "Update",
     "Via", "Cache-Control", "Pragma", "Client-Ip", "Host", "User-Agent", "Accept",
     "Accept-Charset", "Accept-Encoding", "Accept-Language", "Authorization", "Cookie",
     "Upgrade-Insecure-Requests", "Sec-Fetch-User", "Sec-Fetch-Site", "Sec-Fetch-Mode",
     "Purpose", "If-Modified-Since", "Referer", "Origin", "Age", "Public", "Server",
     "Title", "Set-Cookie", "Expires", "Location", "Content-Base", "Content-Encoding",
     "Content-Language", "Content-Length", "Content-Location", "Content-MD5",
     "Content-Range", "Content-Type", "Last-Modified"}

Name(text, case) == [text |-> text, case |-> case]
ConvertHeaderToString(h) == Name(h, "capitals")
\* The key under which HEADERS finds a name of any case.
HEADERS == [s \in {ConvertHeaderToString(h).text : h \in http_headers} |-> s]
ConvertStringToHeader(s) == IF s.text \in DOMAIN HEADERS THEN HEADERS[s.text] ELSE "UNKNOW"

http_resp_state == {1, 100, 200, 304, 400, 403, 404, 500, 505}
ConvertRespStateToString(state) ==
    CASE state = 100 -> "Continue" [] state = 200 -> "OK" [] state = 304 -> "Not Modified"
      [] state = 400 -> "Bad Request" [] state = 403 -> "Forbidden" [] state = 404 -> "Not Found"
      [] state = 500 -> "Internal Server Error" [] state = 505 -> "HTTP Version Not Supported"
      [] OTHER -> "UNKNOW"

PutFirst(map, key, val) == [k \in DOMAIN map \cup {key} |->
                              IF k \in DOMAIN map THEN map[k] ELSE val]
\* map[key] = val, and map[key] as a value, which inserts "".
Put(map, key, val) == [k \in DOMAIN map \cup {key} |-> IF k = key THEN val ELSE map[k]]
Look(map, key) == IF key \in DOMAIN map THEN map ELSE Put(map, key, "")
Folded(name) == name.text
Empty == [k \in {} |-> ""]

\* The text toString writes: the status line only for a state that is known.
toString == [version |-> _version,
             status |-> IF _state = 1 THEN <<>>
                        ELSE <<_state, ConvertRespStateToString(_state)>>,
             headers |-> {<<ConvertHeaderToString(h), _headers[h]>> : h \in DOMAIN _headers},
             content |-> _content]
---------------------------------------------------------------------------
Init == /\ _headers = Empty /\ _params = Empty /\ _cookies = Empty
        /\ _version = "UNKNOW" /\ _state = 1 /\ _content = ""
        /\ last = [header |-> Empty, param |-> Empty, cookie |-> Empty, got |-> "", due |-> ""]

Noted(map, key, val) == [k \in DOMAIN map \cup {key} |-> IF k = key THEN val ELSE map[k]]
Was(map, key) == IF key \in DOMAIN map THEN map[key] ELSE ""
Got(v, due) == last' = [last EXCEPT !.got = v, !.due = due]

setHeader(key, val) ==
    /\ IF ConvertStringToHeader(key) = "UNKNOW" THEN UNCHANGED <<_headers, last>>
       ELSE /\ _headers' = Put(_headers, ConvertStringToHeader(key), val)
            /\ last' = [last EXCEPT !.header = Noted(@, Folded(key), val)]
    /\ UNCHANGED <<_params, _cookies, _version, _state, _content>>

getHeader(key) ==
    /\ IF ConvertStringToHeader(key) = "UNKNOW" THEN Got("UNKNOW", "UNKNOW") /\ UNCHANGED _headers
       ELSE /\ _headers' = Look(_headers, HEADERS[key.text])
            /\ Got(Look(_headers, HEADERS[key.text])[HEADERS[key.text]],
                   Was(last.header, Folded(key)))
    /\ UNCHANGED <<_params, _cookies, _version, _state, _content>>

setParam(key, val) ==
    /\ _params' = Put(_params, Folded(key), val)
    /\ last' = [last EXCEPT !.param = Noted(@, Folded(key), val)]
    /\ UNCHANGED <<_headers, _cookies, _version, _state, _content>>

getParam(key) ==
    /\ _params' = Look(_params, Folded(key))
    /\ Got(Look(_params, Folded(key))[Folded(key)], Was(last.param, Folded(key)))
    /\ UNCHANGED <<_headers, _cookies, _version, _state, _content>>

setCookie(key, val) ==
    /\ _cookies' = Put(_cookies, key, val)
    /\ last' = [last EXCEPT !.cookie = Noted(@, key, val)]
    /\ UNCHANGED <<_headers, _params, _version, _state, _content>>

getCookie(key) ==
    /\ _cookies' = Look(_cookies, key)
    /\ Got(Look(_cookies, key)[key], Was(last.cookie, key))
    /\ UNCHANGED <<_headers, _params, _version, _state, _content>>

\* The server fills the status line and the content of a response at once.
Fill(version, state, content) ==
    /\ _version' = version /\ _state' = state /\ _content' = content
    /\ UNCHANGED <<_headers, _params, _cookies, last>>

Next == \/ \E t \in Names, c \in Cases :
              getHeader(Name(t, c)) \/ \E v \in Values : setHeader(Name(t, c), v)
        \/ \E t \in Keys, c \in Cases :
              \/ getParam(Name(t, c)) \/ getCookie(Name(t, c))
              \/ \E v \in Values : setParam(Name(t, c), v) \/ setCookie(Name(t, c), v)
        \/ \E s \in http_resp_state : Fill("HTTP/1.1", s, "body")
Spec == Init /\ [][Next]_vars

---------------------------------------------------------------------------
(* In whichever case a header or a parameter is named, a getter returns    *)
(* what was set last, and toString writes each header that was set, once,  *)
(* under its own name and with its last value; the others it writes are    *)
(* the ones getHeader has inserted, without a value.                       *)
FieldsAreThoseSet ==
    /\ last.got = last.due
    /\ \A h \in DOMAIN last.header :
          {v \in toString.headers : v[1].text = h} = {<<Name(h, "capitals"), last.header[h]>>}
    /\ \A v \in toString.headers : v[1].text \in DOMAIN last.header \/ v[2] = ""
=============================================================================
