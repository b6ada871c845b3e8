--------------------------- MODULE MCHttpMessage ---------------------------
(* Instances of HttpMessage for TLC.                                       *)
EXTENDS HttpMessage

Request(line, headers, body) == [line |-> line, headers |-> headers, body |-> body]

Page == Line("GET", "page", "none", 11)
Form == Header("Content-Type", "form")
Close == Header("Connection", "close")

GetRequests ==
    {Request(Page, <<>>, <<>>),
     Request(Page, <<Header("If-Modified-Since", "fresh")>>, <<>>)}

AllRequests ==
    GetRequests \cup
    {Request(Line("GET", "missing", "none", 10), <<>>, <<>>),
     Request(Line("GET", "page", "bad", 11), <<>>, <<>>),
     Request(Line("UNKNOW", "page", "none", 11), <<>>, <<>>),
     Request(Line("GET", "page", "none", 0), <<>>, <<>>),
     Request(Page, <<Header("UNKNOW", "")>>, <<>>),
     Request(Page, <<Header("Host", "h"), Close>>, <<>>),
     Request(Page, <<Header("If-Modified-Since", "old")>>, <<>>),
     Request(Line("POST", "script", "none", 11), <<Form>>, <<Pairs, Pairs>>),
     Request(Line("POST", "script", "none", 11), <<Form>>, <<Junk>>)}
=============================================================================
