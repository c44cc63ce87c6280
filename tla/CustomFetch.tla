---------------------------- MODULE CustomFetch ----------------------------
(***************************************************************************)
(* The two HTTP clients, as pure functions: customFetch of                 *)
(* lib/api-client-react/src/custom-fetch.ts, what it sends for what its    *)
(* caller asks and what its caller gets for a response, and the request of *)
(* the SDK's OracleClient.  The text of a body is one of the kinds the     *)
(* code tells apart.                                                       *)
(*                                                                         *)
(* Left out: runtimes whose responses have no blob().                      *)
(***************************************************************************)
EXTENDS Integers

Methods == {"GET", "HEAD", "POST", "PATCH"}

(* A content type, by what isJsonMediaType and isTextMediaType make of it. *)
MediaTypes == {"none", "json", "text", "other"}

(* Object and Broken start with a brace or a bracket, and only Object is   *)
(* JSON; Scalar and the literal null are JSON too; Plain is no JSON.       *)
Texts == {"Empty", "Blank", "Object", "Scalar", "NullLiteral", "Broken", "Plain"}

Responses ==
    [status : {200, 204, 304, 404, 500}, contentLength0 : BOOLEAN,
     media : MediaTypes, body : Texts \cup {"NullBody"}]

ResponseTypes == {"json", "text", "blob", "auto"}

Ok(r) == r.status \in 200 .. 299

HasNoBody(r, method) ==
    \/ method = "HEAD"
    \/ r.status \in {204, 205, 304}
    \/ r.contentLength0
    \/ r.body = "NullBody"

IsJson(text) == text \in {"Object", "Scalar", "NullLiteral"}
LooksLikeJson(text) == text \in {"Object", "Broken"}
IsBlank(text) == text \in {"Empty", "Blank"}

(* What a caller is given, or what is thrown at it.                        *)
Null == [data |-> "null"]
Value(text) == [data |-> "value", of |-> text]
Raw(text) == [data |-> "text", of |-> text]
Blob(text) == [data |-> "blob", of |-> text]
ApiError(d) == [throws |-> "ApiError", data |-> d]
ResponseParseError == [throws |-> "ResponseParseError"]

ParseJsonBody(r) ==
    IF IsBlank(r.body) THEN Null
    ELSE IF IsJson(r.body) THEN Value(r.body) ELSE ResponseParseError

ParseErrorBodyStrictly(r, method) ==
    IF HasNoBody(r, method) THEN Null
    ELSE IF r.media = "other" THEN Blob(r.body)
    ELSE IF r.media = "json" \/ LooksLikeJson(r.body) THEN ParseJsonBody(r)
    ELSE Raw(r.body)
ParseErrorBody(r, method) ==
    IF HasNoBody(r, method) THEN Null
    ELSE IF r.media = "other" THEN Blob(r.body)
    ELSE IF IsBlank(r.body) THEN Null
    ELSE IF (r.media = "json" \/ LooksLikeJson(r.body)) /\ IsJson(r.body)
    THEN Value(r.body)
    ELSE Raw(r.body)

InferResponseType(r) ==
    CASE r.media = "json"           -> "json"
      [] r.media \in {"text", "none"} -> "text"
      [] r.media = "other"          -> "blob"

ParseSuccessBody(r, method, responseType) ==
    LET type == IF responseType = "auto" THEN InferResponseType(r) ELSE responseType
    IN  IF HasNoBody(r, method) THEN Null
        ELSE CASE type = "json" -> ParseJsonBody(r)
               [] type = "text" -> IF r.body = "Empty" THEN Null ELSE Raw(r.body)
               [] type = "blob" -> Blob(r.body)

customFetch(r, method, responseType) ==
    IF Ok(r) THEN ParseSuccessBody(r, method, responseType)
    ELSE ApiError(ParseErrorBody(r, method))

Throws(result) == "throws" \in DOMAIN result

-----------------------------------------------------------------------------
(* What the caller asks for: a path, an absolute URL as a text or an       *)
(* object, or a Request with a method and headers of its own; base and     *)
(* token are what setBaseUrl and setAuthTokenGetter left.                  *)
HeaderNames == {"content-type", "accept", "authorization"}
Asks ==
    [input : {"Path", "Absolute", "URL", "Request"}, own : SUBSET HeaderNames,
     ownMethod : {"GET", "POST"}, method : Methods \cup {"none"},
     body : {"NoBody", "Object", "Scalar", "Plain"}, headers : SUBSET HeaderNames,
     responseType : {"json", "auto"}, base : BOOLEAN,
     token : {"NoGetter", "NoToken", "Token"}]

ResolveMethod(q) ==
    CASE q.method # "none"                         -> q.method
      [] q.method = "none" /\ q.input = "Request" -> q.ownMethod
      [] OTHER                                     -> "GET"

(* Only a text can be relative: the URL of an object is absolute.          *)
ApplyBaseUrl(q) == IF q.base /\ q.input = "Path" THEN "AtBase" ELSE "AsGiven"

(* Where each header that is sent comes from; the caller's is set last.    *)
MergeHeaders(q) ==
    [h \in q.headers \cup (IF q.input = "Request" THEN q.own ELSE {}) |->
        IF h \in q.headers THEN "caller" ELSE "Request"]

Defaults(q) ==
    {h \in HeaderNames :
        \/ h = "content-type" /\ LooksLikeJson(q.body)
        \/ h = "accept" /\ q.responseType = "json"
        \/ h = "authorization" /\ q.token = "Token"}

SentHeaders(q) ==
    LET given == MergeHeaders(q)
    IN  [h \in DOMAIN given \cup Defaults(q) |->
            IF h \in DOMAIN given THEN given[h] ELSE "default"]

Sent(q) ==
    IF q.body # "NoBody" /\ ResolveMethod(q) \in {"GET", "HEAD"}
    THEN [throws |-> "TypeError"]
    ELSE [url |-> ApplyBaseUrl(q), method |-> ResolveMethod(q),
          headers |-> SentHeaders(q), body |-> q.body]

-----------------------------------------------------------------------------
(* OracleClient.request: every body is read as JSON.                       *)
OracleError(status) == [throws |-> "OracleError", status |-> status]

OracleRequest(r) ==
    IF ~IsJson(r.body) THEN OracleError(r.status)
    ELSE IF Ok(r) THEN Value(r.body)
    ELSE IF r.body = "NullLiteral" THEN [throws |-> "TypeError"]
    ELSE OracleError(r.status)

-----------------------------------------------------------------------------
(* An error status throws an ApiError that carries what the body says and  *)
(* never a parse error of its own, however broken the body; a parse error  *)
(* means a success that should be JSON and is not; and a JSON body reaches *)
(* the caller as its value.                                                *)
Understood(r, m, t) ==
    LET got == customFetch(r, m, t)
        asJson == t = "json" \/ (t = "auto" /\ r.media = "json")
        empty == HasNoBody(r, m) \/ IsBlank(r.body)
    IN  /\ ~Ok(r) => /\ Throws(got) /\ got.throws = "ApiError"
                     /\ ~Throws(got.data)
                     /\ r.media = "json" /\ ~empty /\ IsJson(r.body)
                           => got.data = Value(r.body)
        /\ Ok(r) /\ Throws(got) <=> Ok(r) /\ asJson /\ ~empty /\ ~IsJson(r.body)
        /\ Ok(r) /\ asJson /\ ~empty /\ IsJson(r.body) => got = Value(r.body)

Misunderstood ==
    {r \in Responses : \E m \in Methods, t \in ResponseTypes : ~Understood(r, m, t)}

(* What the caller said stands against a Request's own headers, and both   *)
(* against the defaults; the token goes to whoever was to have one; no     *)
(* body goes where none may, and none without its type if it is a JSON     *)
(* object.                                                                 *)
Obeyed(q) ==
    LET sent == Sent(q)
        own == IF q.input = "Request" THEN q.own ELSE {}
    IN  \/ Throws(sent) /\ q.body # "NoBody" /\ q.method \in {"GET", "HEAD", "none"}
        \/ /\ ~Throws(sent)
           /\ \A h \in q.headers : sent.headers[h] = "caller"
           /\ \A h \in own \ q.headers : sent.headers[h] = "Request"
           /\ q.token = "Token" => "authorization" \in DOMAIN sent.headers
           /\ sent.body # "NoBody" => sent.method \in {"POST", "PATCH"}
           /\ sent.body = "Object" => "content-type" \in DOMAIN sent.headers

Disobeyed == {q \in Asks : ~Obeyed(q)}

(* The caller of the oracle learns of an error status as an OracleError    *)
(* with that status; the one body that gets in between is a bare null.     *)
OracleMisreported ==
    {r \in Responses : ~Ok(r) /\ r.body # "NullLiteral" /\ OracleRequest(r) # OracleError(r.status)}
=============================================================================
