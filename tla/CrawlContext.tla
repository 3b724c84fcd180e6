---------------------------- MODULE CrawlContext ----------------------------
(***************************************************************************)
(* What one CrawlContext carries from a client to curl and back: the URI a *)
(* client wrote is parsed by from_json(), curl writes headers and body     *)
(* into the context, check_multi_info() adds the outcome, and to_json()    *)
(* makes the answer that the client decodes.                               *)
(***************************************************************************)
EXTENDS Uri, Base64, SequencesExt

CONSTANTS
  Letters,       \* characters that separate nothing
  Uris,          \* what clients write, as parts; see UriText
  Fetched,       \* those whose transfer is looked at
  IntDigits,     \* a port with more digits is too large for std::stoi
  Chunks,        \* pieces of a page as curl delivers them
  MaxChunk,      \* CURL_MAX_WRITE_SIZE
  MaxPage,       \* bound: curl delivers no more after this many octets
  kMaxBodySize,
  MaxRedirs      \* CURLOPT_MAXREDIRS

Characters == {":", "/", "?", "#", "@"} \cup Digits \cup Letters

Free(part, marks) == \A i \in 1 .. Len(part) : part[i] \notin marks

\* No part contains what ends it, and a host is no more than a name.
WellFormed(m) ==
  /\ {m.username, m.password, m.host, m.port, m.path, m.query, m.fragment}
       \subseteq Seq(Characters)
  /\ Free(m.username, {":"}) /\ Free(m.password, {"@"})
  /\ m.password # <<>> => m.username # <<>>
  /\ m.host # <<>> /\ Free(m.host, {":", "/", "@"})
  /\ \A i \in 1 .. Len(m.port) : m.port[i] \in Digits
  /\ m.path # <<>> => m.path[1] = "/"
  /\ Free(m.path, {"?", "#"}) /\ Free(m.query, {"#"})

ASSUME CrawlContextAssumption ==
  /\ \A m \in Uris : WellFormed(m)
  /\ IntDigits \in Nat /\ MaxChunk \in Nat /\ MaxPage \in Nat
  /\ kMaxBodySize \in Nat /\ MaxRedirs \in Nat
  /\ Chunks \subseteq Seq(Octets)
  /\ \A c \in Chunks : Len(c) \in 1 .. MaxChunk

VARIABLES
  meant,         \* what the client writes
  pc,            \* "new", "malformed" (JSON of a wrong type), "refused" (bad URI),
                 \* "created", "unresolved", "transferring", "done", "reported"
  uri,           \* CrawlContext::uri
  resp_headers,  \* the number of responses whose headers it holds
  resp_code,     \* which of these the code is of; -1 before the end
  resp_body,
  truncated,
  error_message, \* FALSE is the empty string
  arrived,       \* history: the page as curl delivered it
  answer         \* what to_json() tells the client of body, truncation and error

responseVars == <<resp_headers, resp_code, resp_body, truncated, error_message>>
vars == <<meant, pc, uri, responseVars, arrived, answer>>

UriParts == {"username", "password", "host", "port", "path", "query", "fragment"}

Answer(body) == [resp_body |-> body, truncated |-> truncated, error |-> error_message]

TypeOK ==
  /\ meant \in Uris
  /\ pc \in {"new", "malformed", "refused", "created", "unresolved", "transferring",
             "done", "reported"}
  /\ DOMAIN uri = UriParts
  /\ resp_headers \in 0 .. MaxRedirs + 1
  /\ resp_code \in -1 .. MaxRedirs + 1
  /\ resp_body \in Seq(Octets)
  /\ truncated \in BOOLEAN
  /\ error_message \in BOOLEAN
  /\ arrived \in Seq(Octets)
  /\ answer.truncated \in BOOLEAN /\ answer.error \in BOOLEAN

\* A part with what precedes or follows it, unless it is empty
Before(mark, part) == IF part = <<>> THEN <<>> ELSE <<mark>> \o part
After(part, mark) == IF part = <<>> THEN <<>> ELSE part \o <<mark>>

\* The text of a URI after "scheme://"
UriText(m) ==
  After(m.username \o Before(":", m.password), "@") \o m.host \o Before(":", m.port)
    \o m.path \o Before("?", m.query) \o Before("#", m.fragment)

DefaultPort(scheme) ==
  CASE scheme = "http" -> <<"80">>
    [] scheme = "https" -> <<"443">>
    [] OTHER -> <<"0">>

NoUri == [part \in UriParts |-> <<>>]

Init ==
  /\ meant \in Uris
  /\ pc = "new"
  /\ uri = NoUri
  /\ resp_headers = 0 /\ resp_code = -1 /\ resp_body = <<>>
  /\ truncated = FALSE /\ error_message = FALSE
  /\ arrived = <<>>
  /\ answer = Answer(<<>>)

-----------------------------------------------------------------------------
(* from_json(), and Uri::Uri                                               *)

ToUri(m) ==
  LET u == Parse(UriText(m))
  IN IF u.port = <<>> THEN [u EXCEPT !.port = DefaultPort(m.scheme)] ELSE u

\* Any member may be of a wrong type.  The scheme is in lower case.
FromJson ==
  /\ pc = "new"
  /\ \/ pc' = "malformed" /\ UNCHANGED uri
     \/ IF /\ meant.scheme # "HTTP" /\ IsUri(UriText(meant))
           /\ Len(Parse(UriText(meant)).port) <= IntDigits
        THEN pc' = "created" /\ uri' = ToUri(meant)
        ELSE pc' = "refused" /\ UNCHANGED uri
  /\ UNCHANGED <<meant, responseVars, arrived, answer>>

-----------------------------------------------------------------------------
(* The transfer, on the loop thread                                        *)

LookupFails ==
  /\ pc = "created"
  /\ pc' = "unresolved"
  /\ error_message' = TRUE
  /\ UNCHANGED <<meant, uri, resp_headers, resp_code, resp_body, truncated, arrived,
                 answer>>

StartTransfer ==
  /\ pc = "created"
  /\ meant \in Fetched
  /\ pc' = "transferring"
  /\ UNCHANGED <<meant, uri, responseVars, arrived, answer>>

\* write_header_cb: curl passes the headers of every response it follows, and
\* the body of the last one only.
WriteHeader ==
  /\ pc = "transferring"
  /\ arrived = <<>>
  /\ resp_headers <= MaxRedirs
  /\ resp_headers' = resp_headers + 1
  /\ UNCHANGED <<meant, pc, uri, resp_code, resp_body, truncated, error_message,
                 arrived, answer>>

\* Mutant: a chunk is dropped when the body would become too large with it.
WriteBodyFitting(c) ==
  /\ pc = "transferring"
  /\ resp_headers > 0 /\ Len(arrived) < MaxPage
  /\ arrived' = arrived \o c
  /\ IF Len(resp_body) + Len(c) > kMaxBodySize
     THEN truncated' = TRUE /\ UNCHANGED resp_body
     ELSE resp_body' = resp_body \o c /\ UNCHANGED truncated
  /\ UNCHANGED <<meant, pc, uri, resp_headers, resp_code, error_message, answer>>

\* write_body_cb
WriteBody(c) ==
  /\ pc = "transferring"
  /\ resp_headers > 0 /\ Len(arrived) < MaxPage
  /\ arrived' = arrived \o c
  /\ IF Len(resp_body) > kMaxBodySize
     THEN truncated' = TRUE /\ UNCHANGED resp_body
     ELSE resp_body' = resp_body \o c /\ UNCHANGED truncated
  /\ UNCHANGED <<meant, pc, uri, resp_headers, resp_code, error_message, answer>>

\* check_multi_info: curl's result, and the code of the last response, or 0.
TransferEnds ==
  /\ pc = "transferring"
  /\ pc' = "done"
  /\ resp_code' = resp_headers
  /\ error_message' \in IF resp_headers = 0 THEN {TRUE} ELSE BOOLEAN
  /\ UNCHANGED <<meant, uri, resp_headers, resp_body, truncated, arrived, answer>>

\* to_json(), for the result
ToJson ==
  /\ pc = "done"
  /\ pc' = "reported"
  /\ answer' = Answer(base64_encode(resp_body))
  /\ UNCHANGED <<meant, uri, responseVars, arrived>>

Next ==
  \/ FromJson
  \/ LookupFails
  \/ StartTransfer
  \/ WriteHeader
  \/ \E c \in Chunks : WriteBody(c)
  \/ TransferEnds
  \/ ToJson

Spec == Init /\ [][Next]_vars

-----------------------------------------------------------------------------
(* Properties                                                              *)

\* A URI is plain when a "/" precedes query and fragment, and no "@" comes after
\* the host.
Plain(m) ==
  /\ m.path # <<>> \/ m.query \o m.fragment = <<>>
  /\ ~ Contains(m.path \o m.query \o m.fragment, "@")

\* The parts of a plain URI are found as the client meant them, whatever ":",
\* "/" and "?" stand in password, path, query and fragment: the host that is
\* resolved is the one that curl, which parses the text again, connects to.  And
\* no URI is refused but for its scheme or its port, plain or not: where the
\* longest user does not fit, a shorter one does.  But one that is not plain may
\* be refused for the port it only seems to have.
ParsesWhatWasMeant ==
  /\ uri # NoUri /\ Plain(meant) =>
       uri = [username |-> meant.username, password |-> meant.password,
              host |-> meant.host,
              port |-> IF meant.port = <<>> THEN DefaultPort(meant.scheme)
                                            ELSE meant.port,
              path |-> IF meant.path = <<>> THEN <<"/">> ELSE meant.path,
              query |-> meant.query, fragment |-> meant.fragment]
  /\ IsUri(UriText(meant))
  /\ meant.scheme # "HTTP"
     /\ Len(IF Plain(meant) THEN meant.port ELSE Parse(UriText(meant)).port)
          <= IntDigits
     => pc # "refused"

\* The body is what arrived, or a beginning of it that is longer than the limit,
\* by less than a chunk, and marked as truncated.
TruncatedMeansCut ==
  /\ IsPrefix(resp_body, arrived)
  /\ truncated <=> Len(resp_body) < Len(arrived)
  /\ truncated => Len(resp_body) > kMaxBodySize
  /\ Len(resp_body) <= kMaxBodySize + MaxChunk

\* The client gets this body, byte for byte, and can tell from truncated and
\* error_message whether it is the whole page.
PageArrives ==
  pc = "reported" =>
    /\ base64_decode(answer.resp_body) = resp_body
    /\ Len(answer.resp_body) % 4 = 0
    /\ ~ answer.truncated => base64_decode(answer.resp_body) = arrived
    /\ resp_code = 0 => answer.error
=============================================================================
