------------------------------ MODULE UrlParser -----------------------------
(***************************************************************************)
(* The URL parser of http_parser.c: the transition function shared by      *)
(* http_parser_execute and http_parser_parse_url, and the latter.          *)
(***************************************************************************)
EXTENDS HttpFormat

IS_ALPHA(ch) == ch.c \in {"a", "b"}
IS_NUM(ch)   == ch.c = "digit"
IS_USERINFO_CHAR(ch) == IS_ALPHA(ch) \/ IS_NUM(ch) \/ ch.c \in {":", "*", "."}
IS_URL_CHAR(ch) == IS_USERINFO_CHAR(ch) \/ ch.c \in {"/", "@"}

\* The next state for a character of a URL; s_dead refuses it.
parse_url_char(s, ch) ==
    CASE s = "s_req_spaces_before_url" /\ ch.c \in {"/", "*"} -> "s_req_path"
      [] s \in {"s_req_spaces_before_url", "s_req_schema"} /\ IS_ALPHA(ch) -> "s_req_schema"
      [] s = "s_req_schema" /\ ch.c = ":" -> "s_req_schema_slash"
      [] s = "s_req_schema_slash" /\ ch.c = "/" -> "s_req_schema_slash_slash"
      [] s = "s_req_schema_slash_slash" /\ ch.c = "/" -> "s_req_server_start"
      [] s = "s_req_server_with_at" /\ ch.c = "@" -> "s_dead"
      [] s \in {"s_req_server_with_at", "s_req_server_start", "s_req_server"} ->
            CASE ch.c = "/" -> "s_req_path"
              [] ch.c = "?" -> "s_req_query_string_start"
              [] ch.c = "@" -> "s_req_server_with_at"
              [] IS_USERINFO_CHAR(ch) -> "s_req_server"
              [] OTHER -> "s_dead"
      [] s = "s_req_path" /\ IS_URL_CHAR(ch) -> s
      [] s = "s_req_path" /\ ch.c = "?" -> "s_req_query_string_start"
      [] s \in {"s_req_query_string_start", "s_req_query_string"}
            /\ (IS_URL_CHAR(ch) \/ ch.c = "?") -> "s_req_query_string"
      [] s \in {"s_req_path", "s_req_query_string_start", "s_req_query_string"}
            /\ ch.c = "#" -> "s_req_fragment_start"
      [] s = "s_req_fragment_start" /\ ch.c = "#" -> s
      [] s \in {"s_req_fragment_start", "s_req_fragment"}
            /\ (IS_URL_CHAR(ch) \/ ch.c \in {"?", "#"}) -> "s_req_fragment"
      [] OTHER -> "s_dead"

\* The states of the characters of a URL, one after the other.
UrlStates(url) ==
    LET s[i \in 0..Len(url)] ==
            IF i = 0 THEN "s_req_spaces_before_url" ELSE parse_url_char(s[i - 1], url[i])
    IN [i \in 1..Len(url) |-> s[i]]

\* A field is the characters met in its states, which are consecutive; <<>>
\* when it is absent.  s are the states of the characters of the URL.
Field(url, s, states) ==
    FlattenSeq([i \in 1..Len(url) |-> IF s[i] \in states THEN <<url[i]>> ELSE <<>>])

\* http_parse_host, reduced to hosts without user, port or address literal:
\* a name of host characters.
HostOk(host) == \A i \in 1..Len(host) : IS_ALPHA(host[i]) \/ IS_NUM(host[i]) \/ host[i].c = "."

\* Whether the URL is taken, and its path and query, from the states of its characters.
Fields(url, s) ==
    LET host == Field(url, s, {"s_req_server", "s_req_server_with_at"}) IN
    [ok    |-> /\ \A i \in 1..Len(url) : s[i] # "s_dead"
               /\ Field(url, s, {"s_req_schema"}) # <<>> => host # <<>>
               /\ HostOk(host),
     path  |-> Field(url, s, {"s_req_path"}),
     query |-> Field(url, s, {"s_req_query_string"})]

http_parser_parse_url(url) == Fields(url, UrlStates(url))
=============================================================================
