--------------------------- MODULE MCCrawlContext ---------------------------
(* Constants of the CrawlContext run.                                      *)
EXTENDS CrawlContext

\* Separators wherever the syntax of URIs allows them, and in odd places.
MCUris ==
  [scheme : {"http", "foo", "HTTP"},
   username : {<<"a">>}, password : {<<>>, <<"a">>, <<":", "1">>},
   host : {<<"a">>}, port : {<<>>, <<"1">>, <<"1", "1">>},
   path : {<<>>, <<"/">>, <<"/", "a", ":">>, <<"/", "@", "a">>, <<"/", "@", "/">>},
   query : {<<>>, <<"a">>, <<"/", "?">>, <<":", "1">>, <<"@", ":">>,
            <<"@", "a", ":", "1", "1">>},
   fragment : {<<>>, <<"#", "a">>, <<"@", "/">>}]
  \cup
  [scheme : {"https"}, username : {<<>>}, password : {<<>>},
   host : {<<"a">>}, port : {<<>>, <<"1">>, <<"1", "1">>},
   path : {<<>>, <<"/">>, <<"/", "a", ":">>, <<"/", "@", "a">>, <<"/", "@", "/">>},
   query : {<<>>, <<"a">>, <<"/", "?">>, <<":", "1">>, <<"@", ":">>,
            <<"@", "a", ":", "1", "1">>},
   fragment : {<<>>, <<"#", "a">>, <<"@", "/">>}]

MCFetched ==
  [scheme : {"https"}, username : {<<>>}, password : {<<>>}, host : {<<"a">>},
   port : {<<>>}, path : {<<"/">>}, query : {<<>>}, fragment : {<<>>}]

\* Pieces of one, two and three octets, with bits on both sides of every cut.
MCChunks == {<<0>>, <<255, 1>>, <<7, 64, 200>>}
=============================================================================
