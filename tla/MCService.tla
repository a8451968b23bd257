----------------------------- MODULE MCService -----------------------------
(***************************************************************************)
(* A small site for TLC: two servers, read from a configuration file, with *)
(* locations of every kind, a few files and one request of every kind.     *)
(***************************************************************************)
EXTENDS Service

T1(a)       == Text(<< <<a>> >>)
T2(a, b)    == Text(<< <<a>>, <<b>> >>)
T3(a, b, c) == Text(<< <<a>>, <<b>>, <<c>> >>)
T4(a, b, c, d) == Text(<< <<a>>, <<b>>, <<c>>, <<d>> >>)
D(t)        == << t, Delimiter(";") >>
B(t, body)  == << t, Delimiter("{") >> \o body \o << Delimiter("}") >>

MCNumbers ==
  "2" :> 2 @@ "80" :> 80 @@ "81" :> 81 @@ "301" :> 301 @@ "308" :> 308 @@
  "404" :> 404 @@ "1000000" :> 1000000

MCUriPaths ==
  << <<"/x/">> >>   :> Path(<<"", "x">>, TRUE)      @@
  << <<"/x/a/">> >> :> Path(<<"", "x", "a">>, TRUE) @@
  << <<"/r/">> >>   :> Path(<<"", "r">>, TRUE)      @@
  << <<"/q/">> >>   :> Path(<<"", "q">>, TRUE)      @@
  << <<"/w/">> >>   :> Path(<<"", "w">>, TRUE)      @@
  << <<"/up/">> >>  :> Path(<<"", "up">>, TRUE)     @@
  << <<"/">> >>     :> Path(<<"">>, TRUE)

ConfigurationFile ==
  B(T1("http"),
    D(T3("error_page", "404", "e")) \o
    B(T1("server"),
      D(T2("listen", "80")) \o D(T2("server_name", "m")) \o
      B(T2("location", "/x/"),
        D(T2("root", "d")) \o D(T4("index", "i", "j", "k")) \o
        D(T2("limit_except", "GET"))) \o
      B(T2("location", "/x/a/"),
        D(T2("root", "v")) \o D(T2("autoindex", "on"))) \o
      B(T2("location", "/w/"),
        D(T2("root", "z")) \o D(T2("autoindex", "on"))) \o
      B(T2("location", "/r/"), D(T3("return", "301", "/y/"))) \o
      B(T2("location", "/q/"), D(T3("return", "308", "/y/"))) \o
      B(T2("location", "/up/"),
        D(T2("root", "up")) \o D(T2("upload_folder", "up")) \o
        D(T2("client_max_body_size", "2")))) \o
    B(T1("server"),
      D(T2("listen", "80")) \o D(T2("listen", "81")) \o
      D(T2("server_name", "n"))))

(* The servers it describes.                                               *)
Site ==
  LET r == FoldLeft(ReadLexeme, EmptyReader, ConfigurationFile)
      w == FoldLeft(WalkToken, EmptyWalk(r.tokens),
                    [i \in 1 .. Len(r.tokens) - 1 |-> i])
  IN [i \in 1 .. r.serverId |->
        NewVirtualServer(w.tokens, i, HttpSettings(w.tokens))]

(* The same written down.                                                  *)
Level(ports, name) ==
  [DefaultSettings EXCEPT !.ports = ports, !.names = << Word(name) >>,
                          !.firstListenApply = FALSE, !.firstNameApply = FALSE,
                          !.pages = 404 :> Word("e")]

MainLevel  == Level(<<80>>, "m")
OtherLevel == Level(<<80, 81>>, "n")

Location(segs, server, values) ==
  [uri |-> Path(<< "" >> \o segs, TRUE),
   settings |-> [server EXCEPT !.value = values @@ @]]

MainLocations ==
  << Location(<<"x">>, MainLevel,
       "root" :> Word("d") @@ "index" :> << <<"i">>, <<"j">>, <<"k">> >> @@
       "limit_except" :> << <<"GET">> >>),
     Location(<<"x", "a">>, MainLevel,
       "root" :> Word("v") @@ "autoindex" :> Word("on")),
     Location(<<"w">>, MainLevel,
       "root" :> Word("z") @@ "autoindex" :> Word("on")),
     Location(<<"r">>, MainLevel, "return" :> << <<"301">>, <<"/y/">> >>),
     Location(<<"q">>, MainLevel, "return" :> << <<"308">>, <<"/y/">> >>),
     Location(<<"up">>, MainLevel,
       "root" :> Word("up") @@ "upload_folder" :> Word("up") @@
       "client_max_body_size" :> Word("2")),
     Location(<<>>, MainLevel, <<>>) >>

SiteServers ==
  << [id |-> 1, settings |-> MainLevel, ok |-> TRUE,
      locations |-> MainLocations],
     [id |-> 2, settings |-> OtherLevel, ok |-> TRUE,
      locations |-> << Location(<<>>, OtherLevel, <<>>) >>] >>

ASSUME SiteAssumption == SiteServers = Site

(* TLC keeps the value of SiteServers, but evaluates the definition that a *)
(* .cfg names for a constant at every use.                                 *)
MCServers == SiteServers

MCFiles ==
  <<>>              :> Dir    @@
  << "e" >>         :> "page" @@
  << "f" >>         :> "long" @@
  << "s" >>         :> "body" @@
  << "d" >>         :> Dir    @@
  << "d", "j" >>    :> Dir    @@
  << "d", "k" >>    :> "most" @@
  << "v" >>         :> Dir    @@
  << "z" >>         :> Dir    @@
  << "up" >>        :> Dir

MCChanges ==
  << "e" >>           :> "page" @@
  << "f" >>           :> "long" @@
  << "v" >>           :> Dir    @@
  << "d", "i" >>      :> "body" @@
  << "up", "n.bin" >> :> "most"

MCDenied == { <<"s">>, <<"z">> }

Query(name, ext) == [name |-> name, ext |-> ext]

R(method, path) ==
  [method |-> method, path |-> path, hostPort |-> 80, hostName |-> <<"m">>,
   clientPort |-> 80, length |-> 0, body |-> "", query |-> Query("", ""),
   error |-> 0]

Get(segs, slash) == R("GET", Path(<< "" >> \o segs, slash))

Post(query, length, body) ==
  [R("POST", Path(<<"", "up">>, TRUE)) EXCEPT !.query = query, !.length = length,
                                          !.body = body]

MCRequests ==
  { Get(<<"f">>, FALSE), Get(<<"f">>, TRUE), Get(<<"s">>, FALSE),
    Get(<<"z", "f">>, FALSE), Get(<<"w">>, TRUE), Get(<<"x">>, FALSE), Get(<<"x", "a">>, TRUE),
    Get(<<"x", "k">>, FALSE), Get(<<"e">>, FALSE), Get(<<"r">>, TRUE), Get(<<"q">>, TRUE),
    Get(<<"up", "n.bin">>, FALSE), Get(<<>>, TRUE),
    R("GET", Path(<<"">>, FALSE)), R("GET", Path(<<"f">>, FALSE)),
    [Get(<<"x">>, TRUE) EXCEPT !.hostPort = 82],
    [Get(<<"x">>, TRUE) EXCEPT !.hostPort = 81],
    [Get(<<"f">>, FALSE) EXCEPT !.hostName = <<"n">>],
    [Get(<<"f">>, FALSE) EXCEPT !.clientPort = 0],
    [Get(<<"f">>, FALSE) EXCEPT !.error = 400],
    Post(Query("n", ".bin"), 1, "body"), Post(Query("%6E", ""), 2, "more"),
    Post(Query("", ""), 0, ""), Post(Query("n", ".bin"), 3, "long"),
    Post(Query("n", ".bin"), -1, ""),
    R("POST", Path(<<"", "x">>, TRUE)),
    R("DELETE", Path(<<"", "up", "n.bin">>, FALSE)),
    R("DELETE", Path(<<"", "up">>, TRUE)) }

MCDecoded == "n" :> "n" @@ "%6E" :> "n"
MCSizes   == "" :> 0 @@ "body" :> 1 @@ "more" :> 2 @@ "page" :> 1096 @@
             "most" :> 1095 @@ "long" :> 2002

MCKnownCodes ==
  {200, 201, 204, 301, 302, 400, 403, 404, 405, 413, 500, 502, 504, 505}

LocationParts  == {"location"}
TraversalParts == {"../d"}
FolderNames    == {"up", "uploads"}
KnownSuffixes  == {".py"}
=============================================================================
