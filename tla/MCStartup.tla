----------------------------- MODULE MCStartup -----------------------------
(***************************************************************************)
(* Files for TLC: five texts a user writes, and every text one edit away   *)
(* from the first two: a lexeme left out, written twice or exchanged, a    *)
(* delimiter too many.                                                     *)
(***************************************************************************)
EXTENDS Startup

T1(a)       == Text(<< <<a>> >>)
T2(a, b)    == Text(<< <<a>>, <<b>> >>)
T3(a, b, c) == Text(<< <<a>>, <<b>>, <<c>> >>)
D(t)        == << t, Delimiter(";") >>
B(t, body)  == << t, Delimiter("{") >> \o body \o << Delimiter("}") >>

MCNumbers ==
  [w \in {"0", "2", "80", "81", "82", "200", "301", "404", "65535", "65536",
          "1000000", "1000001"} |->
     CASE w = "0" -> 0 [] w = "2" -> 2 [] w = "80" -> 80 [] w = "81" -> 81
       [] w = "82" -> 82 [] w = "200" -> 200 [] w = "301" -> 301
       [] w = "404" -> 404 [] w = "65535" -> 65535 [] w = "65536" -> 65536
       [] w = "1000000" -> 1000000 [] w = "1000001" -> 1000001]

MCUriPaths ==
  << <<"/">> >>  :> Path(<<"">>, TRUE)      @@
  << <<"/x/">> >> :> Path(<<"", "x">>, TRUE)  @@
  << <<"/y/">> >> :> Path(<<"", "y">>, TRUE)  @@
  << <<"/x">> >> :> Path(<<"", "x">>, FALSE)

(* Two servers; the settings of each level once more or less often given.  *)
FirstFile ==
  B(T1("http"),
    D(T2("root", "a")) \o
    B(T1("server"),
      D(T2("listen", "80")) \o
      B(T2("location", "/x/"),
        D(T2("root", "b")) \o D(T3("error_page", "404", "e"))) \o
      D(T2("index", "c"))) \o
    D(T3("error_page", "404", "f")) \o
    B(T1("server"), D(T2("listen", "81")) \o D(T2("listen", "80"))))

(* Other values and names, the same location in two servers.               *)
SecondFile ==
  B(T1("http"),
    B(T1("server"),
      D(T2("server_name", "m")) \o D(T2("listen", "65535")) \o
      D(T3("return", "301", "/y/")) \o
      D(T2("client_max_body_size", "1000001")) \o
      B(T2("location", "/"), D(T2("limit_except", "GET")))) \o
    D(T2("client_max_body_size", "2")) \o D(T2("autoindex", "on")) \o
    B(T1("server"),
      D(T2("server_name", "m")) \o
      B(T2("location", "/"),
        D(T2("extension", ".py")) \o D(T2("upload_folder", "up")) \o
        D(T2("autoindex", "off")))))

(* One port too many, and shapes the grammar of the file does not forbid.  *)
ThirdFile ==
  B(T1("http"), B(T1("server"), D(T2("listen", "80")) \o D(T2("listen", "81"))
                                  \o D(T2("listen", "82"))))

FourthFile ==
  << Delimiter("}") >> \o
  B(T1("http"), D(T2("root", "a")) \o
    B(T1("server"), D(T2("listen", "80")) \o
      B(T1("server"), D(T2("root", "b")))))

(* A token too many.                                                       *)
FifthFile ==
  SubSeq(SecondFile, 1, 2) \o D(T2("index", "d"))
    \o SubSeq(SecondFile, 3, Len(SecondFile))

Texts ==
  { T1("http"), T1("server"), T2("location", "/x/"), T2("location", "/"),
    T2("root", "b"), T2("root", "../d"), T2("listen", "0"), T2("listen", "80"),
    T2("listen", "65536"), T2("server_name", "m"), T2("autoindex", "maybe"),
    T2("autoindex", "on"), T2("upload_folder", "none"), T2("host", "h"),
    T3("error_page", "200", "e"), T3("error_page", "404", "g"),
    T3("return", "301", "/y/"), T2("return", "2"), T2("limit_except", "PUT"),
    T2("limit_except", "POST"), T2("extension", ".c"),
    T2("client_max_body_size", "many"), T1("root"), T2("nothing", "a") }

Without(s)   == {RemoveAt(s, i) : i \in DOMAIN s}
Twice(s)     == {InsertAt(s, i, s[i]) : i \in DOMAIN s}
Exchanged(s) == {ReplaceAt(s, i, t) : t \in Texts,
                   i \in {i \in DOMAIN s : s[i].delim = ""}}
Inserted(s)  == {InsertAt(s, i, Delimiter(d)) : d \in Delimiters,
                   i \in 1 .. Len(s) + 1}

AllFiles ==
  {FirstFile, SecondFile, ThirdFile, FourthFile, FifthFile}
    \cup Without(FirstFile) \cup Twice(FirstFile)
    \cup Exchanged(FirstFile) \cup Inserted(FirstFile)
    \cup Without(SecondFile) \cup Exchanged(SecondFile)

LocationParts  == {"location"}
TraversalParts == {"../d"}
FolderNames    == {"up", "uploads"}
KnownSuffixes  == {".py", ".php"}
AllCalls       == StartupCalls
=============================================================================
