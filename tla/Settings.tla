------------------------------ MODULE Settings ------------------------------
(***************************************************************************)
(* What the directives of a configuration make of the settings of the     *)
(* servers and their locations (Directive.cpp, DefaultSettings.cpp,        *)
(* VirtualServer.cpp, LocationSettings.cpp).                               *)
(*                                                                         *)
(* A value is the sequence of words behind the name of the directive.  An  *)
(* exception is the field ok: what is done after it was thrown is of no    *)
(* consequence, because Startup exits.                                     *)
(***************************************************************************)
EXTENDS Configuration

CONSTANTS Numbers,           \* the decimal words and their numbers
          Traversals,        \* the words FileUtils::isValidName refuses
          Directories,       \* the directories opendir opens under www/
          Interpreters,      \* the extensions Data knows an interpreter for
          MaxBodySize        \* DEFAULT_MAX_BODY_SIZE, a decimal word

Word(w) == << <<w>> >>

Methods == {"GET", "POST", "DELETE"}

ValidHttpDirectives ==
  {"client_max_body_size", "autoindex", "index", "error_page", "root",
   "upload_folder"}

ValidServerDirectives ==
  ValidHttpDirectives \cup {"listen", "host", "server_name", "return"}

ValidLocationDirectives ==
  ValidHttpDirectives \cup {"return", "limit_except", "extension"}

UniqueDirectives ==
  {"client_max_body_size", "autoindex", "root", "limit_except", "extension",
   "upload_folder"}

(* The directives that give a setting its only value.                      *)
SingleValued == UniqueDirectives \cup {"index", "return"}

-----------------------------------------------------------------------------
(* Directive.                                                              *)

ValidNames(context) ==
  CASE context = "HTTP"     -> ValidHttpDirectives
    [] context = "SERVER"   -> ValidServerDirectives
    [] context = "LOCATION" -> ValidLocationDirectives
    [] OTHER                -> {}

(* A directive has a value and a name its context allows; a context token  *)
(* taken for a directive has neither.                                      *)
IsDirective(tokens, t) ==
  /\ Len(t.info) >= 2
  /\ t.path # <<>>
  /\ \E n \in ValidNames(tokens[Last(t.path)].context) : Head(t.info) = <<n>>

Directive(t) ==
  [name |-> Head(Head(t.info)), value |-> Tail(t.info), depth |-> Len(t.path)]

(* dirs holds the directives by their positions.  Of some names only one   *)
(* may be given.                                                           *)
IsDuplicatePresent(dirs) ==
  \E i, j \in DOMAIN dirs :
    /\ i < j
    /\ dirs[i].name = dirs[j].name
    /\ dirs[i].name \in UniqueDirectives

(* istringstream >> int reads the digits a word begins with.               *)
NumberOf(word) ==
  IF word # <<>> /\ Head(word) \in DOMAIN Numbers THEN Numbers[Head(word)]
  ELSE -1

(* The whole value is one number.                                          *)
IsNumber(value) ==
  \E w \in DOMAIN Numbers : value = Word(w)

IsValidName(word) ==
  word # <<>> /\ \A i \in DOMAIN word : word[i] \notin Traversals

AreValidNames(value) == \A i \in DOMAIN value : IsValidName(value[i])

(* What a directive with a single value accepts.                           *)
IsValidValue(name, value) ==
  CASE name \in {"root", "index"} -> AreValidNames(value)
    [] name = "return" ->
         Len(value) = 2 /\ NumberOf(value[1]) \in 100 .. 599
    [] name = "autoindex" -> value \in {Word("on"), Word("off")}
    [] name = "client_max_body_size" -> IsNumber(value)
    [] name = "limit_except" ->
         \A i \in DOMAIN value : \E m \in Methods : value[i] = <<m>>
    [] name = "extension" ->
         \A i \in DOMAIN value : \E e \in Interpreters : value[i] = <<e>>
    [] name = "upload_folder" -> \E d \in Directories : value = Word(d)

(* A body size above the largest one supported is lowered to it.           *)
Supported(name, value) ==
  IF name = "client_max_body_size" /\ NumberOf(value[1]) > Numbers[MaxBodySize]
  THEN Word(MaxBodySize)
  ELSE value

-----------------------------------------------------------------------------
(* DefaultSettings.                                                        *)

PortNumbers == 1 .. 65535
DefaultPort == 8080
DefaultName == Word("localhost")

DefaultValue(name) ==
  CASE name = "root"                 -> Word("")
    [] name = "index"                -> << <<"index">>, <<"index.html">> >>
    [] name = "autoindex"            -> Word("off")
    [] name = "client_max_body_size" -> Word(MaxBodySize)
    [] name = "limit_except"         -> << <<"GET">>, <<"POST">>, <<"DELETE">> >>
    [] name = "upload_folder"        -> Word("uploads")
    [] OTHER                         -> <<>>

DefaultSettings ==
  [ok |-> TRUE, names |-> <<DefaultName>>, ports |-> <<DefaultPort>>,
   firstNameApply |-> TRUE, firstListenApply |-> TRUE, pages |-> <<>>,
   value |-> [n \in SingleValued |-> DefaultValue(n)]]

(* Mutant: a port number must not be negative.                             *)
ApplyListenZero(s, value) ==
  LET port  == NumberOf(value[1])
      ports == IF s.firstListenApply THEN <<>> ELSE s.ports
  IN IF port \in ({0} \cup PortNumbers) \ ToSet(ports)
     THEN [s EXCEPT !.firstListenApply = FALSE, !.ports = Append(ports, port)]
     ELSE [s EXCEPT !.ok = FALSE]

(* The first listen replaces the default port; a port given twice and one  *)
(* that is not a port are refused.                                         *)
ApplyListen(s, value) ==
  LET port  == NumberOf(value[1])
      ports == IF s.firstListenApply THEN <<>> ELSE s.ports
  IN IF port \in PortNumbers \ ToSet(ports)
     THEN [s EXCEPT !.firstListenApply = FALSE, !.ports = Append(ports, port)]
     ELSE [s EXCEPT !.ok = FALSE]

(* The first server_name replaces the default name; a name given twice is  *)
(* ignored.                                                                *)
ApplyServerName(s, value) ==
  LET names == IF s.firstNameApply THEN <<>> ELSE s.names
  IN [s EXCEPT !.firstNameApply = FALSE,
               !.names = IF value \in ToSet(names) THEN names
                         ELSE Append(names, value)]

ApplyErrorPage(s, value) ==
  LET code == NumberOf(value[1])
  IN [s EXCEPT !.ok    = /\ Len(value) >= 2
                         /\ code \in 300 .. 599
                         /\ AreValidNames(Tail(value)),
               !.pages = (code :> Tail(value)) @@ @]

ApplyValue(s, name, value) ==
  IF IsValidValue(name, value)
  THEN [s EXCEPT !.value[name] = Supported(name, value)]
  ELSE [s EXCEPT !.ok = FALSE]

Apply(s, d) ==
  IF ~s.ok THEN s
  ELSE CASE d.name = "listen"      -> ApplyListen(s, d.value)
         [] d.name = "server_name" -> ApplyServerName(s, d.value)
         [] d.name = "error_page"  -> ApplyErrorPage(s, d.value)
         [] d.name = "host"        -> s
         [] OTHER                  -> ApplyValue(s, d.name, d.value)

(* All directives, in the order of their positions.  The choice has TLC    *)
(* evaluate the settings before it applies the next one.                   *)
ApplyOne(s, d) == CHOOSE t \in {Apply(u, d) : u \in {s}} : TRUE

ApplyAllDirectives(dirs, s) ==
  MapThenFoldSet(LAMBDA d, t : ApplyOne(t, d), s, LAMBDA i : dirs[i],
                 LAMBDA S : Max(S), DOMAIN dirs)

(* Directives are applied when none of them is a forbidden second one.     *)
CheckAndApply(dirs, s) ==
  IF IsDuplicatePresent(dirs) THEN [s EXCEPT !.ok = FALSE]
  ELSE ApplyAllDirectives(dirs, s)
=============================================================================
