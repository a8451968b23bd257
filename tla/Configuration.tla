--------------------------- MODULE Configuration ---------------------------
(***************************************************************************)
(* How a configuration file becomes tokens with paths (Configuration.cpp,  *)
(* Token.cpp).                                                             *)
(*                                                                         *)
(* A file is a sequence of lexemes: the delimiters "{", "}" and ";", and   *)
(* texts.  A text is a sequence of words and a word a sequence of the      *)
(* parts it was glued together from: the reader only ends a text at a      *)
(* delimiter, so two texts on consecutive lines become one, whose middle   *)
(* word has two parts.  "listen 80" is <<  <<"listen">>, <<"80">>  >>.     *)
(* Comments, blanks and the character set of a line are left out.          *)
(***************************************************************************)
EXTENDS Integers, SequencesExt

CONSTANTS MaxTokens,         \* MAX_NUMBER_OF_TOKENS
          Locations          \* the parts that begin with "location"

ASSUME MaxTokensAssumption == MaxTokens \in Nat

Delimiters == {"{", "}", ";"}

(* A lexeme: a delimiter or a text.                                        *)
Delimiter(d) == [delim |-> d, text |-> <<>>]
Text(ws)     == [delim |-> "", text |-> ws]

(* What has been read so far, and the next text appended to it.            *)
Glue(info, ws) ==
  IF info = <<>> THEN ws
  ELSE Front(info) \o << Last(info) \o Head(ws) >> \o Tail(ws)

-----------------------------------------------------------------------------
(* Tokens.  _type and _contextType of Token.hpp; "NONE" is NOT_CONTEXT.    *)

TokenTypes   == {"OPENING_BRACE", "CLOSING_BRACE", "DIRECTIVE", "CONTEXT"}
ContextTypes == {"HTTP", "SERVER", "LOCATION", "NONE", "UNKNOWN"}

HTTPText   == << <<"http">> >>
SERVERText == << <<"server">> >>

(* The context a text names; what begins with "location" is a location.    *)
ContextChecker(info) ==
  IF info = HTTPText THEN "HTTP"
  ELSE IF info = SERVERText THEN "SERVER"
  ELSE IF Head(Head(info)) \in Locations THEN "LOCATION"
  ELSE "UNKNOWN"

(* The n-th token made; serverId numbers the "server" tokens seen so far.  *)
(* path holds the indices of the context tokens around it.                 *)
NewToken(type, info, serverId) ==
  [type |-> type, info |-> info, serverId |-> serverId, path |-> <<>>,
   context |-> IF type = "CONTEXT" THEN ContextChecker(info) ELSE "NONE"]

(* The reader between two lexemes.                                         *)
EmptyReader == [tokens |-> <<>>, info |-> <<>>, serverId |-> 0, ok |-> TRUE]

(* An unknown context and a second "http" are refused.                     *)
CreateOneToken(r, type, info) ==
  LET id == r.serverId + IF type = "CONTEXT" /\ info = SERVERText THEN 1 ELSE 0
      t  == NewToken(type, info, id)
  IN [r EXCEPT !.tokens   = Append(@, t),
               !.serverId = id,
               !.info     = <<>>,
               !.ok       = @ /\ t.context # "UNKNOWN"
                              /\ (t.context = "HTTP" => r.tokens = <<>>)]

CreateContextToken(r) ==
  IF r.info = <<>> THEN r ELSE CreateOneToken(r, "CONTEXT", r.info)

(* One lexeme: a text is collected, ";" ends a directive, a brace ends a   *)
(* context and is a token of its own.                                      *)
ReadLexeme(r, l) ==
  CASE l.delim = ""  -> [r EXCEPT !.info = Glue(@, l.text)]
    [] l.delim = ";" -> CreateOneToken(r, "DIRECTIVE", r.info)
    [] l.delim = "{" ->
         CreateOneToken(CreateContextToken(r), "OPENING_BRACE", <<>>)
    [] l.delim = "}" ->
         CreateOneToken(CreateContextToken(r), "CLOSING_BRACE", <<>>)

-----------------------------------------------------------------------------
(* Paths.  The walk over the tokens: the path so far, and whether every    *)
(* brace the walk looked at had its partner.                               *)

EmptyWalk(tokens) == [tokens |-> tokens, path |-> <<>>, ok |-> TRUE]

(* Mutant: the path is changed first and given to the token afterwards.    *)
WalkTokenAfter(w, i) ==
  LET next == w.tokens[i + 1].type
      p    == CASE next = "OPENING_BRACE" -> Append(w.path, i)
                [] next = "CLOSING_BRACE" /\ w.path # <<>> -> Front(w.path)
                [] OTHER -> w.path
  IN [w EXCEPT !.tokens[i].path = p, !.path = p,
               !.ok = @ /\ ~(next = "CLOSING_BRACE" /\ w.path = <<>>)]

(* Token i gets the path; what follows it changes the path.  The walk ends *)
(* before the last token, and the first token is never a next one.         *)
WalkToken(w, i) ==
  LET next == w.tokens[i + 1].type
      v    == [w EXCEPT !.tokens[i].path = w.path]
  IN CASE next = "OPENING_BRACE" ->
            [v EXCEPT !.path = Append(@, i),
                      !.ok   = @ /\ w.tokens[i].type = "CONTEXT"]
       [] next = "CLOSING_BRACE" ->
            IF w.path = <<>> THEN [v EXCEPT !.ok = FALSE]
            ELSE [v EXCEPT !.path = Front(@)]
       [] OTHER -> v

WalkEndsWell(w) == w.ok /\ w.path = <<>>

-----------------------------------------------------------------------------
(* Selections of tokens (Token.cpp, ServerManager.cpp).                    *)

(* The indices of a set in the order of the file.                          *)
InOrder(S) ==
  [n \in 1 .. Cardinality(S) |->
     CHOOSE i \in S : Cardinality({j \in S : j <= i}) = n]

(* Directives directly inside http.                                        *)
IsTokenHttpDirective(tokens, t) ==
  /\ t.type = "DIRECTIVE"
  /\ Len(t.path) = 1
  /\ tokens[t.path[1]].context = "HTTP"

(* Mutant: the number of the server is not looked at.                      *)
IsServerTokenAny(tokens, t, id) ==
  /\ Len(t.path) >= 2
  /\ tokens[t.path[2]].context = "SERVER"
  /\ t.type \in {"DIRECTIVE", "CONTEXT"}

(* Everything inside the server with this number, braces excluded.         *)
IsServerToken(tokens, t, id) ==
  /\ Len(t.path) >= 2
  /\ tokens[t.path[2]].context = "SERVER"
  /\ tokens[t.path[2]].serverId = id
  /\ t.type \in {"DIRECTIVE", "CONTEXT"}
=============================================================================
