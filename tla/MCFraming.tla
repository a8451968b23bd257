----------------------------- MODULE MCFraming -----------------------------
(***************************************************************************)
(* Values of the constants of Framing for TLC: requests without a body,    *)
(* with a body, chunked, with a trailer, followed by the next request;     *)
(* script output with either line ending, of known size, chunked, or ended *)
(* by its end; chunks without a size, chunks longer or shorter than their  *)
(* size, in the middle of a body and at its end.                           *)
(***************************************************************************)
EXTENDS Framing

Header  == <<"x", CR, LF, "x", CR, LF, CR, LF>>
CgiHead == {<<"x", LF, "x", LF, LF>>, <<"x", CR, LF, CR, LF>>}

Request(rest, body, over) ==
  [bytes |-> Header \o rest \o over, request |-> TRUE, length |-> 0,
   chunked |-> FALSE, trailer |-> FALSE, head |-> Len(Header), body |-> body,
   end |-> Len(Header \o rest), framed |-> TRUE, valid |-> TRUE]

Chunked(r) == [r EXCEPT !.chunked = TRUE]

Chunks == <<"2", CR, LF, CR, LF, CR, LF, "1", CR, LF, "x", CR, LF>>
Final  == <<"0", CR, LF>>

Requests ==
  LET chunks == Request(Chunks \o Final \o LineEnd, <<CR, LF, "x">>, <<>>)
      sized  == {Request(b, b, over) : b \in {<<"x", "x">>, <<LF, "1", CR>>},
                                       over \in {<<>>, <<"x", CR, LF>>}}
  IN  {Request(<<>>, <<>>, over) : over \in {<<>>, <<"x", "x">>}}
      \cup {[r EXCEPT !.length = Len(r.body)] : r \in sized}
      \cup {Chunked(chunks),
            Chunked(Request(Final \o LineEnd, <<>>, <<"x">>)),
            [Chunked(Request(Chunks \o Final \o <<"x">> \o HeaderEnd,
                             <<CR, LF, "x">>, <<>>)) EXCEPT !.trailer = TRUE]}

Outputs ==
  LET Output(head, rest, body) ==
        [Request(rest, body, <<>>) EXCEPT
           !.request = FALSE, !.bytes = head \o rest, !.head = Len(head),
           !.end = Len(head \o rest)]
  IN  UNION { {[Output(h, b, b) EXCEPT !.framed = FALSE],
               [Output(h, b, b) EXCEPT !.length = Len(b)],
               Chunked(Output(h, Chunks \o Final \o LineEnd, <<CR, LF, "x">>))}
            : h \in CgiHead, b \in {<<"x", LF>>} }

Malformed ==
  LET Bad(rest, body) ==
        [Chunked(Request(rest, body, <<"x">>)) EXCEPT !.valid = FALSE]
  IN  { Bad(c, <<>>)
        : c \in {<<"1", CR, LF, "x", "x", CR, LF>>, <<"x", CR, LF, "x">>,
                 <<CR, LF, "x">>, <<"1", CR, LF, CR, LF>> \o Final \o LineEnd} }
      \cup {Bad(<<"1", CR, LF, "x", "x", "x">> \o Final \o LineEnd, <<"x">>),
            Bad(Chunks \o Final \o <<"x", "x">>, <<CR, LF, "x">>)}

AnyUnset == 0..2

AllStreams == Requests \cup Outputs \cup Malformed
=============================================================================
