------------------------------ MODULE MCCapture ------------------------------
(* Instances of Capture for TLC. *)
EXTENDS Capture

\* A file with its qualities in two orders, a playlist of the same page, a
\* file of another page, and a piece of a stream.
File     == [url |-> "u", page |-> "p", kind |-> "file", variants |-> <<>>]
Low      == [File EXCEPT !.variants = <<"v1", "v2">>]
High     == [File EXCEPT !.variants = <<"v2", "v1">>]
Playlist == [url |-> "m", page |-> "p", kind |-> "hls", variants |-> <<>>]
Other    == [url |-> "w", page |-> "q", kind |-> "file", variants |-> <<>>]

Piece    == [url |-> "s", page |-> "p", kind |-> "segment", variants |-> <<>>]

MCReports   == {File, Playlist, Piece}
MCDocuments == {<<Low, Other>>}

MCLists == {<<Low>>, <<High>>}
=============================================================================
