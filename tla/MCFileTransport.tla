-------------------------- MODULE MCFileTransport --------------------------
(* Instances of FileTransport for TLC. *)
EXTENDS FileTransport

\* The second event does not fit into the chunk of the first, nor the third
\* into that of the second; the fourth is accepted and found too large by the
\* writer, and the fifth is refused.
MCLength == <<1, 2, 2, 3, 4>>

\* A new file, one that ends in a whole event, and one that ends in a torn one.
MCLeftovers == {[size |-> 0, torn |-> FALSE], [size |-> 2, torn |-> FALSE], [size |-> 2, torn |-> TRUE]}
=============================================================================
