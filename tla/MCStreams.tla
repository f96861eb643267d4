----------------------------- MODULE MCStreams ------------------------------
\* A streaming and a whole request with every bound on, and a streaming one
\* without the bound on the first byte.
EXTENDS Streams

On == [stream |-> TRUE, firstByte |-> TRUE, start |-> TRUE, idle |-> TRUE]
MCSettings == {On, [On EXCEPT !.stream = FALSE], [On EXCEPT !.firstByte = FALSE]}
=============================================================================
