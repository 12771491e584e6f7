--------------------------- MODULE MCUartFraming ---------------------------
(* A small instance of UartFraming: packets of four bytes, and a dma_buf    *)
(* that, like the code's 32 of 6, is not a multiple of a packet.            *)
EXTENDS UartFraming

\* Start, checksum, minutes, seconds: two times, one with a checksum that looks
\* like a start, and a time out of range.
SomeFrames == {<<9, 1, 0, 1>>, <<9, 0, 1, 0>>, <<9, 9, 0, 1>>, <<9, 0, 8, 1>>}
=============================================================================
