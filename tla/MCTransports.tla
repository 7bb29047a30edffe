---------------------------- MODULE MCTransports ----------------------------
(***************************************************************************)
(* A body of up to two bytes in chunks of one or two; a session with two     *)
(* consumers, and answers that end within a chunk, between two, in a frame   *)
(* without its separator, too often, or not at all.                         *)
(***************************************************************************)
EXTENDS Transports

CONSTANTS i1, i2

Chunks == {<<>>, <<"event">>, <<"end">>, <<"bad">>, <<"event", "end">>, <<"end", "event">>}
Rests == {NoFrame, "event", "end"}
==============================================================================
