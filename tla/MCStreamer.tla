------------------------------- MODULE MCStreamer -------------------------------
(*****************************************************************************)
(* Model checking of Streamer: writes that begin, continue and end a line,   *)
(* blank lines, and lines longer than the buffer; offsets that cannot be     *)
(* sought, in the middle of a line, and beyond the end.                      *)
(*****************************************************************************)
EXTENDS Streamer

MCPayloads == { <<"a">>, <<"\n">>, <<"b", "\r", "\n">> }
MCOffsets  == { -1, 0, 1, 6 }
===============================================================================
