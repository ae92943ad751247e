----------------------------- MODULE ByteStream -----------------------------
(***************************************************************************)
(* What a pipe promises its two ends, without callbacks, buffers or        *)
(* pending states: an ordered stream of bytes of which the reading end has *)
(* seen a prefix, ended by end of file.  Bytes that were sent are dropped  *)
(* only when the reading end is closed.                                    *)
(***************************************************************************)
EXTENDS Naturals, Sequences

VARIABLES
  sent,     \* every byte sent and not dropped, in order
  seen,     \* the prefix of it the reading end was given
  closed,   \* one of the ends was closed
  cut,      \* the reading end was closed
  ended     \* the reading end was told end of file

streamVars == <<sent, seen, closed, cut, ended>>

Prefix(s, t) == Len(s) <= Len(t) /\ s = SubSeq(t, 1, Len(s))

StreamInit == sent = <<>> /\ seen = <<>> /\ closed = FALSE /\ cut = FALSE /\ ended = FALSE

\* The writing end adds bytes; the reading end may be given some at once.
Send ==
  /\ ~closed
  /\ Len(sent') > Len(sent) /\ Prefix(sent, sent')
  /\ Prefix(seen, seen') /\ Prefix(seen', sent')
  /\ UNCHANGED <<closed, cut, ended>>

\* The reading end is given more of what was sent.
Receive ==
  /\ Len(seen') > Len(seen) /\ Prefix(seen, seen') /\ Prefix(seen', sent)
  /\ UNCHANGED <<sent, closed, cut, ended>>

\* End of file, once there is nothing left to see.
End ==
  /\ closed' /\ seen = sent
  /\ ended' = TRUE
  /\ cut => cut'
  /\ UNCHANGED <<sent, seen>>

CloseWritingEnd ==
  /\ closed' = TRUE
  /\ UNCHANGED <<sent, seen, cut, ended>>

\* Closing the reading end drops what was sent but not seen.
CloseReadingEnd ==
  /\ closed' = TRUE /\ cut' = TRUE
  /\ Prefix(sent', sent) /\ Prefix(seen, sent')
  /\ UNCHANGED <<seen, ended>>

StreamNext ==
  \/ Send \/ Receive \/ End \/ CloseWritingEnd \/ CloseReadingEnd

StreamSpec == StreamInit /\ [][StreamNext]_streamVars
=============================================================================
