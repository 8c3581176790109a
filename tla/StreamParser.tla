---------------------------- MODULE StreamParser ----------------------------
(***************************************************************************)
(* The stream parser of the clients (_recv_loop and _parse_buffer of       *)
(* fix_tui_client.py and fix_test_client_pure.py): TCP delivers the bytes  *)
(* in chunks cut anywhere, and messages are found by their BeginString and *)
(* BodyLength.  A byte is a number; each field is a byte or two long.      *)
(***************************************************************************)
EXTENDS Integers, Sequences, SequencesExt

SOH == 0
BeginString == <<1, SOH>>           \* 8=FIX.4.2
BodyLength(byte) == byte - 100      \* 9=..., as one byte
TrailerLength == 1                  \* 10=..., 7 bytes

\* What send_message or the exchange puts on the wire.
OnWire(body) ==
  BeginString \o <<100 + Len(body), SOH>> \o body \o [i \in 1..TrailerLength |-> SOH]

\* One iteration of _parse_buffer; the parser is as it was where the code breaks.
ParseOne(parser) ==
  LET b       == parser.buffer
      starts  == {i \in 1..(Len(b) - 1) : SubSeq(b, i, i + 1) = BeginString}
      start   == Min(starts)
      ends    == {i \in (start + 2)..Len(b) : b[i] = SOH}
      len_end == Min(ends)
      total   == len_end + BodyLength(b[len_end - 1]) + TrailerLength
  IN  IF starts = {} \/ ends = {} \/ Len(b) < total
        THEN parser
        ELSE [buffer  |-> SubSeq(b, total + 1, Len(b)),
              handled |-> Append(parser.handled, SubSeq(b, start, total))]

\* The loop; no message is shorter than a byte.
parse_buffer(parser) ==
  FoldLeft(LAMBDA p, byte : ParseOne(p), parser, parser.buffer)

\* The receive thread gets the stream in chunks that end at the places `cuts`.
recv_loop(stream, cuts) ==
  LET Step(parser, i) ==
        LET received == [parser EXCEPT !.buffer = Append(@, stream[i])]
        IN  IF i \in cuts THEN parse_buffer(received) ELSE received
  IN  FoldLeft(Step, [buffer |-> <<>>, handled |-> <<>>], [i \in DOMAIN stream |-> i])

-----------------------------------------------------------------------------

\* Two messages: fields end in the byte that ends the length, too.
Messages == <<OnWire(<<7>>), OnWire(<<8, SOH>>)>>

\* However the stream is cut into chunks, when any part of it has arrived the
\* messages that are complete have been handled, each once and in order, and
\* the bytes after them are kept for the next chunk.
ASSUME EveryChunkingIsParsed ==
  LET stream == FlattenSeq(Messages)
      \* the length of the first n messages
      Upto(n) == Len(FlattenSeq(SubSeq(Messages, 1, n)))
  IN  \A arrived \in 1..Len(stream) : \A cuts \in SUBSET (1..(arrived - 1)) :
        LET complete == Max({n \in 0..Len(Messages) : Upto(n) <= arrived})
        IN  recv_loop(SubSeq(stream, 1, arrived), cuts \cup {arrived})
              = [buffer  |-> SubSeq(stream, Upto(complete) + 1, arrived),
                 handled |-> SubSeq(Messages, 1, complete)]
=============================================================================
