----------------------------- MODULE EventStream -----------------------------
(***************************************************************************)
(* What the SSE client under test makes of the bytes of a stream.  It is   *)
(* not code of this repository: this is the behaviour that the tests in    *)
(* ssetests and docs/optional_features.md expect of it, and ways to miss   *)
(* it, one at a time, that the tests are there to detect.                  *)
(*                                                                         *)
(* A text is a sequence of tokens: a word, ":", " ", "CR", "LF", "NUL",    *)
(* the bytes of a BOM, or those of a character of several bytes.           *)
(***************************************************************************)
EXTENDS Integers, SequencesExt

BOM == <<"BOM1", "BOM2", "BOM3">>
Bytes == <<"E1", "E2", "E3">>   (* a character of three bytes              *)

Report(kind, type, data, id) == [kind |-> kind, type |-> type, data |-> data, id |-> id]
Error == Report("error", <<>>, <<>>, <<>>)

(* The parser of a new connection: what the client does wrong, or "none",  *)
(* a line that is not complete, an event that is not complete, the ID for  *)
(* the next event, the ID to reconnect with, and what is reported to the   *)
(* caller.                                                                 *)
NewParser(fault, id) ==
  [fault |-> fault, line |-> <<>>, first |-> TRUE, afterCR |-> FALSE,
   data |-> <<>>, type |-> <<>>, id |-> id, lastID |-> id, out |-> <<>>]

(* Nothing is reported before there is data.  The ID stays for later       *)
(* events.                                                                 *)
Dispatch(p) ==
  LET type == IF p.type = <<>> /\ p.fault # "noDefaultType" THEN <<"message">> ELSE p.type
      data == IF p.data = <<>> THEN <<>> ELSE Front(p.data)
      empty == \/ p.data = <<>> /\ p.fault # "reportsEmpty"
               \/ data = <<>> /\ p.fault = "dropsEmptyData"
  IN  [p EXCEPT !.data = <<>>, !.type = <<>>, !.lastID = p.id,
                !.id = IF p.fault = "forgetsID" THEN <<>> ELSE @,
                !.out = IF empty THEN @ ELSE Append(@, Report("event", type, data, p.id))]

IsID(p, value) ==
  /\ p.fault # "ignoresIDs"
  /\ Contains(value, "NUL") => p.fault = "keepsNull"
  /\ value = <<>> => p.fault # "keepsID"

IsData(p, name) == name = <<"data">> \/ (name = <<"color">> /\ p.fault = "unknownIsData")

FieldRead(p, name, value) ==
  IF p.fault = "fixedOrder" /\ p.data # <<>> /\ ~IsData(p, name) THEN p
  ELSE CASE IsData(p, name) ->
              [p EXCEPT !.data = (IF p.fault = "lastLineOnly" THEN <<>> ELSE @)
                                 \o Append(value, "LF")]
         [] name = <<"event">> /\ p.fault # "ignoresType" -> [p EXCEPT !.type = value]
         [] name = <<"id">> /\ IsID(p, value) -> [p EXCEPT !.id = value]
         [] OTHER -> p

Unspaced(fault, text) ==
  LET spaces == {i \in 0 .. Len(text) : \A j \in 1 .. i : text[j] = " "}
      n == CASE fault = "keepsSpace" -> 0 [] fault = "trimsSpaces" -> Max(spaces)
             [] OTHER -> IF 1 \in spaces THEN 1 ELSE 0
  IN  SubSeq(text, n + 1, Len(text))

LineEnded(p) ==
  LET bom == p.first /\ IsPrefix(BOM, p.line) /\ p.fault # "keepsBOM"
      text == IF bom THEN SubSeq(p.line, Len(BOM) + 1, Len(p.line)) ELSE p.line
      colon == SelectInSeq(text, LAMBDA t : t = ":")
      rest == SubSeq(text, colon + 1, Len(text))
      q == [p EXCEPT !.line = <<>>, !.first = FALSE]
  IN  IF text = <<>> THEN Dispatch(q)
      ELSE CASE
           colon = 1 -> [q EXCEPT !.out = Append(@, Report("comment", <<>>, rest, <<>>))]
        [] colon = 0 -> IF p.fault = "needsColon" THEN q ELSE FieldRead(q, text, <<>>)
        [] OTHER -> IF p.fault = "needsSpace" /\ (rest = <<>> \/ Head(rest) # " ") THEN q
                    ELSE FieldRead(q, SubSeq(text, 1, colon - 1), Unspaced(p.fault, rest))

(* LF, CR, and CR with LF end a line.                                      *)
TokenRead(p, token) ==
  CASE token = "LF" -> IF p.afterCR THEN [p EXCEPT !.afterCR = FALSE] ELSE LineEnded(p)
    [] token = "CR" -> IF p.fault = "ignoresCR" THEN p
                       ELSE [LineEnded(p) EXCEPT !.afterCR = TRUE]
    [] token \in Range(BOM) /\ p.fault = "stripsAllBOMs" -> p
    [] OTHER -> [p EXCEPT !.line = Append(@, token), !.afterCR = FALSE]

TextRead(p, text) ==
  LET after[i \in 0 .. Len(text)] == IF i = 0 THEN p ELSE TokenRead(after[i - 1], text[i])
  IN  after[Len(text)]

(* What one read of the connection returns.  Only a faulty client makes a  *)
(* difference of where it begins and ends.                                 *)
ChunkRead(p, chunk) ==
  LET broken == p.fault = "decodesChunks" /\ ~ Range(Bytes) \subseteq Range(chunk)
      text == [i \in DOMAIN chunk |-> IF broken /\ chunk[i] \in Range(Bytes) THEN "?" ELSE chunk[i]]
      missed == p.fault = "wholeBOMOnly" /\ p.line = <<>> /\ ~ IsPrefix(BOM, chunk)
      begun == [p EXCEPT !.afterCR = @ /\ p.fault # "splitsCRLF", !.first = @ /\ ~missed]
      q == TextRead(begun, text)
      n == Len(q.out)
  IN  CASE p.fault = "chunkIsLine" /\ q.line # <<>> -> LineEnded(q)
        [] p.fault = "swapsEvents" /\ n > 1 ->
             [q EXCEPT !.out = [i \in 1 .. n |-> @[n + 1 - i]]]
        [] OTHER -> q

(* Faults that show only if a read ends at the right place.                *)
BoundaryFaults == {"decodesChunks", "wholeBOMOnly", "splitsCRLF", "chunkIsLine"}
=============================================================================
