--------------------------------- MODULE Wire ---------------------------------
(***************************************************************************)
(* The packets of the wire: their framing, the side bands, and the         *)
(* requests and responses both sides build and read.  A byte or a word is  *)
(* a number: the length of a packet takes four hexadecimal digits, a word  *)
(* of a line, which is at least FirstWord, one.  What is not well formed   *)
(* reads as Bad.                                                           *)
(***************************************************************************)
EXTENDS Integers, Sequences, SequencesExt

CONSTANTS
    MaxPkt,             \* MAX_PKT_LEN, smaller
    FirstWord           \* the least word; smaller numbers are bytes

Bad == <<-1>>

\* The words lines begin with, and a few others.
Ack == FirstWord
Nak == FirstWord + 1
Ready == FirstWord + 2
Common == FirstWord + 3
ShallowWord == FirstWord + 4
Unshallow == FirstWord + 5
Want == FirstWord + 6
Have == FirstWord + 7
Deepen == FirstWord + 8
Done == FirstWord + 9
Unpack == FirstWord + 10
OkWord == FirstWord + 11
Ng == FirstWord + 12
NoRef == FirstWord + 13          \* capabilities^{}
Peel == FirstWord + 14           \* the ^{} at the end of a name
ZeroHash == FirstWord + 15
Nul == 0

-------------------------------------------------------------------------------
(* Packets.                                                                *)

Header(n) == <<n \div 4096, (n \div 256) % 16, (n \div 16) % 16, n % 16>>
LengthAt(buf) == 4096 * buf[1] + 256 * buf[2] + 16 * buf[3] + buf[4]

\* A line that is too long is not sent at all.
EncodePktLine(data) == IF 4 + Len(data) > MaxPkt THEN Bad ELSE Header(4 + Len(data)) \o data
FlushPkt == Header(0)
DelimPkt == Header(1)
ConcatPktLines(lines) == IF Bad \in Range(lines) THEN Bad ELSE FlattenSeq(lines)
Encoded(lines) == [i \in DOMAIN lines |-> EncodePktLine(lines[i])]

Special == <<"flush", "delim", "response-end">>
Data(data) == [type |-> "data", data |-> data]
Mark(type) == [type |-> type, data |-> <<>>]

\* The packets at the start of a buffer and what is left of it: less than a packet, or
\* something no packet starts with.
RECURSIVE Drain(_, _)
Drain(buf, lines) ==
    LET n == LengthAt(buf)
    IN  IF Len(buf) < 4 THEN [lines |-> lines, rest |-> buf, bad |-> FALSE]
        ELSE IF \E i \in 1..4 : buf[i] \notin 0..15 THEN [lines |-> lines, rest |-> buf, bad |-> TRUE]
        ELSE IF n < 3 THEN Drain(SubSeq(buf, 5, Len(buf)), Append(lines, Mark(Special[n + 1])))
        ELSE IF n = 3 THEN [lines |-> lines, rest |-> buf, bad |-> TRUE]
        ELSE IF Len(buf) < n THEN [lines |-> lines, rest |-> buf, bad |-> FALSE]
        ELSE Drain(SubSeq(buf, n + 1, Len(buf)), Append(lines, Data(SubSeq(buf, 5, n))))

ParsePktLineStream(buf) ==
    LET d == Drain(buf, <<>>) IN [lines |-> d.lines, bad |-> d.bad \/ d.rest # <<>>]

\* (Mutant: what is left of a chunk is dropped when the next one comes.)
Fill_anew(rest, chunk) == chunk
\* The buffer of the incremental parser when a chunk arrives.
Fill(rest, chunk) == rest \o chunk
ParsePktLinesFromStream(chunks) ==
    LET step(d, chunk) ==
            IF d.bad THEN d
            ELSE LET e == Drain(Fill(d.rest, chunk), <<>>) IN [e EXCEPT !.lines = d.lines \o @]
        d == FoldLeft(step, [lines |-> <<>>, rest |-> <<>>, bad |-> FALSE], chunks)
    IN  [lines |-> d.lines, bad |-> d.bad \/ d.rest # <<>>]

-------------------------------------------------------------------------------
(* Side bands: 1 the pack, 2 progress, 3 an error.                         *)

MaxPayload == MaxPkt - 5
EncodeSidebandPacket(band, data) == EncodePktLine(<<band>> \o data)
Pieces(data) ==
    [i \in 1..((Len(data) + MaxPayload - 1) \div MaxPayload) |->
        SubSeq(data, (i - 1) * MaxPayload + 1,
               IF i * MaxPayload < Len(data) THEN i * MaxPayload ELSE Len(data))]
Banded(data) == LET p == Pieces(data) IN [i \in DOMAIN p |-> EncodeSidebandPacket(1, p[i])]

Full(lines) == SelectSeq(lines, LAMBDA l : l.type = "data" /\ l.data # <<>>)
Band(lines, b) == SelectSeq(Full(lines), LAMBDA l : l.data[1] = b)
Payload(lines) == FlattenSeq([i \in DOMAIN lines |-> Tail(lines[i].data)])
DemuxSideband(lines) ==
    [pack |-> Payload(Band(lines, 1)), progress |-> Payload(Band(lines, 2)), failed |-> Band(lines, 3) # <<>>]

\* What comes before the first line of a band is the preamble; an error ends it all.
DemuxSidebandStreaming(lines) ==
    LET banded == {i \in DOMAIN lines : lines[i].type = "data" /\ lines[i].data # <<>> /\ lines[i].data[1] \in 1..3}
        first == IF banded = {} THEN Len(lines) + 1 ELSE CHOOSE i \in banded : \A j \in banded : i <= j
        d == DemuxSideband(SubSeq(lines, first, Len(lines)))
    IN  [pack |-> d.pack, progress |-> d.progress, failed |-> d.failed,
         preamble |-> SubSeq(lines, 1, first - 1)]

-------------------------------------------------------------------------------
(* The ref advertisement.  A ref has a name, a sequence of words, and a    *)
(* hash; its peeled hash is advertised under the name with ^{}.            *)

BuildRefListPktLines(refs, caps) ==
    LET all == IF refs = <<>> THEN <<<<ZeroHash, NoRef>>>> ELSE [i \in DOMAIN refs |-> <<refs[i].hash>> \o refs[i].name]
    IN  ConcatPktLines(Append(Encoded([i \in DOMAIN all |-> IF i = 1 THEN all[1] \o <<Nul>> \o caps ELSE all[i]]),
                              FlushPkt))
BuildRefAdvertisement(refs, service, caps) ==
    ConcatPktLines(<<EncodePktLine(<<service>>), FlushPkt, BuildRefListPktLines(refs, caps)>>)

\* The words of a line up to a NUL, and after it.
NulAt(data) == {i \in 2..Len(data) : data[i] = Nul}
Before(data) == IF NulAt(data) = {} THEN data ELSE SubSeq(data, 1, (CHOOSE i \in NulAt(data) : TRUE) - 1)
After(data) == IF NulAt(data) = {} THEN <<>> ELSE SubSeq(data, (CHOOSE i \in NulAt(data) : TRUE) + 1, Len(data))
FirstFlush(lines) ==
    LET F == {i \in DOMAIN lines : lines[i].type = "flush"} \cup {Len(lines) + 1}
    IN  CHOOSE i \in F : \A j \in F : i <= j
UpToFlush(lines) == SelectSeq(SubSeq(lines, 1, FirstFlush(lines) - 1), LAMBDA l : l.type = "data")

ParseRefAdvertisement(lines, service) ==
    LET from == IF lines # <<>> /\ lines[1] = Data(<<service>>) THEN Tail(lines) ELSE lines
        list == UpToFlush(IF from # <<>> /\ from[1].type = "flush" THEN Tail(from) ELSE from)
        ref(l) == [hash |-> l[1], name |-> Tail(l)]
        plain == SelectSeq([i \in DOMAIN list |-> Before(list[i].data)], LAMBDA l : l # <<ZeroHash, NoRef>>)
        refs == SelectSeq(plain, LAMBDA l : Last(l) # Peel)
        peels == {i \in DOMAIN plain : Last(plain[i]) = Peel}
    IN  [refs |-> [i \in DOMAIN refs |-> ref(refs[i])],
         peeled |-> {<<ref(plain[i]).hash, Front(ref(plain[i]).name)>> : i \in peels},
         caps |-> FlattenSeq([i \in DOMAIN list |-> After(list[i].data)])]

-------------------------------------------------------------------------------
(* Fetch: the request, and the response with and without side bands.       *)

FetchRequest(wants, caps, shallows, depth, haves) ==
    ConcatPktLines(
        Encoded(<<<<Want, wants[1]>> \o caps>> \o [i \in 1..(Len(wants) - 1) |-> <<Want, wants[i + 1]>>]
                \o [i \in DOMAIN shallows |-> <<ShallowWord, shallows[i]>>] \o depth)
        \o <<FlushPkt>>
        \o Encoded([i \in DOMAIN haves |-> <<Have, haves[i]>>] \o <<<<Done>>>>))

Starting(lines, word) == SelectSeq(Full(lines), LAMBDA l : l.data[1] = word)
Argument(lines) == [i \in DOMAIN lines |-> lines[i].data[2]]
ParseUploadPackRequest(buf) ==
    LET p == ParsePktLineStream(buf)
        wants == Starting(p.lines, Want)
    IN  [bad |-> p.bad, wants |-> Argument(wants), haves |-> Argument(Starting(p.lines, Have)),
         caps |-> IF wants = <<>> THEN <<>> ELSE SubSeq(wants[1].data, 3, Len(wants[1].data)),
         shallows |-> Argument(Starting(p.lines, ShallowWord)),
         depth |-> Argument(Starting(p.lines, Deepen)), done |-> Starting(p.lines, Done) # <<>>]

ShallowUpdateLines(shallow) ==
    Encoded([i \in DOMAIN shallow.shallow |-> <<ShallowWord, shallow.shallow[i]>>]
            \o [i \in DOMAIN shallow.unshallow |-> <<Unshallow, shallow.unshallow[i]>>]) \o <<FlushPkt>>
\* Every common commit is acknowledged, the last one three times.
Preamble(common, shallow) ==
    (IF shallow = <<>> THEN <<>> ELSE ShallowUpdateLines(shallow[1]))
    \o Encoded(IF common = <<>> THEN <<<<Nak>>>>
               ELSE [i \in DOMAIN common |-> <<Ack, common[i], Common>>]
                    \o <<<<Ack, Last(common), Ready>>, <<Ack, Last(common)>>>>)
FramePackResponse(preamble, pack, sideband) ==
    ConcatPktLines(preamble \o (IF sideband THEN Append(Banded(pack), FlushPkt) ELSE <<pack>>))

Response(lines, pack, failed) ==
    [pack |-> pack, failed |-> failed,
     acks |-> SelectSeq(Full(lines), LAMBDA l : l.data[1] \in {Ack, Nak}),
     shallow |-> Argument(Starting(lines, ShallowWord)), unshallow |-> Argument(Starting(lines, Unshallow))]

ParseFetchResponseStreaming(chunks) ==
    LET p == ParsePktLinesFromStream(chunks)
        d == DemuxSidebandStreaming(p.lines)
    IN  Response(d.preamble, d.pack, p.bad \/ d.failed)

\* In one piece: the pack starts at the first line that is no answer of the negotiation.
\* Without side bands it is read as packets too.
ParseFetchResponseBatch(buf, sideband) ==
    LET p == ParsePktLineStream(buf)
        known(l) == l.type # "data" \/ (l.data # <<>> /\ l.data[1] \in {Ack, Nak, ShallowWord, Unshallow})
        strange == {i \in DOMAIN p.lines : ~known(p.lines[i])} \cup {Len(p.lines) + 1}
        start == CHOOSE i \in strange : \A j \in strange : i <= j
        rest == SubSeq(p.lines, start, Len(p.lines))
        d == DemuxSideband(rest)
        raw == FlattenSeq([i \in DOMAIN rest |-> rest[i].data])
    IN  IF sideband THEN Response(SubSeq(p.lines, 1, start - 1), d.pack, p.bad \/ d.failed)
        ELSE Response(SubSeq(p.lines, 1, start - 1), raw, p.bad)

-------------------------------------------------------------------------------
(* Push: the commands, and the report on them.                             *)

PushRequest(commands, caps, pack) ==
    LET line(i) == <<commands[i].old, commands[i].new, commands[i].ref>> \o (IF i = 1 THEN <<Nul>> \o caps ELSE <<>>)
        head == ConcatPktLines(Append(Encoded([i \in DOMAIN commands |-> line(i)]), FlushPkt))
    IN  IF head = Bad THEN Bad ELSE head \o pack

\* Commands are read up to the flush; after it, or where they break off, is the pack.
RECURSIVE ReadCommands(_, _)
ReadCommands(buf, lines) ==
    LET n == LengthAt(buf)
        end(flush, pack) == [lines |-> lines, flush |-> flush, pack |-> pack]
    IN  IF Len(buf) < 4 \/ (\E i \in 1..4 : buf[i] \notin 0..15) THEN end(FALSE, buf)
        ELSE IF n = 0 THEN end(TRUE, SubSeq(buf, 5, Len(buf)))
        ELSE IF n < 4 \/ Len(buf) < n THEN end(FALSE, buf)
        ELSE ReadCommands(SubSeq(buf, n + 1, Len(buf)), Append(lines, SubSeq(buf, 5, n)))
Command(line) == [old |-> line[1], new |-> line[2], ref |-> line[3]]
ParseReceivePackRequest(buf) ==
    LET r == ReadCommands(buf, <<>>)
        lines == SelectSeq([i \in DOMAIN r.lines |-> Before(r.lines[i])], LAMBDA l : Len(l) >= 3)
    IN  [commands |-> [i \in DOMAIN lines |-> Command(lines[i])], flush |-> r.flush, pack |-> r.pack,
         caps |-> FlattenSeq([i \in DOMAIN r.lines |-> After(r.lines[i])])]

\* The whole report is one packet of band 1.
BuildReportStatus(unpacked, results, sideband) ==
    LET line(r) == IF r.ok THEN <<OkWord, r.name>> ELSE <<Ng, r.name, r.error>>
        report == ConcatPktLines(Append(Encoded(<<<<Unpack, IF unpacked THEN OkWord ELSE Ng>>>>
                                                \o [i \in DOMAIN results |-> line(results[i])]), FlushPkt))
    IN  IF sideband THEN ConcatPktLines(<<EncodeSidebandPacket(1, report), FlushPkt>>) ELSE report

ExtractReportStatus(lines) ==
    LET told == SelectSeq(UpToFlush(lines), LAMBDA l : l.data # <<>> /\ l.data[1] \in {OkWord, Ng})
        result(l) == IF l[1] = OkWord THEN [name |-> l[2], ok |-> TRUE, error |-> 0]
                     ELSE [name |-> l[2], ok |-> FALSE, error |-> l[3]]
    IN  [unpacked |-> Data(<<Unpack, OkWord>>) \in Range(UpToFlush(lines)),
         results |-> [i \in DOMAIN told |-> result(told[i].data)]]
ParseReportStatusStreaming(chunks) ==
    LET p == ParsePktLinesFromStream(chunks)
        s == ParsePktLineStream(DemuxSidebandStreaming(p.lines).pack)
    IN  [bad |-> p.bad \/ s.bad, report |-> ExtractReportStatus(s.lines)]
ParseReportStatusBatch(buf, sideband) ==
    LET p == ParsePktLineStream(buf)
        s == IF sideband THEN ParsePktLineStream(DemuxSideband(p.lines).pack) ELSE p
    IN  [bad |-> p.bad \/ s.bad, report |-> ExtractReportStatus(s.lines)]

-------------------------------------------------------------------------------
(* Version 2: a request is a command, its capabilities and, after a        *)
(* delimiter, its arguments; a response is cut into sections.              *)

ParseV2CommandRequest(buf) ==
    LET p == ParsePktLineStream(buf)
        ends == {i \in DOMAIN p.lines : p.lines[i].type \in {"flush", "response-end"}} \cup {Len(p.lines) + 1}
        lines == SubSeq(p.lines, 1, (CHOOSE i \in ends : \A j \in ends : i <= j) - 1)
        delims == {i \in DOMAIN lines : lines[i].type = "delim"} \cup {Len(lines) + 1}
        cut == CHOOSE i \in delims : \A j \in delims : i <= j
    IN  [bad |-> p.bad, head |-> Full(SubSeq(lines, 1, cut - 1)), args |-> Full(SubSeq(lines, cut, Len(lines)))]

Section(title, lines) == Encoded(<<<<title>>>> \o lines) \o <<DelimPkt>>
V2Sections(common, shallow, refs) ==
    (IF common = <<>> THEN <<>>
     ELSE Section(Ack, [i \in DOMAIN common |-> <<Ack, common[i]>>] \o <<<<Ready>>>>))
    \o (IF shallow.shallow \o shallow.unshallow = <<>> THEN <<>>
        ELSE Section(ShallowWord, [i \in DOMAIN shallow.shallow |-> <<ShallowWord, shallow.shallow[i]>>]
                                  \o [i \in DOMAIN shallow.unshallow |-> <<Unshallow, shallow.unshallow[i]>>]))
    \o (IF refs = <<>> THEN <<>> ELSE Section(Want, refs))
    \o Encoded(<<<<Unpack>>>>)
BuildV2FetchResponse(sections, pack) == ConcatPktLines(sections \o Append(Banded(pack), FlushPkt))
\* The chunks of a pack are cut one by one.
BuildV2FetchResponseStreaming(sections, chunks) ==
    sections \o FlattenSeq([i \in DOMAIN chunks |-> Banded(chunks[i])]) \o <<FlushPkt>>
===============================================================================
