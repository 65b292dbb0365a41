--------------------------------- MODULE Wire ---------------------------------
(* The two internal protocols on their stream sockets: protocol/framing.py,      *)
(* greeter.py and pam_worker.py.                                                 *)
(*                                                                               *)
(* A byte is a cell, a number below Base, and the four-byte header of a frame or *)
(* a field is two cells.  Names of actions, events and kinds are texts of one    *)
(* cell.  UTF-8 is reduced to one-cell characters and one two-cell character.    *)
(* A parser maps the cells that remain to the set of its results, empty when the *)
(* code raises ProtocolError.                                                    *)
EXTENDS Integers, Sequences, SequencesExt

CONSTANTS
    Base,       \* values of a cell
    MaxBody,    \* MAX_FRAME_BODY_LENGTH, in cells
    Messages,   \* the messages the peer may send, by protocol
    MaxSent     \* bound: messages sent on one stream

ASSUME WireAssumption ==
    /\ Base \in Nat /\ Base > 3
    /\ MaxBody \in 0..Base * Base - 1
    /\ DOMAIN Messages = {"greeter", "worker"}
    /\ MaxSent \in Nat

VARIABLES
    stream,     \* its protocol, and whether its reader reports a header cut short
    sent,       \* history: the messages written whole
    wire,       \* cells written and not read
    open,       \* the writer's end is open
    frame,      \* cells read of the frame under way
    got,        \* the messages decoded
    verdict     \* how reading goes: "reading", "eof" (None) or "error"

vars == <<stream, sent, wire, open, frame, got, verdict>>

Cell == 0..Base - 1
HeaderSize == 2
Lead == Base - 2        \* starts the two-cell character
Follow == Base - 1      \* ends it

-----------------------------------------------------------------------------
(* framing.py: fields. *)

Pack(n) == <<n \div Base, n % Base>>
Unpack(s) == s[1] * Base + s[2]

EncodeBool(b) == <<IF b THEN 1 ELSE 0>>
EncodeBlob(s) == Pack(Len(s)) \o s
EncodeSignedInt(n) == Pack(n % (Base * Base))

Drop(s, n) == SubSeq(s, n + 1, Len(s))
Result(value, rest) == {[value |-> value, rest |-> rest]}

DecodeBool(s) == IF s = <<>> THEN {} ELSE Result(Head(s) # 0, Tail(s))

DecodeBlob(s) ==
    IF Len(s) < HeaderSize \/ Len(s) - HeaderSize < Unpack(s) THEN {}
    ELSE LET data == Drop(s, HeaderSize)
         IN Result(SubSeq(data, 1, Unpack(s)), Drop(data, Unpack(s)))

IsText(s) ==
    \A i \in DOMAIN s : /\ s[i] = Lead => i < Len(s) /\ s[i + 1] = Follow
                        /\ s[i] = Follow => i > 1 /\ s[i - 1] = Lead

DecodeText(s) == {r \in DecodeBlob(s) : IsText(r.value)}

\* Slip: the integer is read as unsigned.
DecodeUnsigned(s) ==
    IF Len(s) < HeaderSize THEN {} ELSE Result(Unpack(s), Drop(s, HeaderSize))

DecodeSignedInt(s) ==
    IF Len(s) < HeaderSize THEN {}
    ELSE LET n == Unpack(s)
         IN Result(IF 2 * n < Base * Base THEN n ELSE n - Base * Base, Drop(s, HeaderSize))

-----------------------------------------------------------------------------
(* Layouts: the fields after the name, in order. The writer's and the reader's  *)
(* are separate code. "message?" is a flag and, if set, two texts.              *)

Create == <<1>>
Continue == <<2>>
StartSession == <<3>>
GetState == <<4>>
Power == <<5>>      \* poweroff, reboot, suspend, hibernate
Other == <<6>>      \* cancel-session

Starting == <<1>>
Finished == <<2>>
StateChanged == <<3>>
AuthMessage == <<4>>

Start == <<1>>
Answer == <<2>>
Cancel == <<3>>
Prompt == <<4>>
Ready == <<5>>
Failed == <<6>>

RequestFields(name) ==
    CASE name \in {Create, Continue} -> <<"blob">>
      [] name = StartSession -> <<"text", "texts", "text", "text", "text">>
      [] OTHER -> <<>>

ResponseFields(name, ok) ==
    CASE ~ok -> <<"text", "text">>
      [] ok /\ name \in {Create, Continue} -> <<"text", "message?">>
      [] ok /\ name = GetState -> <<"text", "bool", "sessions">>
      [] ok /\ name = Power -> <<"bool">>
      [] OTHER -> <<>>

EventFields(name) ==
    CASE name = Starting -> <<"text", "texts">>
      [] name = Finished -> <<"int", "int", "bool", "text">>
      [] name = StateChanged -> ResponseFields(GetState, TRUE)
      [] name = AuthMessage -> <<"text", "text">>
      [] OTHER -> <<>>

WorkerFields(name) ==
    CASE name = Start -> <<"text", "text", "text">>
      [] name = Answer -> <<"blob">>
      [] name \in {Prompt, Failed} -> <<"text", "text">>
      [] OTHER -> <<>>

ReadRequestFields(name) ==
    IF name = StartSession THEN <<"text", "texts", "text", "text", "text">>
    ELSE IF name \in {Create, Continue} THEN <<"blob">> ELSE <<>>

ReadResponseFields(name, ok) ==
    IF ~ok THEN <<"text", "text">>
    ELSE CASE name \in {Create, Continue} -> <<"text", "message?">>
           [] name = GetState -> <<"text", "bool", "sessions">>
           [] name = Power -> <<"bool">>
           [] OTHER -> <<>>

ReadEventFields(name) ==
    CASE name = Starting -> <<"text", "texts">>
      [] name = Finished -> <<"int", "int", "bool", "text">>
      [] name = StateChanged -> ReadResponseFields(GetState, TRUE)
      [] name = AuthMessage -> <<"text", "text">>
      [] OTHER -> <<>>

ReadWorkerFields(name) ==
    CASE name = Start -> <<"text", "text", "text">>
      [] name = Answer -> <<"blob">>
      [] name \in {Prompt, Failed} -> <<"text", "text">>
      [] OTHER -> <<>>

Session == <<"int", "text", "text">>
Pair == <<"text", "text">>

-----------------------------------------------------------------------------
(* Fields by layout. Values are those of the decoded dictionaries: a list is a  *)
(* sequence of rows, an absent message the empty sequence.                      *)

EncodeScalar(kind, v) ==
    CASE kind \in {"text", "blob"} -> EncodeBlob(v)
      [] kind = "bool" -> EncodeBool(v)
      [] kind = "int" -> EncodeSignedInt(v)

EncodeScalars(kinds, vs) ==
    FlattenSeq([i \in DOMAIN kinds |-> EncodeScalar(kinds[i], vs[i])])

EncodeList(kinds, rows) ==
    Pack(Len(rows)) \o FlattenSeq([i \in DOMAIN rows |-> EncodeScalars(kinds, rows[i])])

Encode(kind, v) ==
    CASE kind = "texts" -> EncodeList(<<"text">>, v)
      [] kind = "sessions" -> EncodeList(Session, v)
      [] kind = "message?" -> IF v = <<>> THEN EncodeBool(FALSE)
                              ELSE EncodeBool(TRUE) \o EncodeScalars(Pair, v)
      [] OTHER -> EncodeScalar(kind, v)

DecodeScalar(kind, s) ==
    CASE kind = "text" -> DecodeText(s)
      [] kind = "blob" -> DecodeBlob(s)
      [] kind = "bool" -> DecodeBool(s)
      [] kind = "int" -> DecodeSignedInt(s)

\* One more value after those read so far.
Then(results, parser) ==
    UNION {{[value |-> Append(r.value, v.value), rest |-> v.rest] : v \in parser[r.rest]} :
           r \in results}

\* The values that a sequence of parsers reads one after the other.
InTurn(parsers, s) ==
    LET upTo[n \in 0..Len(parsers)] ==
            IF n = 0 THEN Result(<<>>, s) ELSE Then(upTo[n - 1], parsers[n])
    IN upTo[Len(parsers)]

DecodeScalars(kinds, s) ==
    InTurn([i \in DOMAIN kinds |-> [t \in Seq(Cell) |-> DecodeScalar(kinds[i], t)]], s)

DecodeList(kinds, s) ==
    IF Len(s) < HeaderSize THEN {}
    ELSE InTurn([i \in 1..Unpack(s) |-> [t \in Seq(Cell) |-> DecodeScalars(kinds, t)]],
                Drop(s, HeaderSize))

Decode(kind, s) ==
    CASE kind = "texts" -> DecodeList(<<"text">>, s)
      [] kind = "sessions" -> DecodeList(Session, s)
      [] kind = "message?" ->
            UNION {IF b.value THEN DecodeScalars(Pair, b.rest) ELSE Result(<<>>, b.rest) :
                   b \in DecodeBool(s)}
      [] OTHER -> DecodeScalar(kind, s)

-----------------------------------------------------------------------------
(* Messages: "type", the fields every message of the type has ("head") and its  *)
(* payload ("fields").                                                          *)

Version == 1
Tag == [request |-> 1, response |-> 2, event |-> 3]

HeadFields(type) ==
    CASE type = "request" -> <<"text", "text">>
      [] type = "response" -> <<"text", "text", "bool">>
      [] type \in {"event", "worker"} -> <<"text">>

PayloadFields(m) ==
    CASE m.type = "request" -> RequestFields(m.head[2])
      [] m.type = "response" -> ResponseFields(m.head[2], m.head[3])
      [] m.type = "event" -> EventFields(m.head[1])
      [] m.type = "worker" -> WorkerFields(m.head[1])

EncodeFields(kinds, vs) == FlattenSeq([i \in DOMAIN kinds |-> Encode(kinds[i], vs[i])])

\* What a field can carry: a text or a list longer than its header counts is
\* refused by struct, like an integer too large, and a str is valid UTF-8.
FitsScalar(kind, v) ==
    CASE kind = "blob" -> v \in Seq(Cell) /\ Len(v) < Base * Base
      [] kind = "text" -> v \in Seq(Cell) /\ Len(v) < Base * Base /\ IsText(v)
      [] kind = "bool" -> v \in BOOLEAN
      [] kind = "int" -> v \in Int /\ -(Base * Base) <= 2 * v /\ 2 * v < Base * Base
      [] OTHER -> FALSE

FitsRow(kinds, row) ==
    row = [i \in DOMAIN kinds |-> row[i]] /\ \A i \in DOMAIN kinds : FitsScalar(kinds[i], row[i])

FitsList(kinds, rows) ==
    \E n \in 0..Base * Base - 1 :
        rows = [i \in 1..n |-> rows[i]] /\ \A i \in 1..n : FitsRow(kinds, rows[i])

Fits(kind, v) ==
    CASE kind = "texts" -> FitsList(<<"text">>, v)
      [] kind = "sessions" -> FitsList(Session, v)
      [] kind = "message?" -> v = <<>> \/ FitsRow(Pair, v)
      [] OTHER -> FitsScalar(kind, v)

FitsFields(kinds, vs) ==
    vs = [i \in DOMAIN kinds |-> vs[i]] /\ \A i \in DOMAIN kinds : Fits(kinds[i], vs[i])

WorkerKinds == {Start, Answer, Cancel, Prompt, Ready, Failed}

WellFormed(protocol, m) ==
    /\ m = [type |-> m.type, head |-> m.head, fields |-> m.fields]
    /\ m.type \in (IF protocol = "worker" THEN {"worker"} ELSE DOMAIN Tag)
    /\ FitsFields(HeadFields(m.type), m.head)
    /\ m.type = "worker" => m.head[1] \in WorkerKinds
    /\ FitsFields(PayloadFields(m), m.fields)

ASSUME MessagesAssumption ==
    \A protocol \in DOMAIN Messages : \A m \in Messages[protocol] : WellFormed(protocol, m)

\* encode_message, before it is framed
Body(m) ==
    <<Version>> \o (IF m.type = "worker" THEN <<>> ELSE <<Tag[m.type]>>)
    \o EncodeFields(HeadFields(m.type), m.head)
    \o EncodeFields(PayloadFields(m), m.fields)

DecodeFields(kinds, s) ==
    InTurn([i \in DOMAIN kinds |-> [t \in Seq(Cell) |-> Decode(kinds[i], t)]], s)

ReadPayloadFields(type, head) ==
    CASE type = "request" -> ReadRequestFields(head[2])
      [] type = "response" -> ReadResponseFields(head[2], head[3])
      [] type = "event" -> ReadEventFields(head[1])
      [] type = "worker" -> ReadWorkerFields(head[1])

DecodeAs(type, s) ==
    UNION {{[type |-> type, head |-> h.value, fields |-> f.value, rest |-> f.rest] :
            f \in DecodeFields(ReadPayloadFields(type, h.value), h.rest)} :
           h \in {h \in DecodeFields(HeadFields(type), s) :
                    type = "worker" => h.value[1] \in WorkerKinds}}

Typed(body) ==
    IF stream.protocol = "worker" THEN DecodeAs("worker", Tail(body))
    ELSE IF Len(body) < 2 THEN {}
    ELSE UNION {DecodeAs(type, Drop(body, 2)) : type \in {t \in DOMAIN Tag : Tag[t] = body[2]}}

Bare(r) == [type |-> r.type, head |-> r.head, fields |-> r.fields]

\* Slip: what follows the message is ignored.
DecodeLoosely(body) ==
    IF body = <<>> \/ Head(body) # Version THEN {} ELSE {Bare(r) : r \in Typed(body)}

\* decode_message: nothing may follow the last field.
DecodeBody(body) ==
    IF body = <<>> \/ Head(body) # Version THEN {}
    ELSE {Bare(r) : r \in {r \in Typed(body) : r.rest = <<>>}}

-----------------------------------------------------------------------------
(* The stream. *)

\* The daemon and the workers always report it, the greeter does not.
Streams == {s \in [protocol : {"greeter", "worker"}, strict : BOOLEAN] :
               s.protocol = "worker" => s.strict}

TypeOK ==
    /\ stream \in Streams
    /\ sent \in Seq(Messages[stream.protocol]) /\ got \in Seq(Messages[stream.protocol])
    /\ Len(got) <= Len(sent)
    /\ wire \in Seq(Cell) /\ frame \in Seq(Cell)
    /\ Len(frame) <= HeaderSize + MaxBody
    /\ open \in BOOLEAN /\ verdict \in {"reading", "eof", "error"}

Init ==
    /\ stream \in Streams
    /\ sent = <<>> /\ wire = <<>> /\ open = TRUE
    /\ frame = <<>> /\ got = <<>> /\ verdict = "reading"

LeaveReader == UNCHANGED <<stream, frame, got, verdict>>

\* encode_frame refuses a body that is too large.
Write(m) ==
    /\ open /\ Len(sent) < MaxSent
    /\ Len(Body(m)) <= MaxBody
    /\ wire' = wire \o Pack(Len(Body(m))) \o Body(m)
    /\ sent' = Append(sent, m)
    /\ LeaveReader /\ UNCHANGED open

Close == open /\ open' = FALSE /\ LeaveReader /\ UNCHANGED <<sent, wire>>

\* The writer dies in the middle of what it was writing.
Cut ==
    /\ open /\ open' = FALSE
    /\ \E n \in 0..Len(wire) : wire' = SubSeq(wire, 1, n)
    /\ LeaveReader /\ UNCHANGED sent

BodyLength == Unpack(frame)
HasHeader == Len(frame) >= HeaderSize
Wanted == HeaderSize + (IF HasHeader THEN BodyLength ELSE 0) - Len(frame)

\* Slip: a read takes whatever the socket has.
ReceiveAll ==
    /\ verdict = "reading" /\ Wanted > 0 /\ wire # <<>>
    /\ frame' = frame \o wire /\ wire' = <<>>
    /\ UNCHANGED <<stream, sent, open, got, verdict>>

\* recv: at most what is wanted, at least one cell.
Receive ==
    /\ verdict = "reading" /\ Wanted > 0
    /\ \E n \in 1..Len(wire) :
          /\ n <= Wanted
          /\ frame' = frame \o SubSeq(wire, 1, n)
          /\ wire' = Drop(wire, n)
    /\ IF Len(frame') >= HeaderSize /\ Unpack(frame') > MaxBody
       THEN verdict' = "error" ELSE UNCHANGED verdict
    /\ UNCHANGED <<stream, sent, open, got>>

\* A whole frame is decoded before the next is begun.
Deliver ==
    /\ verdict = "reading" /\ HasHeader /\ Wanted = 0
    /\ LET messages == DecodeBody(Drop(frame, HeaderSize))
       IN /\ got' = got \o SetToSeq(messages)
          /\ verdict' = IF messages = {} THEN "error" ELSE "reading"
    /\ frame' = <<>>
    /\ UNCHANGED <<stream, sent, wire, open>>

\* Slip: a frame cut short is waited for.
EndBetweenFrames ==
    /\ verdict = "reading" /\ wire = <<>> /\ ~open /\ frame = <<>>
    /\ verdict' = "eof"
    /\ UNCHANGED <<stream, sent, wire, open, frame, got>>

\* The end of the stream. The greeter's blocking reader takes a header cut
\* short for a clean end.
End ==
    /\ verdict = "reading" /\ wire = <<>> /\ ~open /\ Wanted > 0
    /\ verdict' = IF frame = <<>> \/ (~HasHeader /\ ~stream.strict) THEN "eof" ELSE "error"
    /\ UNCHANGED <<stream, sent, wire, open, frame, got>>

Next ==
    \/ \E m \in Messages[stream.protocol] : Write(m)
    \/ Close \/ Cut \/ Receive \/ Deliver \/ End

Spec == Init /\ [][Next]_vars

FairSpec == Spec /\ WF_vars(Receive \/ Deliver \/ End)

-----------------------------------------------------------------------------
\* Whatever the sizes of the reads and wherever the writer dies, the messages
\* decoded are the messages written, in their order (read_frame_socket,
\* encode_message, decode_message).
Undistorted == IsPrefix(got, sent)

\* What has come of a frame is no message before its last cell, and the whole
\* frame would be none with a cell more: no layout is a part of another
\* (decode_message, _finish_decoded_message).
Unambiguous ==
    LET body == Drop(frame, HeaderSize)
    IN /\ HasHeader /\ Wanted > 0 => DecodeBody(body) = {}
       /\ HasHeader /\ Wanted = 0 => \A c \in Cell : DecodeBody(Append(body, c)) = {}

\* Once the writer has closed its end or died, reading comes to an end, and fails
\* only in the middle of a frame: no message written is refused.
ReadingEnds == (~open) ~> (verdict = "eof" \/ (verdict = "error" /\ frame # <<>>))
===============================================================================
