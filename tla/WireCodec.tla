------------------------------- MODULE WireCodec -------------------------------
(***************************************************************************)
(* Frames and payloads of the protocol (remote_wire.rs) on a stream of     *)
(* bytes that may end anywhere: what the server encodes, and what the two  *)
(* readers of a tab list decode, the direct client (decode_tab_list_payload) *)
(* and the window (client_gui.rs, decode_remote_tab_list).                 *)
(*                                                                         *)
(*    sent    the messages encoded so far                                  *)
(*    pipe    the units written and not read yet                           *)
(*    pace    how much of the pipe has arrived at the reader               *)
(*    read    the messages the reader has decoded, each with what either   *)
(*            client made of it                                            *)
(*    state   the stream: open, ended by the writer, or failed             *)
(*                                                                         *)
(* A unit is a number of one width (a u8, u16, u32 or u64 of the format),  *)
(* one byte of a text, or a magic.  A text is a sequence of bytes; a        *)
(* character has one byte, a, or two, lead and trail.                      *)
(***************************************************************************)
EXTENDS Naturals, Sequences, SequencesExt

CONSTANTS
    Texts,        \* the texts of titles, instances and errors
    MaxText,      \* the largest length of a text, u16::MAX
    Ids,          \* tab ids
    MaxTabs,      \* bound: tabs of all lists
    MaxMessages,  \* bound: messages sent
    Refused       \* what a decoder returns for a payload it refuses

\* A text is encoded as UTF-8.
IsUtf8(text) ==
    /\ \A i \in 1..Len(text) :
           /\ text[i] = "lead" => i < Len(text) /\ text[i + 1] = "trail"
           /\ text[i] = "trail" => i > 1 /\ text[i - 1] = "lead"

TextsAssumption ==
    \A text \in Texts : text \in Seq({"a", "lead", "trail"}) /\ IsUtf8(text)

BoundsAssumption == {MaxText, MaxTabs, MaxMessages} \subseteq Nat

VARIABLES sent, pipe, pace, read, state

vars == <<sent, pipe, pace, read, state>>

\* The types of the messages that are sent here, and of one that only another
\* version of the protocol knows.
Types == {"tab-list", "auth-ok", "error", "input"}

\* MessageType::try_from.
IsKnown(ty) == ty \in Types

Codes == {"unknown", "no active tab"}

\* RemoteErrorCode::try_from, unwrap_or(Unknown).
CodeOf(raw) == IF raw \in Codes THEN raw ELSE "unknown"

\* The capabilities a client asks for.
Needed == {"heartbeat", "quic"}

Tabs == [id : Ids, title : Texts, active : BOOLEAN, exited : BOOLEAN]

TabLists == UNION {[1..n -> Tabs] : n \in 0..MaxTabs}

\* A build and an instance are far shorter than MaxText.
Names == {<<>>, <<"a">>}

Messages ==
    [ty : {"tab-list"}, tabs : TabLists]
        \cup [ty : {"auth-ok"}, version : {1, 2}, capabilities : {Needed, {"heartbeat"}},
              build : Names, instance : Names]
        \cup [ty : {"error"}, code : Codes \cup {"newer"}, text : Texts]
        \cup [ty : {"input"}, seq : {0, 1}, text : Texts]
        \cup [ty : {"newer"}]

-----------------------------------------------------------------------------
(* The server writes.                                                      *)

\* push_string: a text is cut at a byte.
TextOf(text) ==
    LET len == IF Len(text) < MaxText THEN Len(text) ELSE MaxText
    IN  <<len>> \o SubSeq(text, 1, len)

Flags(tab) == (IF tab.active THEN 1 ELSE 0) + (IF tab.exited THEN 2 ELSE 0)

\* encode_tab_list; name and working directory are texts like the title.
EncodeTabList(tabs) ==
    FoldLeft(LAMBDA payload, tab : payload \o <<tab.id>> \o TextOf(tab.title) \o <<Flags(tab)>>,
             <<Len(tabs)>>, tabs)

\* encode_auth_ok_payload, encode_error_payload, and an input with its sequence
\* number, as a window writes it.
Encode(m) ==
    CASE m.ty = "tab-list" -> EncodeTabList(m.tabs)
      [] m.ty = "auth-ok" ->
             <<m.version, m.capabilities, Len(m.build)>> \o m.build
                 \o <<Len(m.instance)>> \o m.instance
      [] m.ty = "error" -> <<m.code>> \o m.text
      [] m.ty = "input" -> <<m.seq>> \o m.text
      [] m.ty = "newer" -> <<>>

\* encode_message.
Frame(m) == <<"magic", m.ty, Len(Encode(m))>> \o Encode(m)

-----------------------------------------------------------------------------
(* The clients read.  A decoder keeps its offset; ok is whether it goes on. *)

Start(payload, offset) == [ok |-> TRUE, offset |-> offset, payload |-> payload, tabs |-> <<>>]

Has(d, n) == d.offset + n <= Len(d.payload)

\* read_u32, and read_string of a text whose length comes first.
TextAt(d, offset) == SubSeq(d.payload, offset + 2, offset + 1 + d.payload[offset + 1])

\* The next tab.  Both decoders refuse a payload that ends early or a text that
\* is not UTF-8; a length is never read past the end.
ReadTab(d, i) ==
    LET Fails == [d EXCEPT !.ok = FALSE]
    IN  IF ~d.ok \/ ~Has(d, 2) THEN Fails
        ELSE LET len == d.payload[d.offset + 2]
             IN  IF ~Has(d, 2 + len) THEN Fails
                 ELSE IF ~IsUtf8(TextAt(d, d.offset + 1)) \/ ~Has(d, 3 + len) THEN Fails
                 ELSE LET flags == d.payload[d.offset + 3 + len]
                      IN  [d EXCEPT
                             !.offset = @ + 3 + len,
                             !.tabs = Append(@, [id |-> d.payload[d.offset + 1],
                                                 title |-> TextAt(d, d.offset + 1),
                                                 active |-> flags % 2 = 1,
                                                 exited |-> flags \div 2 = 1])]

ReadTabs(payload) ==
    FoldLeft(ReadTab, Start(payload, 1), [i \in 1..payload[1] |-> i])

\* Mutant: the window takes what it could read of a list.
DecodeWindowPart(payload) ==
    IF payload = <<>> THEN Refused ELSE ReadTabs(payload).tabs

\* decode_remote_tab_list.
DecodeWindow(payload) ==
    IF payload = <<>> THEN Refused
    ELSE LET d == ReadTabs(payload) IN IF d.ok THEN d.tabs ELSE Refused

\* decode_tab_list_payload, which refuses trailing bytes as well.
DecodeDirect(payload) ==
    IF payload = <<>> THEN Refused
    ELSE LET d == ReadTabs(payload)
         IN  IF d.ok /\ d.offset = Len(payload) THEN d.tabs ELSE Refused

\* decode_auth_ok_payload: the texts are optional, but one that is cut is refused,
\* and each is none if it is not UTF-8, which is given here as an empty one.
DecodeAuth(payload) ==
    LET Ends(offset) == offset > Len(payload)
        IsCut(offset) == ~Ends(offset) /\ offset + payload[offset] > Len(payload)
        Text(offset) ==
            LET text == SubSeq(payload, offset + 1, offset + payload[offset])
            IN  IF Ends(offset) \/ ~IsUtf8(text) THEN <<>> ELSE text
        next == IF Ends(3) THEN 3 ELSE 4 + payload[3]
    IN  IF Len(payload) < 2 \/ IsCut(3) \/ IsCut(next) THEN Refused
        ELSE [version |-> payload[1], capabilities |-> payload[2],
              build |-> Text(3), instance |-> Text(next)]

\* Mutant: a server of another version is accepted.
ValidateAnyVersion(auth) ==
    /\ auth # Refused
    /\ Needed \subseteq auth.capabilities
    /\ auth.build # <<>>
    /\ auth.instance # <<>>

\* validate_auth_ok_payload.
Validate(auth) ==
    /\ auth # Refused
    /\ auth.version = 1
    /\ Needed \subseteq auth.capabilities
    /\ auth.build # <<>>
    /\ auth.instance # <<>>

\* decode_error_payload.
DecodeError(payload) ==
    IF payload = <<>> \/ ~IsUtf8(Tail(payload)) THEN Refused
    ELSE [code |-> CodeOf(Head(payload)), text |-> Tail(payload)]

\* Mutant: an input of the local stream is read as one without a number.
DecodeInputRemote(payload) ==
    IF payload = <<>> THEN Refused ELSE [seq |-> 0, text |-> payload]

\* parse_input_payload of a local stream.
DecodeInput(payload) ==
    IF payload = <<>> THEN Refused ELSE [seq |-> Head(payload), text |-> Tail(payload)]

\* What the window and the direct client make of a payload.
Decoded(ty, payload) ==
    CASE ty = "tab-list" -> <<DecodeWindow(payload), DecodeDirect(payload)>>
      [] ty = "auth-ok" -> <<DecodeAuth(payload), Validate(DecodeAuth(payload))>>
      [] ty = "error" -> <<DecodeError(payload)>>
      [] ty = "input" -> <<DecodeInput(payload)>>

-----------------------------------------------------------------------------
(* The stream.                                                             *)

HeaderLen == 3

Init ==
    /\ sent = <<>>
    /\ pipe = <<>>
    /\ pace = 0
    /\ read = <<>>
    /\ state = "open"

TabsOf(m) == IF m.ty = "tab-list" THEN Len(m.tabs) ELSE 0

\* The writer loop writes a frame.
Write(m) ==
    /\ state = "open"
    /\ Len(sent) < MaxMessages
    /\ FoldLeft(LAMBDA n, other : n + TabsOf(other), TabsOf(m), sent) <= MaxTabs
    /\ sent' = Append(sent, m)
    /\ pipe' = pipe \o Frame(m)
    /\ UNCHANGED <<pace, read, state>>

\* More units arrive, up to the end of a header or of what was written.
Arrive ==
    /\ state = "open"
    /\ pace < Len(pipe)
    /\ pace' \in {n \in {HeaderLen - 1, HeaderLen, Len(pipe) - 1, Len(pipe)} : n > pace}
    /\ pace' <= Len(pipe)
    /\ UNCHANGED <<sent, pipe, read, state>>

\* The writer is gone; what has not arrived is lost.
End ==
    /\ state = "open"
    /\ state' = "ended"
    /\ pipe' = SubSeq(pipe, 1, pace)
    /\ UNCHANGED <<sent, pace, read>>

\* read_exact of the header, then of the payload: it waits for all of it.
Complete == pace >= HeaderLen /\ pace >= HeaderLen + pipe[3]

\* read_message.
Read ==
    /\ state # "failed"
    /\ Complete
    /\ LET ty == pipe[2]
           last == IF HeaderLen + pipe[3] < pace THEN HeaderLen + pipe[3] ELSE pace
       IN  IF pipe[1] # "magic" \/ ~IsKnown(ty)
           THEN /\ state' = "failed"
                /\ UNCHANGED <<sent, pipe, pace, read>>
           ELSE /\ read' = Append(read, [ty |-> ty,
                                          as |-> Decoded(ty, SubSeq(pipe, HeaderLen + 1, last))])
                /\ pipe' = SubSeq(pipe, last + 1, Len(pipe))
                /\ pace' = pace - last
                /\ UNCHANGED <<sent, state>>

\* The end of the stream inside of a message, or after the last.
ReadEnd ==
    /\ state = "ended"
    /\ ~Complete
    /\ state' = "failed"
    /\ UNCHANGED <<sent, pipe, pace, read>>

Next == (\E m \in Messages : Write(m)) \/ Arrive \/ End \/ Read \/ ReadEnd

Spec == Init /\ [][Next]_vars

-----------------------------------------------------------------------------
(* Properties.                                                             *)

TypeOK ==
    /\ sent \in Seq(Messages)
    /\ pace \in 0..Len(pipe)
    /\ Len(read) <= Len(sent)
    /\ state \in {"open", "ended", "failed"}

\* The text a client gets of a text the server has.
CutText(text) == SubSeq(text, 1, IF Len(text) < MaxText THEN Len(text) ELSE MaxText)

Fits(text) == IsUtf8(CutText(text))

Known(m) == [m EXCEPT !.tabs = [i \in 1..Len(@) |-> [@[i] EXCEPT !.title = CutText(@)]]]

\* Every tab list that was read is the one that was sent, for the window and for
\* the direct client, with texts cut at the longest; but one text that is cut
\* within a character makes both refuse the whole list.
TabListsArrive ==
    \A i \in 1..Len(read) :
        sent[i].ty = "tab-list" =>
            read[i].as = IF \A t \in 1..Len(sent[i].tabs) : Fits(sent[i].tabs[t].title)
                         THEN <<Known(sent[i]).tabs, Known(sent[i]).tabs>>
                         ELSE <<Refused, Refused>>

\* The messages are read in the order they were sent, whole, however they arrive;
\* the reader fails only at the end of the stream or at a type it does not know.
FramesArrive ==
    /\ \A i \in 1..Len(read) :
           /\ read[i].ty = sent[i].ty
           /\ sent[i].ty = "input" =>
                  read[i].as = <<[seq |-> sent[i].seq, text |-> sent[i].text]>>
           /\ sent[i].ty = "error" =>
                  read[i].as = <<[code |-> CodeOf(sent[i].code), text |-> sent[i].text]>>
    /\ (state = "failed" /\ Complete) => sent[Len(read) + 1].ty = "newer"

\* A client goes on after the handshake only with a server of its version that
\* has what it needs and names its build and instance.
HandshakeIsSound ==
    \A i \in 1..Len(read) :
        (sent[i].ty = "auth-ok" /\ read[i].as[2]) =>
            /\ sent[i].version = 1
            /\ sent[i].capabilities = Needed
            /\ sent[i].build # <<>>
            /\ sent[i].instance # <<>>
=============================================================================
