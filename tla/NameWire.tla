------------------------------ MODULE NameWire ------------------------------
(***************************************************************************)
(* Domain names as octets, whole or compressed: unparse_name and           *)
(* parse_name of src/message/dns_message_serial.cpp.                       *)
(*                                                                         *)
(* Every width and limit of the code that follows from the eight bits of   *)
(* an octet is written in MAX_LABEL_LENGTH: a length with either of its top*)
(* two bits set is no label's, a pointer has the other bits of two octets. *)
(* A small one makes the limits reachable: with 16 a label has at most 15  *)
(* octets on the wire and a pointer reaches the first 1024 octets of a     *)
(* message.                                                                *)
(***************************************************************************)
EXTENDS Naturals, Sequences

CONSTANTS
    MAX_LABEL_LENGTH,   \* a quarter of the octets there are: 64
    Bad                 \* what is made where something throws
ASSUME LabelAssumption == MAX_LABEL_LENGTH \in Nat \ {0}

Base == 4 * MAX_LABEL_LENGTH
MAX_DOMAIN_NAME_LENGTH == Base - 3
MAX_DOMAIN_NAME_COMPONENTS == 2 * MAX_LABEL_LENGTH
PointerMark == 3 * MAX_LABEL_LENGTH
PointerReach == MAX_LABEL_LENGTH * Base

----------------------------------------------------------------------------
(* Unparsing.  A writer has the octets so far, the offsets of the names    *)
(* among them, and whether something has thrown.                           *)

Writer == [raw |-> <<>>, offsets |-> <<>>, thrown |-> FALSE]

PutOctets(w, octets) == [w EXCEPT !.raw = @ \o octets]
PutOctet(w, n) == PutOctets(w, <<n % Base>>)
\* Text of one length octet; a length has the width of an octet.
PutString(w, text) == PutOctets(PutOctet(w, Len(text)), text)

\* name_offsets, with one more
WithOffset(offsets, name, at) ==
    [other \in {name} \cup DOMAIN offsets |-> IF other = name THEN at ELSE offsets[other]]
\* For the checks: the offset remembered is the one after the length of the label.
RememberLate(w, name) ==
    [w EXCEPT !.offsets = WithOffset(@, name, (Len(w.raw) + 1) % (Base * Base))]
\* An offset is an unsigned short, and or-ing the mark into one leaves what the
\* pointer's bits hold of it.
Remember(w, name) == [w EXCEPT !.offsets = WithOffset(@, name, Len(w.raw) % (Base * Base))]
PutPointer(w, offset) ==
    PutOctets(w, <<PointerMark + ((offset \div Base) % MAX_LABEL_LENGTH), offset % Base>>)

\* unparse_name, label after label: where what is left of the name has been
\* written before, a pointer to it ends the name.
PutLabel(before, left, compress) ==
    IF before.pointed THEN before
    ELSE IF compress /\ left \in DOMAIN before.writer.offsets
    THEN [writer |-> PutPointer(before.writer, before.writer.offsets[left]), pointed |-> TRUE]
    ELSE [writer |-> PutString(IF compress THEN Remember(before.writer, left) ELSE before.writer,
                               Head(left)),
          pointed |-> FALSE]
PutName(w, name, compress) ==
    LET put[k \in 0..Len(name)] ==
            IF k = 0 THEN [writer |-> w, pointed |-> FALSE]
            ELSE PutLabel(put[k - 1], SubSeq(name, k, Len(name)), compress)
        end == put[Len(name)]
    IN  IF end.pointed THEN end.writer ELSE PutOctet(end.writer, 0)

----------------------------------------------------------------------------
(* Parsing.  What is parsed is a value with the offset after it.           *)

Parsed(value, at) == [value |-> value, at |-> at]

\* parse_name, after so many rounds: at is the offset, octets are those of the
\* labels, after is saved_offset, of what follows the first pointer.
Unread(at) == [at |-> at, value |-> <<>>, octets |-> 0, after |-> 0, state |-> "on"]
GivenUp(reading) == [reading EXCEPT !.state = "thrown"]
WithLabel(reading, label) ==
    [at |-> reading.at + 1 + Len(label), value |-> Append(reading.value, label),
     octets |-> reading.octets + Len(label) + 1, after |-> reading.after, state |-> "on"]
WithPointer(reading, to) ==
    [reading EXCEPT !.at = to, !.after = IF @ = 0 THEN reading.at + 2 ELSE @]
\* size is where the record says that it ends; what lies beyond the message is
\* undefined and counts as something that throws.
Within(raw, size, end) == end <= size /\ end <= Len(raw)
GetLabel(raw, size, reading) ==
    LET at == reading.at
        length == raw[at + 1]
    IN  IF reading.state # "on" THEN reading
        ELSE IF ~Within(raw, size, at + 1) THEN GivenUp(reading)
        ELSE IF length = 0 THEN [reading EXCEPT !.state = "end"]
        ELSE IF length >= PointerMark
        THEN IF ~Within(raw, size, at + 2) THEN GivenUp(reading)
             ELSE WithPointer(reading, ((length * Base) + raw[at + 2]) % PointerReach)
        ELSE IF \/ length >= MAX_LABEL_LENGTH
                \/ ~Within(raw, size, at + 1 + length)
                \/ reading.octets + length + 1 > MAX_DOMAIN_NAME_LENGTH + 1
        THEN GivenUp(reading)
        ELSE WithLabel(reading, SubSeq(raw, at + 2, at + 1 + length))
GetName(raw, size, at) ==
    LET got[n \in 0..MAX_DOMAIN_NAME_COMPONENTS] ==
            IF n = 0 THEN Unread(at) ELSE GetLabel(raw, size, got[n - 1])
        end == got[MAX_DOMAIN_NAME_COMPONENTS]
    IN  IF end.state # "end" THEN Bad
        ELSE Parsed(end.value, IF end.after = 0 THEN end.at + 1 ELSE end.after)
=============================================================================
