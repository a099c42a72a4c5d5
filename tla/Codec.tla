-------------------------------- MODULE Codec --------------------------------
(***************************************************************************)
(* packet_implem.c: how one datagram after another is built and encoded by *)
(* a program, cut or altered by the link, and decoded by the other one     *)
(* into a struct that is used again and again and never cleared.           *)
(*                                                                         *)
(* Assumption: a CRC32 tells any two contents apart.  It is modelled by    *)
(* the content it was computed over; Junk is a CRC of nothing else.        *)
(* Timestamps are treated as seqnums are and left out.                     *)
(***************************************************************************)
EXTENDS Integers, Sequences

CONSTANTS
    MaxWindow,    \* MAX_WINDOW_SIZE
    MaxSeqnum,    \* 255
    MaxPayload,   \* MAX_PAYLOAD_SIZE
    Byte,         \* what a byte of a payload can be
    Junk

ASSUME CodecAssumption ==
    /\ MaxWindow \in Nat /\ MaxSeqnum \in Nat /\ MaxPayload \in Nat

DATA == 1
ACK == 2
NACK == 3

\* One length stands for all those above MaxPayload.
Length == 0 .. MaxPayload + 1

\* A struct pkt without its two CRCs, which decode only passes on.
Pkt == [type : 0 .. 3, tr : 0 .. 1, window : 0 .. MaxWindow, length : Length,
        seqnum : 0 .. MaxSeqnum, payload : [1 .. MaxPayload -> Byte]]

Payloads == UNION {[1 .. n -> Byte] : n \in 0 .. MaxPayload}

\* What the CRC of a header is computed over.
Headers == [type : 0 .. 3, window : 0 .. MaxWindow, length : Length, seqnum : 0 .. MaxSeqnum]

ASSUME JunkAssumption == Junk \notin Payloads \cup Headers

VARIABLES
    sent,     \* the datagram as it was encoded
    wire,     \* the datagram as it arrives
    link,     \* "idle", or what the link did: "kept", "cut" or "altered"
    pkt,      \* the struct the receiving side decodes into
    status    \* the result of the last call, or "none"

vars == <<sent, wire, link, pkt, status>>

\* build_pkt() and build_ack() set every field; an ACK has no payload.
Built(type, window, seqnum, payload) ==
    [type |-> type, tr |-> 0, window |-> window, length |-> Len(payload),
     seqnum |-> seqnum, payload |-> payload]

\* What the CRC of the header covers: not TR, which the link may set.
HeaderBug(d) == [type |-> d.type, tr |-> d.tr, window |-> d.window, length |-> d.length,
                 seqnum |-> d.seqnum]

Header(d) == [type |-> d.type, window |-> d.window, length |-> d.length, seqnum |-> d.seqnum]

HeaderBytes(d) == IF d.type = DATA THEN 12 ELSE 10

\* The size decode asks for, and encode writes: a cut packet ends with its header,
\* an empty payload has no CRC.
Needed(d) ==
    HeaderBytes(d) +
        IF d.tr = 0 /\ d.type = DATA /\ d.length > 0 THEN d.length + 4 ELSE 0

\* The datagram of a packet: its fields, the CRC of its header with TR as 0, the
\* CRC of its payload, and its size.
Encoded(p) ==
    [type |-> p.type, tr |-> p.tr, window |-> p.window, length |-> p.length,
     seqnum |-> p.seqnum, payload |-> p.payload,
     crc1 |-> Header(p), crc2 |-> p.payload, bytes |-> Needed(p)]

NothingSent == Encoded(Built(DATA, 0, 0, <<>>))

\* pkt_new() does not clear the struct.
Init ==
    /\ pkt \in Pkt
    /\ sent = NothingSent /\ wire = NothingSent
    /\ link = "idle" /\ status = "none"

Encode ==
    /\ link = "idle"
    /\ \E type \in {DATA, ACK, NACK}, window \in 0 .. MaxWindow,
          seqnum \in 0 .. MaxSeqnum, payload \in Payloads :
          /\ type # DATA => payload = <<>> /\ window = MaxWindow
          /\ sent' = Encoded(Built(type, window, seqnum, payload))
    /\ wire' = sent'
    /\ link' = "kept" /\ status' = "none"
    /\ UNCHANGED pkt

\* The link cuts what follows the header, and says so in TR.
Cut ==
    /\ link = "kept" /\ wire.bytes > 12
    /\ wire' = [wire EXCEPT !.tr = 1, !.bytes = 12]
    /\ link' = "cut"
    /\ UNCHANGED <<sent, pkt, status>>

\* Every bit of one byte is inverted: of the first, which holds three fields, of
\* the length, of the seqnum, of a CRC or of the payload.
Altered(d) ==
    {[d EXCEPT !.type = 3 - @, !.tr = 1 - @, !.window = MaxWindow - @],
     [d EXCEPT !.seqnum = MaxSeqnum - @],
     [d EXCEPT !.crc1 = Junk]}
    \cup {[d EXCEPT !.length = n] : n \in IF d.type = DATA THEN Length \ {d.length} ELSE {}}
    \cup {[d EXCEPT !.crc2 = Junk] : n \in 1 .. Len(d.payload)}
    \cup {[d EXCEPT !.payload[n] = b] : n \in 1 .. Len(d.payload), b \in Byte}

Alter ==
    /\ link = "kept"
    /\ wire' \in Altered(wire) \ {wire}
    /\ link' = "altered"
    /\ UNCHANGED <<sent, pkt, status>>

\* pkt_set_length() refuses what is too long, and its result is not looked at.
SetLength(p, n) == IF n <= MaxPayload THEN [p EXCEPT !.length = n] ELSE p

\* The bit is not shifted to the right.
SetTrBug(p, tr) == [p EXCEPT !.tr = 32 * tr]

\* pkt_set_tr() refuses the flag on a packet that is not DATA.
SetTr(p, tr) == IF p.type # DATA /\ tr # 0 THEN p ELSE [p EXCEPT !.tr = tr]

\* The header overwrites the struct before its CRC is looked at, with TR as 0.  (A
\* datagram whose type was altered is read with its fields shifted by two bytes;
\* its CRC fails whatever they are.)
HeaderDecoded(d) ==
    SetLength([pkt EXCEPT !.type = d.type, !.tr = 0, !.window = d.window,
                          !.seqnum = d.seqnum],
              IF d.type = DATA THEN d.length ELSE 0)

\* The CRC of the header is not compared.
Crc1OkBug(d) == TRUE

Crc1Ok(d) == d.crc1 = Header(d)

\* Only as much of the old payload is overwritten as the new one is long.
PayloadDecoded(p, d) ==
    [p EXCEPT !.payload = [i \in 1 .. MaxPayload |->
        IF i <= p.length THEN d.payload[i] ELSE @[i]]]

\* The payload's CRC is not compared.
Crc2OkBug(p, d) == TRUE

Crc2Ok(p, d) == d.crc2 = SubSeq(p.payload, 1, p.length)

Decode ==
    /\ link # "idle"
    /\ link' = "idle"
    /\ LET p == HeaderDecoded(wire)
           q == SetTr(p, wire.tr)
           r == PayloadDecoded(q, wire)
           reads == q.tr = 0 /\ q.length > 0
       IN  IF wire.bytes < Needed(wire) THEN status' = "E_NOMEM" /\ UNCHANGED pkt
           ELSE IF ~Crc1Ok(wire) THEN status' = "E_CRC" /\ pkt' = p
           ELSE IF ~reads THEN status' = "PKT_OK" /\ pkt' = q
           ELSE /\ status' = IF Crc2Ok(r, wire) THEN "PKT_OK" ELSE "E_CRC"
                /\ pkt' = r
    /\ UNCHANGED <<sent, wire>>

Next == Encode \/ Cut \/ Alter \/ Decode

Spec == Init /\ [][Next]_vars
----------------------------------------------------------------------------
Datagram == [type : 0 .. 3, tr : 0 .. 1, window : 0 .. MaxWindow, length : Length,
             seqnum : 0 .. MaxSeqnum, payload : Payloads, bytes : Nat]

\* The fields of a datagram that have a type of their own.
Fields(d) == [f \in DOMAIN NothingSent \ {"crc1", "crc2"} |-> d[f]]

TypeOK ==
    /\ Fields(sent) \in Datagram /\ Fields(wire) \in Datagram
    /\ pkt \in Pkt
    /\ link \in {"idle", "kept", "cut", "altered"}
    /\ status \in {"none", "PKT_OK", "E_NOMEM", "E_CRC"}

\* The inductive invariant behind the properties.  What is on its way is a packet one
\* of the programs built, and the link did to it what it says.
SentInv ==
    \E type \in {DATA, ACK, NACK}, window \in 0 .. MaxWindow,
       seqnum \in 0 .. MaxSeqnum, payload \in Payloads :
        /\ type # DATA => payload = <<>>
        /\ sent = Encoded(Built(type, window, seqnum, payload))

LinkInv ==
    /\ link = "kept" => wire = sent
    /\ link = "cut" => sent.bytes > 12 /\ wire = [sent EXCEPT !.tr = 1, !.bytes = 12]
    /\ link = "altered" => wire \in Altered(sent) \ {sent}
    /\ link # "idle" => status = "none"

CodecInv == TypeOK /\ SentInv /\ LinkInv

\* A packet that decode accepts is the one that was sent, whatever the struct held
\* before: no length, flag or payload of an earlier packet shows through, and one
\* that had a byte altered is not accepted (packet_implem.c:33-103).
AcceptedIsSent ==
    status = "PKT_OK" =>
        /\ Header(pkt) = Header(sent)
        /\ pkt.tr = 0 => SubSeq(pkt.payload, 1, pkt.length) = sent.payload
        /\ pkt.tr = 1 <=> wire.bytes < sent.bytes

\* A datagram the link left alone or only cut is accepted, so the CRC of the header
\* of a cut packet must not depend on TR ("en considerant le champ TR a 0",
\* packet_interface.h:50).
HonestIsAccepted == [][Decode /\ link # "altered" => status' = "PKT_OK"]_vars
=============================================================================
