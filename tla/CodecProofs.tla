----------------------------- MODULE CodecProofs -----------------------------
(***************************************************************************)
(* The codec, for every window, range of seqnums, size of payload and      *)
(* alphabet: what decode accepts is what was sent, and it accepts all that *)
(* arrives unaltered.                                                      *)
(***************************************************************************)
EXTENDS Codec, TLAPS, SequenceTheorems

LEMMA Sizes ==
    /\ MaxWindow \in Nat /\ MaxSeqnum \in Nat /\ MaxPayload \in Nat
    /\ DATA = 1 /\ ACK = 2 /\ NACK = 3
    /\ Length = 0 .. MaxPayload + 1
BY CodecAssumption DEF DATA, ACK, NACK, Length

\* The fields a datagram is typed by.
LEMMA FieldsIs ==
    ASSUME NEW d
    PROVE  Fields(d) \in Datagram <=>
              /\ d.type \in 0 .. 3 /\ d.tr \in 0 .. 1 /\ d.window \in 0 .. MaxWindow
              /\ d.length \in Length /\ d.seqnum \in 0 .. MaxSeqnum
              /\ d.payload \in Payloads /\ d.bytes \in Nat
<1>1. DOMAIN NothingSent \ {"crc1", "crc2"}
          = {"type", "tr", "window", "length", "seqnum", "payload", "bytes"}
  BY DEF NothingSent, Encoded
<1>2. Fields(d) = [type |-> d.type, tr |-> d.tr, window |-> d.window, length |-> d.length,
                   seqnum |-> d.seqnum, payload |-> d.payload, bytes |-> d.bytes]
  BY <1>1 DEF Fields
<1> QED
  BY <1>2 DEF Datagram

\* A payload and its length.
LEMMA PayloadIs ==
    ASSUME NEW p \in Payloads
    PROVE  /\ p \in Seq(Byte) /\ Len(p) \in 0 .. MaxPayload /\ p \in [1 .. Len(p) -> Byte]
           /\ p # Junk
<1>1. PICK n \in 0 .. MaxPayload : p \in [1 .. n -> Byte]
  BY DEF Payloads
<1>2. n \in Nat
  BY Sizes, SMT
<1>3. p \in Seq(Byte) /\ Len(p) = n
  BY <1>1, <1>2
<1> QED
  BY <1>1, <1>3, JunkAssumption

\* The datagrams the programs send.
LEMMA SentIs ==
    ASSUME SentInv
    PROVE  /\ sent.type \in {DATA, ACK, NACK} /\ sent.tr = 0
           /\ sent.window \in 0 .. MaxWindow /\ sent.seqnum \in 0 .. MaxSeqnum
           /\ sent.payload \in Payloads /\ sent.length = Len(sent.payload)
           /\ sent.type # DATA => sent.length = 0
           /\ sent.crc1 = Header(sent) /\ sent.crc2 = sent.payload
           /\ sent.bytes = Needed(sent)
           /\ sent = [type |-> sent.type, tr |-> sent.tr, window |-> sent.window,
                      length |-> sent.length, seqnum |-> sent.seqnum,
                      payload |-> sent.payload, crc1 |-> sent.crc1, crc2 |-> sent.crc2,
                      bytes |-> sent.bytes]
<1>1. PICK type \in {DATA, ACK, NACK}, window \in 0 .. MaxWindow,
           seqnum \in 0 .. MaxSeqnum, payload \in Payloads :
              /\ type # DATA => payload = <<>>
              /\ sent = Encoded(Built(type, window, seqnum, payload))
  BY DEF SentInv
<1>2. PICK p : p = Built(type, window, seqnum, payload)
  OBVIOUS
<1>3. /\ p.type = type /\ p.tr = 0 /\ p.window = window /\ p.length = Len(payload)
      /\ p.seqnum = seqnum /\ p.payload = payload
  BY <1>2 DEF Built
<1>4. sent = [type |-> p.type, tr |-> p.tr, window |-> p.window, length |-> p.length,
              seqnum |-> p.seqnum, payload |-> p.payload,
              crc1 |-> Header(p), crc2 |-> p.payload, bytes |-> Needed(p)]
  BY <1>1, <1>2 DEF Encoded
<1>5. Header(sent) = Header(p) /\ Needed(sent) = Needed(p)
  BY <1>4 DEF Header, Needed, HeaderBytes
<1>6. type # DATA => Len(payload) = 0
  BY <1>1, EmptySeq
<1> QED
  BY <1>1, <1>3, <1>4, <1>5, <1>6

\* The size of a datagram: only one with a payload is longer than 12 bytes.
LEMMA BytesAre ==
    ASSUME SentInv
    PROVE  /\ sent.bytes \in Nat
           /\ sent.bytes > 12 <=> sent.type = DATA /\ sent.length > 0
<1>1. /\ sent.type \in {DATA, ACK, NACK} /\ sent.tr = 0 /\ sent.length \in 0 .. MaxPayload
      /\ sent.bytes = Needed(sent) /\ (sent.type # DATA => sent.length = 0)
  BY SentIs, PayloadIs
<1> QED
  BY <1>1, Sizes, SMT DEF Needed, HeaderBytes

\* A payload that still has the CRC of the one that was sent, or none that fits.
PayloadSpoiled(d) ==
    /\ d.type = DATA /\ d.tr = 0 /\ d.length = Len(d.payload) /\ d.length > 0
    /\ d.payload \in Payloads
    /\ d.crc2 # d.payload

\* A byte altered shows: in the CRC of the header, or in that of the payload.
LEMMA AlteredIs ==
    ASSUME SentInv, NEW w \in Altered(sent), w # sent
    PROVE  /\ Fields(w) \in Datagram
           /\ ~Crc1Ok(w) \/ PayloadSpoiled(w)
<1>1. /\ sent.type \in {1, 2, 3} /\ sent.tr = 0
      /\ sent.window \in 0 .. MaxWindow /\ sent.seqnum \in 0 .. MaxSeqnum
      /\ sent.payload \in Payloads /\ sent.length = Len(sent.payload)
      /\ sent.type # DATA => sent.length = 0
      /\ sent.crc1 = Header(sent) /\ sent.crc2 = sent.payload
      /\ sent = [type |-> sent.type, tr |-> sent.tr, window |-> sent.window,
                 length |-> sent.length, seqnum |-> sent.seqnum,
                 payload |-> sent.payload, crc1 |-> sent.crc1, crc2 |-> sent.crc2,
                 bytes |-> sent.bytes]
  BY SentIs, Sizes
<1>2. /\ sent.length \in 0 .. MaxPayload /\ sent.payload \in [1 .. sent.length -> Byte]
      /\ sent.payload \in Seq(Byte)
      /\ sent.bytes \in Nat /\ sent.length \in Length /\ sent.type \in 0 .. 3 /\ 0 \in 0 .. 1
  BY <1>1, PayloadIs, BytesAre, Sizes, SMT
<1>3. CASE w = [sent EXCEPT !.type = 3 - @, !.tr = 1 - @, !.window = MaxWindow - @]
  <2>1. w = [type |-> 3 - sent.type, tr |-> 1 - sent.tr, window |-> MaxWindow - sent.window,
             length |-> sent.length, seqnum |-> sent.seqnum,
             payload |-> sent.payload, crc1 |-> sent.crc1, crc2 |-> sent.crc2,
             bytes |-> sent.bytes]
    BY <1>1, <1>3
  <2>2. /\ 3 - sent.type \in 0 .. 3 /\ 3 - sent.type # sent.type
        /\ 1 - sent.tr \in 0 .. 1 /\ MaxWindow - sent.window \in 0 .. MaxWindow
    BY <1>1, Sizes, SMT
  <2>3. Header(w).type # Header(sent).type
    BY <2>1, <2>2 DEF Header
  <2>4. ~Crc1Ok(w)
    BY <1>1, <2>1, <2>3 DEF Crc1Ok
  <2> QED
    BY <1>1, <1>2, <2>1, <2>2, <2>4, FieldsIs
<1>4. CASE w = [sent EXCEPT !.seqnum = MaxSeqnum - @]
  <2>1. w = [type |-> sent.type, tr |-> sent.tr, window |-> sent.window,
             length |-> sent.length, seqnum |-> MaxSeqnum - sent.seqnum,
             payload |-> sent.payload, crc1 |-> sent.crc1, crc2 |-> sent.crc2,
             bytes |-> sent.bytes]
    BY <1>1, <1>4
  <2>2. MaxSeqnum - sent.seqnum \in 0 .. MaxSeqnum
    BY <1>1, Sizes, SMT
  <2>3. Header(w).seqnum # Header(sent).seqnum
    BY <1>1, <2>1 DEF Header
  <2>4. ~Crc1Ok(w)
    BY <1>1, <2>1, <2>3 DEF Crc1Ok
  <2> QED
    BY <1>1, <1>2, <2>1, <2>2, <2>4, FieldsIs
<1>5. CASE w = [sent EXCEPT !.crc1 = Junk]
  <2>1. w = [type |-> sent.type, tr |-> sent.tr, window |-> sent.window,
             length |-> sent.length, seqnum |-> sent.seqnum,
             payload |-> sent.payload, crc1 |-> Junk, crc2 |-> sent.crc2,
             bytes |-> sent.bytes]
    BY <1>1, <1>5
  <2>2. Header(w) \in Headers
    BY <1>1, <1>2, <2>1 DEF Header, Headers
  <2>3. ~Crc1Ok(w)
    BY <2>1, <2>2, JunkAssumption DEF Crc1Ok
  <2> QED
    BY <1>1, <1>2, <2>1, <2>3, FieldsIs
<1>6. ASSUME NEW n \in Length \ {sent.length}, w = [sent EXCEPT !.length = n]
      PROVE  Fields(w) \in Datagram /\ ~Crc1Ok(w)
  <2>1. w = [type |-> sent.type, tr |-> sent.tr, window |-> sent.window,
             length |-> n, seqnum |-> sent.seqnum,
             payload |-> sent.payload, crc1 |-> sent.crc1, crc2 |-> sent.crc2,
             bytes |-> sent.bytes]
    BY <1>1, <1>6
  <2>2. Header(w).length # Header(sent).length
    BY <1>6, <2>1 DEF Header
  <2>3. ~Crc1Ok(w)
    BY <1>1, <2>1, <2>2 DEF Crc1Ok
  <2> QED
    BY <1>1, <1>2, <2>1, <2>3, FieldsIs
<1>7. ASSUME NEW n \in 1 .. Len(sent.payload), w = [sent EXCEPT !.crc2 = Junk]
      PROVE  Fields(w) \in Datagram /\ PayloadSpoiled(w)
  <2>1. w = [type |-> sent.type, tr |-> sent.tr, window |-> sent.window,
             length |-> sent.length, seqnum |-> sent.seqnum,
             payload |-> sent.payload, crc1 |-> sent.crc1, crc2 |-> Junk,
             bytes |-> sent.bytes]
    BY <1>1, <1>7
  <2>2. sent.length > 0 /\ sent.length # 0
    BY <1>1, <1>2, Sizes, SMT
  <2>3. Fields(w) \in Datagram
    BY <1>1, <1>2, <2>1, FieldsIs
  <2>4. sent.payload # Junk
    BY <1>1, PayloadIs
  <2> QED
    BY <1>1, <2>1, <2>2, <2>3, <2>4 DEF PayloadSpoiled
<1>8. ASSUME NEW n \in 1 .. Len(sent.payload), NEW b \in Byte,
             w = [sent EXCEPT !.payload[n] = b]
      PROVE  Fields(w) \in Datagram /\ PayloadSpoiled(w)
  <2>1. PICK c : c = [sent.payload EXCEPT ![n] = b]
    OBVIOUS
  <2>2. w = [type |-> sent.type, tr |-> sent.tr, window |-> sent.window,
             length |-> sent.length, seqnum |-> sent.seqnum,
             payload |-> c, crc1 |-> sent.crc1, crc2 |-> sent.crc2,
             bytes |-> sent.bytes]
    BY <1>1, <1>8, <2>1
  <2>3. sent.length > 0 /\ sent.length # 0
    BY <1>1, <1>2, Sizes, SMT
  <2>4. c \in [1 .. sent.length -> Byte]
    BY <1>2, <2>1
  <2>5. c \in Payloads /\ Len(c) = sent.length
    <3>1. sent.length \in Nat
      BY <1>2, Sizes, SMT
    <3> QED
      BY <1>2, <2>4, <3>1 DEF Payloads
  <2>6. c # sent.payload
    BY <1>1, <2>2
  <2>7. Fields(w) \in Datagram
    BY <1>1, <1>2, <2>2, <2>5, FieldsIs
  <2> QED
    BY <1>1, <2>2, <2>3, <2>5, <2>6, <2>7 DEF PayloadSpoiled
<1>9. \/ w = [sent EXCEPT !.type = 3 - @, !.tr = 1 - @, !.window = MaxWindow - @]
      \/ w = [sent EXCEPT !.seqnum = MaxSeqnum - @]
      \/ w = [sent EXCEPT !.crc1 = Junk]
      \/ \E n \in Length \ {sent.length} : w = [sent EXCEPT !.length = n]
      \/ \E n \in 1 .. Len(sent.payload) : w = [sent EXCEPT !.crc2 = Junk]
      \/ \E n \in 1 .. Len(sent.payload), b \in Byte : w = [sent EXCEPT !.payload[n] = b]
  <2> DEFINE Fixed == {[sent EXCEPT !.type = 3 - @, !.tr = 1 - @, !.window = MaxWindow - @],
                       [sent EXCEPT !.seqnum = MaxSeqnum - @],
                       [sent EXCEPT !.crc1 = Junk]}
             Lengths == IF sent.type = DATA THEN Length \ {sent.length} ELSE {}
             Longer == {[sent EXCEPT !.length = n] : n \in Lengths}
             Spoiled == {[sent EXCEPT !.crc2 = Junk] : n \in 1 .. Len(sent.payload)}
             Changed == {[sent EXCEPT !.payload[n] = b] :
                            n \in 1 .. Len(sent.payload), b \in Byte}
  <2>1. w \in Fixed \cup Longer \cup Spoiled \cup Changed
    BY DEF Altered
  <2>2. w \in Fixed => \/ w = [sent EXCEPT !.type = 3 - @, !.tr = 1 - @, !.window = MaxWindow - @]
                       \/ w = [sent EXCEPT !.seqnum = MaxSeqnum - @]
                       \/ w = [sent EXCEPT !.crc1 = Junk]
    OBVIOUS
  <2>3. w \in Longer => \E n \in Length \ {sent.length} : w = [sent EXCEPT !.length = n]
    <3>1. w \in Longer => \E n \in Lengths : w = [sent EXCEPT !.length = n]
      OBVIOUS
    <3>2. \A n \in Lengths : n \in Length \ {sent.length}
      OBVIOUS
    <3> HIDE DEF Lengths, Longer
    <3> QED
      BY <3>1, <3>2
  <2>4. w \in Spoiled => \E n \in 1 .. Len(sent.payload) : w = [sent EXCEPT !.crc2 = Junk]
    OBVIOUS
  <2>5. w \in Changed =>
          \E n \in 1 .. Len(sent.payload), b \in Byte : w = [sent EXCEPT !.payload[n] = b]
    OBVIOUS
  <2> HIDE DEF Fixed, Longer, Spoiled, Changed
  <2> QED
    BY <2>1, <2>2, <2>3, <2>4, <2>5
<1> QED
  BY <1>3, <1>4, <1>5, <1>6, <1>7, <1>8, <1>9

\* The struct once the header was copied into it.
LEMMA HeaderDecodedIs ==
    ASSUME pkt \in Pkt, NEW d, Fields(d) \in Datagram
    PROVE  LET p == HeaderDecoded(d)
           IN  /\ p \in Pkt
               /\ p.type = d.type /\ p.tr = 0 /\ p.window = d.window /\ p.seqnum = d.seqnum
               /\ d.type = DATA /\ d.length <= MaxPayload => p.length = d.length
               /\ d.type # DATA => p.length = 0
<1>1. /\ d.type \in 0 .. 3 /\ d.window \in 0 .. MaxWindow
      /\ d.length \in Length /\ d.seqnum \in 0 .. MaxSeqnum /\ 0 \in 0 .. 1
  BY FieldsIs
<1>2. PICK b : b = [pkt EXCEPT !.type = d.type, !.tr = 0, !.window = d.window,
                               !.seqnum = d.seqnum]
  OBVIOUS
<1>3. /\ b \in Pkt
      /\ b.type = d.type /\ b.tr = 0 /\ b.window = d.window /\ b.seqnum = d.seqnum
  BY <1>1, <1>2 DEF Pkt
<1>4. PICK n : n = IF d.type = DATA THEN d.length ELSE 0
  OBVIOUS
<1>5. 0 \in Length /\ 0 <= MaxPayload
  BY Sizes, SMT
<1>6. n \in Length
  BY <1>1, <1>4, <1>5
<1>7. HeaderDecoded(d) = SetLength(b, n)
  BY <1>2, <1>4 DEF HeaderDecoded
<1> QED
  BY <1>3, <1>4, <1>5, <1>6, <1>7 DEF SetLength, Pkt

\* The flag is refused only on a packet that has none.
LEMMA SetTrIs ==
    ASSUME NEW p \in Pkt, p.tr = 0, NEW t \in 0 .. 1
    PROVE  LET q == SetTr(p, t)
           IN  /\ q \in Pkt
               /\ q.type = p.type /\ q.window = p.window /\ q.seqnum = p.seqnum
               /\ q.length = p.length /\ q.payload = p.payload
               /\ p.type = DATA \/ t = 0 => q.tr = t
BY DEF SetTr, Pkt

\* A sequence that begins like t.
LEMMA Prefix ==
    ASSUME NEW t \in Payloads, NEW s, \A i \in 1 .. Len(t) : s[i] = t[i]
    PROVE  SubSeq(s, 1, Len(t)) = t
<1>1. t \in Seq(Byte) /\ Len(t) \in Nat
  BY PayloadIs
<1>2. \A i \in 1 .. Len(t) : s[i] \in Byte
  BY <1>1
<1>3. /\ SubSeq(s, 1, Len(t)) \in Seq(Byte)
      /\ Len(SubSeq(s, 1, Len(t))) = IF 1 <= Len(t) THEN Len(t) - 1 + 1 ELSE 0
      /\ \A i \in 1 .. Len(t) - 1 + 1 : SubSeq(s, 1, Len(t))[i] = s[1 + i - 1]
  BY <1>1, <1>2, SubSeqProperties
<1>4. PICK u \in Seq(Byte) : u = SubSeq(s, 1, Len(t))
  BY <1>3
<1>5. Len(u) = Len(t) /\ \A i \in 1 .. Len(t) : u[i] = t[i]
  BY <1>1, <1>3, <1>4
<1>6. u = t
  BY <1>1, <1>5, SeqEqual
<1> QED
  BY <1>4, <1>6

\* The struct once the payload was copied into it: the new payload, and behind it
\* what was there before.
LEMMA PayloadDecodedIs ==
    ASSUME NEW q \in Pkt, NEW d, d.payload \in Payloads, q.length = Len(d.payload)
    PROVE  LET r == PayloadDecoded(q, d)
           IN  /\ r \in Pkt
               /\ r.type = q.type /\ r.tr = q.tr /\ r.window = q.window
               /\ r.seqnum = q.seqnum /\ r.length = q.length
               /\ SubSeq(r.payload, 1, r.length) = d.payload
<1>1. PICK f : f = [i \in 1 .. MaxPayload |->
                      IF i <= q.length THEN d.payload[i] ELSE q.payload[i]]
  OBVIOUS
<1>2. PayloadDecoded(q, d) = [q EXCEPT !.payload = f]
  BY <1>1 DEF PayloadDecoded, Pkt
<1>3. /\ Len(d.payload) \in 0 .. MaxPayload
      /\ d.payload \in [1 .. Len(d.payload) -> Byte]
  BY PayloadIs
<1>4. q.payload \in [1 .. MaxPayload -> Byte]
  BY DEF Pkt
<1>5. f \in [1 .. MaxPayload -> Byte]
  <2>1. ASSUME NEW i \in 1 .. MaxPayload
        PROVE  (IF i <= q.length THEN d.payload[i] ELSE q.payload[i]) \in Byte
    <3>1. i <= q.length => i \in 1 .. Len(d.payload)
      BY <1>3, Sizes
    <3> QED
      BY <1>3, <1>4, <3>1
  <2> QED
    BY <1>1, <2>1
<1>6. \A i \in 1 .. Len(d.payload) : f[i] = d.payload[i]
  BY <1>1, <1>3, Sizes
<1>7. SubSeq(f, 1, Len(d.payload)) = d.payload
  BY <1>6, Prefix
<1> QED
  BY <1>2, <1>5, <1>7 DEF Pkt

\* A packet with the fields of the one that was sent.
LEMMA SameHeader ==
    ASSUME NEW p, NEW d, p.type = d.type, p.window = d.window, p.length = d.length,
           p.seqnum = d.seqnum
    PROVE  Header(p) = Header(d)
BY DEF Header

\* What the link left alone is accepted, with its payload.
LEMMA KeptIsAccepted ==
    ASSUME CodecInv, Decode, link = "kept"
    PROVE  /\ pkt' \in Pkt /\ status' = "PKT_OK"
           /\ Header(pkt') = Header(sent) /\ pkt'.tr = 0
           /\ SubSeq(pkt'.payload, 1, pkt'.length) = sent.payload
           /\ wire.bytes = sent.bytes /\ sent.bytes \in Nat
<1> DEFINE p == HeaderDecoded(wire)
           q == SetTr(p, wire.tr)
           r == PayloadDecoded(q, wire)
<1>1. wire = sent /\ Fields(wire) \in Datagram /\ pkt \in Pkt /\ SentInv
  BY DEF CodecInv, TypeOK, LinkInv
<1>2. /\ sent.type \in {DATA, ACK, NACK} /\ sent.tr = 0
      /\ sent.payload \in Payloads /\ sent.length = Len(sent.payload)
      /\ sent.type # DATA => sent.length = 0
      /\ sent.crc1 = Header(sent) /\ sent.crc2 = sent.payload
      /\ sent.bytes = Needed(sent) /\ sent.bytes \in Nat
  BY <1>1, SentIs, BytesAre
<1>3. sent.length \in 0 .. MaxPayload
  BY <1>2, PayloadIs
<1>4. sent.length <= MaxPayload /\ 0 \in 0 .. 1
  BY <1>3, Sizes, SMT
<1>5. /\ p \in Pkt /\ p.type = sent.type /\ p.tr = 0
      /\ p.window = sent.window /\ p.seqnum = sent.seqnum /\ p.length = sent.length
  BY <1>1, <1>2, <1>4, HeaderDecodedIs
<1>6. /\ q \in Pkt /\ q.type = sent.type /\ q.tr = 0
      /\ q.window = sent.window /\ q.seqnum = sent.seqnum /\ q.length = sent.length
  <2> HIDE DEF p
  <2> QED
    BY <1>1, <1>2, <1>4, <1>5, SetTrIs
<1>7. /\ r \in Pkt /\ r.type = sent.type /\ r.tr = 0
      /\ r.window = sent.window /\ r.seqnum = sent.seqnum /\ r.length = sent.length
      /\ SubSeq(r.payload, 1, r.length) = sent.payload
  <2> HIDE DEF q
  <2> QED
    BY <1>1, <1>2, <1>6, PayloadDecodedIs
<1>8. ~(wire.bytes < Needed(wire)) /\ Crc1Ok(wire) /\ Crc2Ok(r, wire)
  <2> HIDE DEF r
  <2> QED
    BY <1>1, <1>2, <1>7 DEF Crc1Ok, Crc2Ok
<1>9. /\ pkt' = IF q.tr = 0 /\ q.length > 0 THEN r ELSE q
      /\ status' = "PKT_OK"
  BY <1>8 DEF Decode
<1> HIDE DEF p, q, r
<1>10. CASE q.length > 0
  BY <1>1, <1>2, <1>6, <1>7, <1>9, <1>10, SameHeader
<1>11. CASE ~(q.length > 0)
  <2>1. sent.length = 0
    BY <1>3, <1>6, <1>11, Sizes, SMT
  <2>2. \A i \in 1 .. Len(sent.payload) : q.payload[i] = sent.payload[i]
    BY <1>2, <2>1
  <2>3. SubSeq(q.payload, 1, q.length) = sent.payload
    BY <1>2, <1>6, <2>2, Prefix
  <2> QED
    BY <1>1, <1>2, <1>6, <1>9, <1>11, <2>3, SameHeader
<1> QED
  BY <1>10, <1>11

\* A packet the link cut is accepted with TR set: the CRC of the header is that of
\* the header that was sent.
LEMMA CutIsAccepted ==
    ASSUME CodecInv, Decode, link = "cut"
    PROVE  /\ pkt' \in Pkt /\ status' = "PKT_OK"
           /\ Header(pkt') = Header(sent) /\ pkt'.tr = 1
           /\ wire.bytes < sent.bytes
<1> DEFINE p == HeaderDecoded(wire)
           q == SetTr(p, wire.tr)
<1>1. /\ sent.bytes > 12 /\ wire = [sent EXCEPT !.tr = 1, !.bytes = 12]
      /\ Fields(wire) \in Datagram /\ pkt \in Pkt /\ SentInv
  BY DEF CodecInv, TypeOK, LinkInv
<1>2. /\ sent.type = DATA /\ sent.length > 0
      /\ sent.payload \in Payloads /\ sent.length = Len(sent.payload)
      /\ sent.crc1 = Header(sent) /\ sent.bytes \in Nat
      /\ sent = [type |-> sent.type, tr |-> sent.tr, window |-> sent.window,
                 length |-> sent.length, seqnum |-> sent.seqnum,
                 payload |-> sent.payload, crc1 |-> sent.crc1, crc2 |-> sent.crc2,
                 bytes |-> sent.bytes]
  BY <1>1, SentIs, BytesAre
<1>3. wire = [type |-> sent.type, tr |-> 1, window |-> sent.window,
              length |-> sent.length, seqnum |-> sent.seqnum,
              payload |-> sent.payload, crc1 |-> sent.crc1, crc2 |-> sent.crc2,
              bytes |-> 12]
  BY <1>1, <1>2
<1>4. sent.length \in 0 .. MaxPayload
  BY <1>2, PayloadIs
<1>5. sent.length <= MaxPayload /\ 1 \in 0 .. 1
  BY <1>4, Sizes, SMT
<1>6. /\ p \in Pkt /\ p.type = sent.type /\ p.tr = 0
      /\ p.window = sent.window /\ p.seqnum = sent.seqnum /\ p.length = sent.length
  BY <1>1, <1>2, <1>3, <1>5, HeaderDecodedIs
<1>7. /\ q \in Pkt /\ q.type = sent.type /\ q.tr = 1
      /\ q.window = sent.window /\ q.seqnum = sent.seqnum /\ q.length = sent.length
  <2> HIDE DEF p
  <2> QED
    BY <1>2, <1>3, <1>5, <1>6, SetTrIs
<1>8. ~(wire.bytes < Needed(wire)) /\ wire.bytes < sent.bytes
  BY <1>1, <1>2, <1>3 DEF Needed, HeaderBytes
<1>9. Crc1Ok(wire)
  BY <1>2, <1>3, SameHeader DEF Crc1Ok
<1>10. pkt' = q /\ status' = "PKT_OK"
  <2>1. ~(q.tr = 0)
    <3> HIDE DEF q
    <3> QED
      BY <1>7
  <2> QED
    BY <1>8, <1>9, <2>1 DEF Decode
<1> HIDE DEF p, q
<1> QED
  BY <1>2, <1>7, <1>8, <1>10, SameHeader

\* A packet that had a byte altered is refused.
LEMMA AlteredIsRefused ==
    ASSUME CodecInv, Decode, link = "altered"
    PROVE  pkt' \in Pkt /\ status' \in {"E_NOMEM", "E_CRC"}
<1> DEFINE p == HeaderDecoded(wire)
           q == SetTr(p, wire.tr)
           r == PayloadDecoded(q, wire)
<1>1. /\ wire \in Altered(sent) /\ wire # sent
      /\ Fields(wire) \in Datagram /\ pkt \in Pkt /\ SentInv
  BY DEF CodecInv, TypeOK, LinkInv
<1>2. ~Crc1Ok(wire) \/ PayloadSpoiled(wire)
  BY <1>1, AlteredIs
<1>3. wire.tr \in 0 .. 1
  BY <1>1, FieldsIs
<1>4. p \in Pkt /\ p.tr = 0
  BY <1>1, HeaderDecodedIs
<1>5. CASE wire.bytes < Needed(wire)
  BY <1>1, <1>5 DEF Decode
<1>6. CASE ~(wire.bytes < Needed(wire)) /\ ~Crc1Ok(wire)
  BY <1>4, <1>6 DEF Decode
<1>7. CASE ~(wire.bytes < Needed(wire)) /\ Crc1Ok(wire)
  <2>1. /\ wire.type = DATA /\ wire.tr = 0 /\ wire.length = Len(wire.payload)
        /\ wire.length > 0 /\ wire.payload \in Payloads /\ wire.crc2 # wire.payload
    BY <1>2, <1>7 DEF PayloadSpoiled
  <2>2. wire.length \in 0 .. MaxPayload
    BY <2>1, PayloadIs
  <2>3. wire.length <= MaxPayload
    BY <2>2, Sizes, SMT
  <2>4. p.length = wire.length
    BY <1>1, <2>1, <2>3, HeaderDecodedIs
  <2>5. q \in Pkt /\ q.tr = 0 /\ q.length = wire.length
    <3> HIDE DEF p
    <3> QED
      BY <1>3, <1>4, <2>1, <2>4, SetTrIs
  <2>6. r \in Pkt /\ SubSeq(r.payload, 1, r.length) = wire.payload
    <3> HIDE DEF q
    <3> QED
      BY <2>1, <2>5, PayloadDecodedIs
  <2>7. ~Crc2Ok(r, wire)
    <3> HIDE DEF r
    <3> QED
      BY <2>1, <2>6 DEF Crc2Ok
  <2>8. q.tr = 0 /\ q.length > 0
    <3> HIDE DEF q
    <3> QED
      BY <2>1, <2>5
  <2>9. pkt' = r /\ status' = "E_CRC"
    BY <1>7, <2>7, <2>8 DEF Decode
  <2> QED
    BY <2>6, <2>9
<1> QED
  BY <1>5, <1>6, <1>7
----------------------------------------------------------------------------
\* What the programs build has the types of a datagram.
LEMMA EncodedIs ==
    ASSUME NEW type \in {DATA, ACK, NACK}, NEW window \in 0 .. MaxWindow,
           NEW seqnum \in 0 .. MaxSeqnum, NEW payload \in Payloads
    PROVE  Fields(Encoded(Built(type, window, seqnum, payload))) \in Datagram
<1>1. PICK p : p = Built(type, window, seqnum, payload)
  OBVIOUS
<1>2. PICK d : d = Encoded(p)
  OBVIOUS
<1>3. /\ p.type = type /\ p.tr = 0 /\ p.window = window /\ p.length = Len(payload)
      /\ p.seqnum = seqnum /\ p.payload = payload
  BY <1>1 DEF Built
<1>4. /\ d.type = type /\ d.tr = 0 /\ d.window = window /\ d.length = Len(payload)
      /\ d.seqnum = seqnum /\ d.payload = payload /\ d.bytes = Needed(p)
  BY <1>2, <1>3 DEF Encoded
<1>5. Len(payload) \in 0 .. MaxPayload
  BY PayloadIs
<1>6. Needed(p) \in Nat
  <2>1. p.length \in Nat
    BY <1>3, <1>5, Sizes
  <2> QED
    BY <2>1 DEF Needed, HeaderBytes
<1>7. type \in 0 .. 3 /\ 0 \in 0 .. 1 /\ Len(payload) \in Length
  BY <1>5, Sizes, SMT
<1>8. Fields(d) \in Datagram
  BY <1>4, <1>6, <1>7, FieldsIs
<1> QED
  BY <1>1, <1>2, <1>8

LEMMA CodecInvInit == Init => CodecInv
<1> SUFFICES ASSUME Init
             PROVE  CodecInv
  OBVIOUS
<1>1. /\ sent = NothingSent /\ wire = NothingSent /\ pkt \in Pkt
      /\ link = "idle" /\ status = "none"
  BY DEF Init
<1>2. 0 \in 0 .. MaxWindow /\ 0 \in 0 .. MaxSeqnum /\ 0 \in 0 .. MaxPayload
  BY Sizes, SMT
<1>3. <<>> \in Payloads
  <2>1. <<>> \in [1 .. 0 -> Byte]
    OBVIOUS
  <2> QED
    BY <1>2, <2>1 DEF Payloads
<1>4. NothingSent = Encoded(Built(DATA, 0, 0, <<>>))
  BY DEF NothingSent
<1>5. Fields(NothingSent) \in Datagram
  BY <1>2, <1>3, <1>4, EncodedIs
<1>6. SentInv
  BY <1>1, <1>2, <1>3, <1>4 DEF SentInv
<1> QED
  BY <1>1, <1>5, <1>6 DEF CodecInv, TypeOK, LinkInv

\* One step of a program or of the link keeps the invariant.
LEMMA CodecInvNext ==
    ASSUME CodecInv, [Next]_vars
    PROVE  CodecInv'
<1>1. /\ Fields(sent) \in Datagram /\ Fields(wire) \in Datagram /\ pkt \in Pkt
      /\ link \in {"idle", "kept", "cut", "altered"}
      /\ status \in {"none", "PKT_OK", "E_NOMEM", "E_CRC"}
      /\ SentInv /\ LinkInv
  BY DEF CodecInv, TypeOK
<1>2. CASE Encode
  <2>1. PICK type \in {DATA, ACK, NACK}, window \in 0 .. MaxWindow,
             seqnum \in 0 .. MaxSeqnum, payload \in Payloads :
                /\ type # DATA => payload = <<>> /\ window = MaxWindow
                /\ sent' = Encoded(Built(type, window, seqnum, payload))
    BY <1>2 DEF Encode
  <2>2. wire' = sent' /\ link' = "kept" /\ status' = "none" /\ pkt' = pkt
    BY <1>2 DEF Encode
  <2>3. Fields(sent') \in Datagram
    BY <2>1, EncodedIs
  <2>4. SentInv'
    BY <2>1 DEF SentInv
  <2> QED
    BY <1>1, <2>2, <2>3, <2>4 DEF CodecInv, TypeOK, LinkInv, Fields
<1>3. CASE Cut
  <2>1. /\ link = "kept" /\ wire.bytes > 12 /\ link' = "cut"
        /\ wire' = [wire EXCEPT !.tr = 1, !.bytes = 12]
        /\ sent' = sent /\ pkt' = pkt /\ status' = status
    BY <1>3 DEF Cut
  <2>2. wire = sent /\ status = "none"
    BY <1>1, <2>1 DEF LinkInv
  <2>3. sent = [type |-> sent.type, tr |-> sent.tr, window |-> sent.window,
                length |-> sent.length, seqnum |-> sent.seqnum,
                payload |-> sent.payload, crc1 |-> sent.crc1, crc2 |-> sent.crc2,
                bytes |-> sent.bytes]
    BY <1>1, SentIs
  <2>4. wire' = [type |-> sent.type, tr |-> 1, window |-> sent.window,
                 length |-> sent.length, seqnum |-> sent.seqnum,
                 payload |-> sent.payload, crc1 |-> sent.crc1, crc2 |-> sent.crc2,
                 bytes |-> 12]
    BY <2>1, <2>2, <2>3
  <2>5. 1 \in 0 .. 1 /\ 12 \in Nat
    OBVIOUS
  <2>6. PICK w : w = wire'
    OBVIOUS
  <2>7. Fields(w) \in Datagram
    BY <1>1, <2>4, <2>5, <2>6, FieldsIs
  <2>8. SentInv'
    BY <1>1, <2>1 DEF SentInv
  <2>9. LinkInv'
    BY <2>1, <2>2 DEF LinkInv
  <2> QED
    BY <1>1, <2>1, <2>6, <2>7, <2>8, <2>9 DEF CodecInv, TypeOK, Fields
<1>4. CASE Alter
  <2>1. /\ link = "kept" /\ link' = "altered"
        /\ wire' \in Altered(wire) \ {wire}
        /\ sent' = sent /\ pkt' = pkt /\ status' = status
    BY <1>4 DEF Alter
  <2>2. wire = sent /\ status = "none"
    BY <1>1, <2>1 DEF LinkInv
  <2>3. PICK w : w = wire'
    OBVIOUS
  <2>4. Fields(w) \in Datagram
    BY <1>1, <2>1, <2>2, <2>3, AlteredIs
  <2>5. SentInv'
    BY <1>1, <2>1 DEF SentInv
  <2>6. Altered(sent)' = Altered(sent)
    BY <2>1 DEF Altered
  <2>7. LinkInv'
    BY <2>1, <2>2, <2>6 DEF LinkInv
  <2> QED
    BY <1>1, <2>1, <2>3, <2>4, <2>5, <2>7 DEF CodecInv, TypeOK, Fields
<1>5. CASE Decode
  <2>1. link # "idle" /\ link' = "idle" /\ sent' = sent /\ wire' = wire
    BY <1>5 DEF Decode
  <2>2. pkt' \in Pkt /\ status' \in {"PKT_OK", "E_NOMEM", "E_CRC"}
    BY <1>1, <1>5, <2>1, KeptIsAccepted, CutIsAccepted, AlteredIsRefused
  <2>3. SentInv'
    BY <1>1, <2>1 DEF SentInv
  <2>4. LinkInv'
    BY <2>1 DEF LinkInv
  <2> QED
    BY <1>1, <2>1, <2>2, <2>3, <2>4 DEF CodecInv, TypeOK, Fields
<1>6. CASE UNCHANGED vars
  BY <1>1, <1>6 DEF CodecInv, TypeOK, SentInv, LinkInv, Altered, Fields, vars
<1> QED
  BY <1>2, <1>3, <1>4, <1>5, <1>6 DEF Next

\* The types of the codec, and what can be on its way to decode: a packet one of the
\* programs built, as it was, cut behind its header, or with a byte of it altered
\* (packet_implem.c:33-189).
THEOREM CodecInvHolds == Spec => []CodecInv
BY CodecInvInit, CodecInvNext, PTL DEF Spec

\* What decode accepts is what was sent, for every window, range of seqnums, size of
\* payload and alphabet: nothing of an earlier packet shows through the struct, and
\* nothing altered is accepted (packet_implem.c:33-103).
THEOREM AcceptedAreSent == Spec => []AcceptedIsSent
<1>1. Init => AcceptedIsSent
  BY DEF Init, AcceptedIsSent
<1>2. CodecInv /\ AcceptedIsSent /\ [Next]_vars => AcceptedIsSent'
  <2> SUFFICES ASSUME CodecInv, AcceptedIsSent, [Next]_vars
               PROVE  AcceptedIsSent'
    OBVIOUS
  <2>1. CASE Encode \/ Cut \/ Alter
    <3>1. status' # "PKT_OK"
      BY <2>1 DEF Encode, Cut, Alter, CodecInv, LinkInv
    <3> QED
      BY <3>1 DEF AcceptedIsSent
  <2>2. CASE Decode
    <3>1. link \in {"kept", "cut", "altered"} /\ sent' = sent /\ wire' = wire
      BY <2>2 DEF Decode, CodecInv, TypeOK
    <3>2. CASE link = "kept"
      <4>1. /\ Header(pkt') = Header(sent) /\ pkt'.tr = 0
            /\ SubSeq(pkt'.payload, 1, pkt'.length) = sent.payload
            /\ wire.bytes = sent.bytes /\ sent.bytes \in Nat
        BY <2>2, <3>2, KeptIsAccepted
      <4>2. ~(wire.bytes < sent.bytes)
        BY <4>1
      <4> QED
        BY <3>1, <4>1, <4>2 DEF AcceptedIsSent, Header
    <3>3. CASE link = "cut"
      BY <2>2, <3>1, <3>3, CutIsAccepted DEF AcceptedIsSent, Header
    <3>4. CASE link = "altered"
      BY <2>2, <3>4, AlteredIsRefused DEF AcceptedIsSent
    <3> QED
      BY <3>1, <3>2, <3>3, <3>4
  <2>3. CASE UNCHANGED vars
    BY <2>3 DEF AcceptedIsSent, Header, vars
  <2> QED
    BY <2>1, <2>2, <2>3 DEF Next
<1> QED
  BY <1>1, <1>2, CodecInvHolds, PTL DEF Spec

\* A datagram the link left alone or cut behind its header is never refused
\* (packet_implem.c:33-103, link_sim.c:230-254).
THEOREM HonestAreAccepted == Spec => HonestIsAccepted
<1>1. CodecInv /\ [Next]_vars => [Decode /\ link # "altered" => status' = "PKT_OK"]_vars
  <2>1. ASSUME CodecInv, Decode, link # "altered"
        PROVE  status' = "PKT_OK"
    <3>1. link = "kept" \/ link = "cut"
      BY <2>1 DEF Decode, CodecInv, TypeOK
    <3> QED
      BY <2>1, <3>1, KeptIsAccepted, CutIsAccepted
  <2> QED
    BY <2>1
<1> QED
  BY <1>1, CodecInvHolds, PTL DEF Spec, HonestIsAccepted
=============================================================================
