----------------------------- MODULE FrameCalls -----------------------------
(***************************************************************************)
(* A call of one of the two builders, and what its frame is good for when  *)
(* some of its bits have been inverted on the air.                         *)
(***************************************************************************)
EXTENDS Frame, SosFrame, FiniteSets

CONSTANTS
    IeeeCalls,  \* calls of make_ieee802_15_4_packet
    SosCalls,   \* calls of make_sos_packet
    HitCalls,   \* those whose frame is hit by errors
    MaxErrors   \* inverted bits

SosFields == [am_group : Octet, module_src : Octet, module_dst : Octet,
              dst_addr : Word, src_addr : Word, msg_type : Octet]

ASSUME CallsAssumption ==
    /\ IeeeCalls \subseteq [fcf : FcfFields, seqNr : Nat, address : Seq(Octet), payload : Seq(Octet)]
    /\ SosCalls \subseteq [fields : SosFields, payload : Seq(Octet)]

VARIABLES standard, call, pkt, errors

vars == <<standard, call, pkt, errors>>

Init ==
    /\ pkt = <<>> /\ errors = {}
    /\ \/ standard = "ieee" /\ call \in IeeeCalls
       \/ standard = "sos" /\ call \in SosCalls

Build ==
    /\ pkt = <<>> /\ standard = "ieee"
    /\ LET FCF == make_FCF(call.fcf)
       IN  /\ Accepts(Len(FCF), call.seqNr, Len(call.address), Len(call.payload))
           /\ pkt' = make_ieee802_15_4_packet(FCF, call.seqNr, call.address, call.payload)
    /\ UNCHANGED <<standard, call, errors>>

BuildSos ==
    /\ pkt = <<>> /\ standard = "sos"
    /\ SosAccepts(call.payload)
    /\ pkt' = make_sos_packet(call.fields, call.payload)
    /\ UNCHANGED <<standard, call, errors>>

\* What a receiver takes out of a packet: as many bytes as the PHR says.
PsduOf(p) == SubSeq(p, Len(SHR) + 2, Len(SHR) + 1 + p[Len(SHR) + 1])
Psdu == PsduOf(pkt)

\* And of a packet of SOS: what stands between the access code and the padding.
SosMessage == SubSeq(pkt, 23, Len(pkt) - 20)

IsFrame == pkt # <<>> /\ standard = "ieee"
IsSos   == pkt # <<>> /\ standard = "sos"
Sent    == IF standard = "sos" THEN SosMessage ELSE Psdu

\* A bit of what is taken is received inverted, but none of the length of SOS, by which
\* its sink takes it.
Hit ==
    /\ pkt # <<>> /\ call \in HitCalls
    /\ Cardinality(errors) < MaxErrors
    /\ \E k \in 1 .. 8 * Len(Sent) :
           /\ \A e \in errors : k > e
           /\ IsSos => k \notin 65 .. 72
           /\ errors' = errors \cup {k}
    /\ UNCHANGED <<standard, call, pkt>>

Next == Build \/ BuildSos \/ Hit

Spec == Init /\ [][Next]_vars

\* The bits of byte i that are hit, as a byte, and what arrives.
Mask(i) ==
    LET One(n, w) == IF 8 * i - n \in errors THEN w ELSE 0
    IN  One(0, 1) + One(1, 2) + One(2, 4) + One(3, 8)
            + One(4, 16) + One(5, 32) + One(6, 64) + One(7, 128)
Received == [i \in 1 .. Len(Sent) |-> XorBytes(Sent[i], Mask(i))]
-----------------------------------------------------------------------------
\* The PHR, computed from two lengths, frames exactly MPDU and FCS: a receiver
\* that takes PHR bytes checks the CRC over the MPDU with the right two bytes,
\* and gets the address and the payload of the call.
FrameSelfConsistent ==
    IsFrame =>
        LET a == Len(call.address)
        IN  /\ Len(pkt) >= Len(SHR) + 1 + pkt[Len(SHR) + 1]
            /\ ok(Psdu)
            /\ Psdu[3] = call.seqNr
            /\ SubSeq(Psdu, 4, 3 + a) = call.address
            /\ SubSeq(Psdu, 4 + a, Len(Psdu) - 2) = call.payload

\* A packet fills whole transfer units, and what is left over behind the frame is
\* less than one.
PaddingMinimal ==
    IsFrame =>
        /\ Len(pkt) % byte_modulus = 0
        /\ Len(pkt) - (Len(SHR) + 1 + Len(Psdu)) < byte_modulus

\* The FCF survives: its fields can be read back at the places of the standard.
FcfDecodes ==
    IsFrame =>
        LET v == Psdu[1] + 256 * Psdu[2]
        IN  call.fcf =
               [frameType |-> v % 8, securityEnabled |-> (v \div 8) % 2,
                framePending |-> (v \div 16) % 2,
                acknowledgeRequest |-> (v \div 32) % 2, intraPAN |-> (v \div 64) % 2,
                destinationAddressingMode |-> (v \div 1024) % 4,
                sourceAddressingMode |-> v \div 16384]

\* The builder's FCS and the watcher's test agree on the byte order, and the
\* watcher's ok tells an intact frame from every one with up to MaxErrors bits
\* inverted anywhere, the FCS included (ieee_pkt_receiver.py:84-91).
OkIffIntact == IsFrame /\ call \in HitCalls => (ok(Received) <=> errors = {})

\* The two byte orders of a packet of SOS, in the builder and in the watcher, fit: every
\* field and the payload come back (cc1k_sos_pkt.py:59-66 and 206-213).
SosDecodes ==
    IsSos /\ errors = {} =>
        /\ sos_run(SosMessage).fields = call.fields
        /\ sos_run(SosMessage).payload = call.payload

\* The watcher's test finds every one and every two bits inverted, in header, payload or
\* checksum, but for the group, which the checksum does not cover (l.62 and 217).
SosOkIffIntact ==
    IsSos /\ call \in HitCalls => (sos_run(Received).ok <=> errors \subseteq 1 .. 8)
=============================================================================
