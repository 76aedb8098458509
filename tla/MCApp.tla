------------------------------- MODULE MCApp -------------------------------
(***************************************************************************)
(* A host with one private address L1 talking to two public peers R1, R2   *)
(* over TCP.  QueueEp stands for 127.0.0.1:0 and SL/SR for the endpoints   *)
(* of the fabricated sample rows.                                          *)
(***************************************************************************)
EXTENDS App

CONSTANTS L1, R1, R2, Q, SL, SR

MCEndpoints == {L1, R1, R2, Q, SL, SR}
MCPrivate == {L1, Q, SL}
MCLoopback == {Q}
MCSockets == <<Key("TCP", L1, R1)>>
MCSampleRows == <<Row("TCP", SL, SR, "Established")>>

Frame(src, dst, flags, len, ihl) ==
    [src |-> src, dst |-> dst, proto |-> 6, flags |-> flags,
     len |-> len, ver |-> 4, ihl |-> ihl]

\* Our ACK to R1, R1's FIN+ACK, an ACK from R2 (no socket listed for it)
\* and a frame too short for a TCP header.
MCFrames == {Frame(L1, R1, 16, 60, 5), Frame(R1, L1, 17, 60, 5),
             Frame(R2, L1, 16, 60, 5), Frame(R1, L1, 16, 50, 5)}
\* Our ACK to R1 and R1's FIN+ACK.
MCFramesSmall == {Frame(L1, R1, 16, 60, 5), Frame(R1, L1, 17, 60, 5)}
\* Our ACK to R1, R1's FIN+ACK and an ACK from R2, which no socket lists.
MCFramesTwoFlows == MCFramesSmall \cup {Frame(R2, L1, 16, 60, 5)}
\* As MCFrames plus a frame whose IHL claims a 60-byte IP header.
MCFramesBadIhl == MCFrames \cup {Frame(R1, L1, 16, 60, 15)}
\* A host with a public address: its own frames look inbound.
MCFramesPublicHost == {Frame(R1, R2, 16, 60, 5), Frame(R2, R1, 16, 60, 5)}
MCSocketsPublicHost == <<Key("TCP", R1, R2)>>
=============================================================================
