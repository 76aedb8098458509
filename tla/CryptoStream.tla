---------------------------- MODULE CryptoStream ----------------------------
(***************************************************************************)
(* What the crypto fragment reassembler (C3) of spec 4.3 promises, stated *)
(* over stream positions rather than fragments: the set of positions it   *)
(* buffers, the contiguous prefix it reports and the TLS info it caches.  *)
(*                                                                         *)
(*  - a fragment is admitted only when it fits under the cap and shares   *)
(*    no position with what is buffered (first write wins);              *)
(*  - the prefix then extends over the buffered positions from where it   *)
(*    stood, and never moves back;                                        *)
(*  - clearing drops the buffered positions and keeps the prefix;         *)
(*  - TLS info is cached only once a ClientHello's worth is contiguous.   *)
(***************************************************************************)
EXTENDS Naturals, FiniteSets

CONSTANTS MaxBufferSize, Offsets, Lengths, HelloLen, TlsInfos, NoInfo

VARIABLES
    held,     \* stream positions buffered
    prefix,   \* the contiguous offset: [0, prefix) has been seen in order
    info      \* the cached TLS info, or NoInfo

vars == <<held, prefix, info>>

\* The positions a frame (offset, length) carries.
Span(off, len) == off..(off + len - 1)

\* The first position at or after p that is not buffered in h.
RECURSIVE Reach(_, _)
Reach(p, h) == IF p \in h THEN Reach(p + 1, h) ELSE p

Admit(off, len) ==
    /\ Cardinality(held) + len <= MaxBufferSize
    /\ Span(off, len) \cap held = {}
    /\ held' = held \cup Span(off, len)
    /\ prefix' = Reach(prefix, held')
    /\ UNCHANGED info

Clear ==
    /\ held' = {}
    /\ UNCHANGED <<prefix, info>>

Learn(i) ==
    /\ prefix >= HelloLen
    /\ info' = i
    /\ UNCHANGED <<held, prefix>>

Init ==
    /\ held = {}
    /\ prefix = 0
    /\ info = NoInfo

Next ==
    \/ \E off \in Offsets, len \in Lengths : Admit(off, len)
    \/ Clear
    \/ \E i \in TlsInfos : Learn(i)

Spec == Init /\ [][Next]_vars

=============================================================================
