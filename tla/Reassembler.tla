---------------------------- MODULE Reassembler ----------------------------
(***************************************************************************)
(* CryptoFrameReassembler of src/src/network/types.rs: CRYPTO-frame        *)
(* fragments of one QUIC flow, kept in a BTreeMap by offset, with the      *)
(* highest offset up to which the bytes are contiguous from 0, a buffer    *)
(* size counter held under a hard cap, and the memoised TLS info.          *)
(*                                                                         *)
(* A byte of the crypto stream is represented by its stream position, so  *)
(* a fragment (offset, len) carries <<offset, ..., offset+len-1>>: every   *)
(* sender, retransmissions included, sends the same bytes at a position.  *)
(* last_update and is_stale are left out: no code path acts on staleness.  *)
(* The reassembler lives in its flow's QuicInfo, which starts without one  *)
(* and creates it on demand (ensure_reassembler); the parser that calls   *)
(* the reassembler's methods through that Option is not in the sources.   *)
(***************************************************************************)
EXTENDS Naturals, Sequences, SequencesExt, FiniteSets, FiniteSetsExt

CONSTANTS
    MaxBufferSize,   \* max_buffer_size (64 KiB in the code, scaled down)
    Offsets,         \* offsets a CRYPTO frame may carry
    Lengths,         \* data lengths a CRYPTO frame may carry
    HelloLen,        \* bytes of the ClientHello the DPI parser needs
    TlsInfos,        \* TLS infos the parser may extract
    NoInfo           \* Option::None

ASSUME /\ MaxBufferSize \in Nat \ {0} /\ Offsets \subseteq Nat
       /\ Lengths \subseteq Nat /\ HelloLen \in Nat \ {0}

VARIABLES
    present,            \* QuicInfo.crypto_reassembler is Some
    fragments,          \* offset -> data (sequence of stream positions)
    contiguous_offset,
    has_complete_tls_info,
    cached_tls_info,
    current_buffer_size

vars == <<present, fragments, contiguous_offset, has_complete_tls_info,
          cached_tls_info, current_buffer_size>>

\* The bytes a well-formed frame carries.
Bytes(off, len) == [j \in 1..len |-> off + j - 1]

\* The BTreeMap's keys in ascending order.
Keys(f) == SetToSortSeq(DOMAIN f, <)

-----------------------------------------------------------------------------
\* update_contiguous_offset: walk the fragments in key order from the
\* current offset, extending it over each fragment that starts at or
\* before it, stopping at the first gap.
\* Mutation: only a fragment starting exactly at the current offset
\* extends it (== for <=), so one reaching over it from below ends the walk.
RECURSIVE AdvanceExactOffset(_, _, _)
AdvanceExactOffset(f, ks, current) ==
    IF ks = <<>> THEN current
    ELSE LET off == Head(ks)
             end == off + Len(f[off])
         IN IF off = current
            THEN AdvanceExactOffset(f, Tail(ks), IF end > current THEN end ELSE current)
            ELSE current

RECURSIVE Advance(_, _, _)
Advance(f, ks, current) ==
    IF ks = <<>> THEN current
    ELSE LET off == Head(ks)
             end == off + Len(f[off])
         IN IF off <= current
            THEN Advance(f, Tail(ks), IF end > current THEN end ELSE current)
            ELSE current

UpdateContiguousOffset(f, current) == Advance(f, Keys(f), current)

\* get_contiguous_data: concatenate, in key order, the part of each
\* fragment beyond what is already assembled; None when the contiguous
\* offset is 0 or nothing was assembled.
\* Mutation: a fragment past a gap is appended whole instead of ending
\* the contiguous run.
RECURSIVE AssembleAcrossGaps(_, _, _, _)
AssembleAcrossGaps(f, ks, result, current) ==
    IF ks = <<>> \/ current >= contiguous_offset THEN result
    ELSE LET off == Head(ks)
             data == f[off]
             piece == IF off <= current THEN SubSeq(data, current - off + 1, Len(data))
                      ELSE data
         IN AssembleAcrossGaps(f, Tail(ks), result \o piece,
                               IF piece # <<>> THEN off + Len(data) ELSE current)

RECURSIVE Assemble(_, _, _, _)
Assemble(f, ks, result, current) ==
    IF ks = <<>> \/ current >= contiguous_offset THEN result
    ELSE LET off == Head(ks)
             data == f[off]
             skip == current - off
             take == off <= current /\ skip < Len(data)
         IN Assemble(f, Tail(ks),
                     IF take THEN result \o SubSeq(data, skip + 1, Len(data)) ELSE result,
                     IF take THEN off + Len(data) ELSE current)

GetContiguousData ==
    IF contiguous_offset = 0 THEN NoInfo
    ELSE LET r == Assemble(fragments, Keys(fragments), <<>>, 0)
         IN IF r = <<>> THEN NoInfo ELSE r

-----------------------------------------------------------------------------
\* Mutation: the cap test leaves out the new fragment's length.
AddFragmentCapWithoutLen(off, len) ==
    LET f2 == [o \in DOMAIN fragments \cup {off} |->
                 IF o = off THEN Bytes(off, len) ELSE fragments[o]]
    IN /\ current_buffer_size <= MaxBufferSize
       /\ ~\E fo \in DOMAIN fragments :
             LET fe == fo + Len(fragments[fo])
             IN (off = fo /\ off + len = fe) \/ (off < fe /\ off + len > fo)
       /\ fragments' = f2
       /\ current_buffer_size' = current_buffer_size + len
       /\ contiguous_offset' = UpdateContiguousOffset(f2, contiguous_offset)
       /\ UNCHANGED <<has_complete_tls_info, cached_tls_info>>

\* Mutation: a fragment is refused only when its offset is already a key of
\* the map, so fragments overlapping at other offsets are stored.
AddFragmentSameOffsetOnly(off, len) ==
    LET f2 == [o \in DOMAIN fragments \cup {off} |->
                 IF o = off THEN Bytes(off, len) ELSE fragments[o]]
    IN /\ current_buffer_size + len <= MaxBufferSize
       /\ off \notin DOMAIN fragments
       /\ fragments' = f2
       /\ current_buffer_size' = current_buffer_size + len
       /\ contiguous_offset' = UpdateContiguousOffset(f2, contiguous_offset)
       /\ UNCHANGED <<has_complete_tls_info, cached_tls_info>>

\* add_fragment: reject past the cap; accept an exact duplicate or any
\* overlap without storing it (first write wins); otherwise store it under
\* its offset and advance the contiguous offset.
AddFragment(off, len) ==
    LET dataEnd == off + len
        dupOrOverlap ==
            \E fo \in DOMAIN fragments :
               LET fe == fo + Len(fragments[fo])
               IN (off = fo /\ dataEnd = fe) \/ (off < fe /\ dataEnd > fo)
        f2 == [o \in DOMAIN fragments \cup {off} |->
                 IF o = off THEN Bytes(off, len) ELSE fragments[o]]
    IN /\ current_buffer_size + len <= MaxBufferSize
       /\ ~dupOrOverlap
       /\ fragments' = f2
       /\ current_buffer_size' = current_buffer_size + len
       /\ contiguous_offset' = UpdateContiguousOffset(f2, contiguous_offset)
       /\ UNCHANGED <<has_complete_tls_info, cached_tls_info>>

\* The two early returns of add_fragment (Err past the cap, Ok on a
\* duplicate or overlap) leave the reassembler as it was.
AddFragmentRejected(off, len) ==
    /\ \/ current_buffer_size + len > MaxBufferSize
       \/ \E fo \in DOMAIN fragments :
             LET fe == fo + Len(fragments[fo])
             IN (off = fo /\ off + len = fe) \/ (off < fe /\ off + len > fo)
    /\ UNCHANGED vars

\* Mutation: the buffer counter is not reset.
ClearFragmentsKeepSize ==
    /\ fragments' = [o \in {} |-> <<>>]
    /\ UNCHANGED <<current_buffer_size, contiguous_offset,
                   has_complete_tls_info, cached_tls_info>>

\* clear_fragments: drop the buffered bytes; the offset and the memoised
\* TLS info stay.
ClearFragments ==
    /\ fragments' = [o \in {} |-> <<>>]
    /\ current_buffer_size' = 0
    /\ UNCHANGED <<contiguous_offset, has_complete_tls_info, cached_tls_info>>

\* set_complete_tls_info, called by the QUIC parser once the contiguous
\* data holds a whole ClientHello (the caller's guard, spec 4.5 step 5).
SetCompleteTlsInfo(info) ==
    /\ contiguous_offset >= HelloLen
    /\ has_complete_tls_info' = TRUE
    /\ cached_tls_info' = info
    /\ UNCHANGED <<fragments, contiguous_offset, current_buffer_size>>

\* get_cached_tls_info
GetCachedTlsInfo == IF has_complete_tls_info THEN cached_tls_info ELSE NoInfo

-----------------------------------------------------------------------------
\* CryptoFrameReassembler::new
ReassemblerNew ==
    /\ fragments = [o \in {} |-> <<>>]
    /\ contiguous_offset = 0
    /\ has_complete_tls_info = FALSE
    /\ cached_tls_info = NoInfo
    /\ current_buffer_size = 0

\* Mutation: a new reassembler replaces the flow's existing one.
EnsureReassemblerAlways ==
    /\ present' = TRUE
    /\ fragments' = [o \in {} |-> <<>>]
    /\ contiguous_offset' = 0
    /\ has_complete_tls_info' = FALSE
    /\ cached_tls_info' = NoInfo
    /\ current_buffer_size' = 0

\* QuicInfo::ensure_reassembler: create the reassembler only if the flow
\* has none; otherwise leave it as it is.
EnsureReassembler ==
    IF present THEN UNCHANGED vars
    ELSE /\ present' = TRUE
         /\ fragments' = [o \in {} |-> <<>>]
         /\ contiguous_offset' = 0
         /\ has_complete_tls_info' = FALSE
         /\ cached_tls_info' = NoInfo
         /\ current_buffer_size' = 0

\* QuicInfo::new: a QUIC flow starts without a reassembler.
Init ==
    /\ present = FALSE
    /\ ReassemblerNew

\* The parser reaches the reassembler's methods only through the Option.
Next ==
    \/ EnsureReassembler
    \/ /\ present
       /\ UNCHANGED present
       /\ \/ \E off \in Offsets, len \in Lengths :
                \/ AddFragment(off, len)
                \/ AddFragmentRejected(off, len)
          \/ ClearFragments
          \/ \E info \in TlsInfos : SetCompleteTlsInfo(info)

Spec == Init /\ [][Next]_vars

-----------------------------------------------------------------------------
TypeOK ==
    /\ present \in BOOLEAN
    /\ DOMAIN fragments \subseteq Offsets
    /\ \A o \in DOMAIN fragments : fragments[o] \in Seq(Nat)
    /\ contiguous_offset \in Nat
    /\ has_complete_tls_info \in BOOLEAN
    /\ cached_tls_info \in TlsInfos \cup {NoInfo}
    /\ current_buffer_size \in 0..MaxBufferSize

\* Whatever get_contiguous_data returns is a true prefix of the crypto
\* stream: the walk never glues bytes across a gap or repeats bytes, even
\* after clear_fragments and fragments arriving out of order again.
ContiguousDataIsPrefix ==
    GetContiguousData # NoInfo => GetContiguousData = Bytes(0, Len(GetContiguousData))

\* What get_contiguous_data returns, when it returns anything, is exactly
\* the stream from 0 up to contiguous_offset (spec 8).  clear_fragments
\* keeps contiguous_offset, so a fragment retransmitted after it breaks this.
ContiguousDataCorrect ==
    GetContiguousData # NoInfo => GetContiguousData = Bytes(0, contiguous_offset)

\* Admitted fragments never overlap (spec 3, invariant 4): first write wins.
FragmentsDisjoint ==
    \A a, b \in DOMAIN fragments :
        a < b => a + Len(fragments[a]) <= b

\* current_buffer_size counts exactly the bytes held in fragments, so the
\* cap rejects a fragment only when the buffered bytes really would exceed
\* it (add_fragment's counter and clear_fragments' reset).
BufferAccounting ==
    current_buffer_size = MapThenSumSet(LAMBDA o : Len(fragments[o]), DOMAIN fragments)

-----------------------------------------------------------------------------
(* Refinement: the reassembler implements the stream promise of spec 4.3. *)

\* The stream positions the fragments hold.
Held == UNION {ToSet(fragments[o]) : o \in DOMAIN fragments}

Stream == INSTANCE CryptoStream
              WITH held <- Held, prefix <- contiguous_offset, info <- GetCachedTlsInfo

\* Every step of add_fragment, clear_fragments and set_complete_tls_info is
\* a step of the stream promise: admission exactly when the bytes fit and
\* are new, and update_contiguous_offset's key-order walk moving the offset
\* exactly over the buffered positions that follow it, never past a gap.
ImplementsCryptoStream == Stream!Spec

=============================================================================
