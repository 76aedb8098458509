------------------------------- MODULE Merge -------------------------------
(***************************************************************************)
(* The packet-merge utilities of src/src/network/merge.rs: the TCP state  *)
(* engine update_tcp_state, create_connection_from_packet,                 *)
(* merge_packet_into_connection and merge_dpi_info, driven for one flow by *)
(* the tracker's packet ingestion (spec 4.5 steps 2-4: create on the first *)
(* packet, merge every later one).                                         *)
(*                                                                         *)
(* The flow also receives socket-table snapshots, fused into the tracked  *)
(* connection by merge_connections (spec 4.5, snapshot fusion).            *)
(*                                                                         *)
(* A connection is abstracted to its protocol_state, dpi_info, pid and    *)
(* packet counters; byte counters, names and timestamps are left out.     *)
(* The ParsedPacket comes from the parser, which is not part of the       *)
(* sources: for a TCP packet its protocol_state is one of ParserTcpStates. *)
(***************************************************************************)
EXTENDS Naturals, Sequences, SequencesExt

CONSTANTS
    ParserTcpStates,  \* protocol_state the parser puts in a TCP ParsedPacket
    DpiResults,       \* application classifications a DpiResult may carry
    None,             \* Option::None
    Pids,             \* pids a snapshot entry may report
    MaxPackets        \* bound on the packets ingested for the flow

TcpStates == {"Listen", "SynSent", "SynReceived", "Established", "FinWait1",
              "FinWait2", "CloseWait", "LastAck", "TimeWait", "Closing",
              "Closed", "Unknown"}
FlagNames == {"SYN", "ACK", "FIN", "RST"}
Protocols == {"TCP", "UDP"}

\* A ParsedPacket of the flow: tcp_flags (None for UDP), is_outgoing, the
\* parser's protocol_state and its dpi_result.
Packets(proto) ==
    IF proto = "TCP"
    THEN [flags : SUBSET FlagNames, out : BOOLEAN, pstate : ParserTcpStates,
          dpi : DpiResults \cup {None}]
    ELSE [flags : {None}, out : BOOLEAN, pstate : {"Udp"},
          dpi : DpiResults \cup {None}]

\* A socket-table snapshot entry for the flow, as a Connection built by
\* Connection::new: the adapter's state, its pid if any, zero counters and
\* no DPI.
SnapshotEntries(proto) ==
    [state : IF proto = "TCP" THEN TcpStates ELSE {"Udp"},
     dpi : {None}, pid : Pids \cup {None}, sent : {0}, recv : {0}]

VARIABLES
    proto,    \* the flow's protocol (part of its key)
    conn,     \* the tracked Connection: [state, dpi] or None
    engine,   \* the TCP state C2 alone gives for the packets seen so far
    firstDpi, \* history: the first DPI result a packet of the flow carried
    firstPid, \* history: the first pid a snapshot reported for the flow
    seen      \* history: packets ingested, by direction [sent, recv]

vars == <<proto, conn, engine, firstDpi, firstPid, seen>>

-----------------------------------------------------------------------------
\* update_tcp_state: the match arms in code order; a guarded arm that does
\* not apply falls through to the next.
UpdateTcpStateArms(s, f, out) ==
    LET syn == "SYN" \in f
        fin == "FIN" \in f
        rst == "RST" \in f
        only(set) == f = set
    IN CASE s \in {"Unknown", "Listen"} /\ only({"SYN"}) ->
                IF out THEN "SynSent" ELSE "SynReceived"
         [] s = "SynSent" /\ only({"SYN", "ACK"}) /\ ~out -> "Established"
         [] s = "SynReceived" /\ only({"ACK"}) /\ out -> "Established"
         [] s = "Unknown" /\ only({"ACK"}) -> "Established"
         [] s = "Established" /\ ~syn /\ fin /\ ~rst ->
                IF out THEN "FinWait1" ELSE "CloseWait"
         [] s = "FinWait1" /\ only({"ACK"}) /\ ~out -> "FinWait2"
         [] s = "FinWait1" /\ ~syn /\ fin /\ ~rst /\ ~out -> "Closing"
         [] s = "FinWait2" /\ ~syn /\ fin /\ ~rst /\ ~out -> "TimeWait"
         [] s = "CloseWait" /\ ~syn /\ fin /\ ~rst /\ out -> "LastAck"
         [] s = "LastAck" /\ only({"ACK"}) /\ ~out -> "Closed"
         [] s = "Closing" /\ only({"ACK"}) /\ ~out -> "TimeWait"
         [] rst -> "Closed"
         [] OTHER -> s

\* Mutation: the SYN+ACK arm does not check the direction.
UpdateTcpStateAnyDirSynAck(s, f, out) ==
    IF s = "SynSent" /\ f = {"SYN", "ACK"} THEN "Established"
    ELSE UpdateTcpStateArms(s, f, out)

\* update_tcp_state
UpdateTcpState(s, f, out) == UpdateTcpStateArms(s, f, out)

\* Mutation: a stored classification is replaced by a newer one.
MergeDpiInfoOverwrite(c, d) == IF d = None THEN c ELSE [c EXCEPT !.dpi = d]

\* merge_dpi_info: install the DPI result only when none is set.
MergeDpiInfo(c, d) ==
    IF d # None /\ c.dpi = None THEN [c EXCEPT !.dpi = d] ELSE c

\* merge_packet_into_connection: advance the TCP state from the packet's
\* flags (a non-TCP connection counts as Unknown), or take the parser's
\* state for a non-TCP packet; then line 88 assigns the parser's state
\* unconditionally; then merge the DPI result.
MergePacketIntoConnection(c, p) ==
    LET c0 == IF p.out THEN [c EXCEPT !.sent = @ + 1]
              ELSE [c EXCEPT !.recv = @ + 1]
        computed == IF p.flags # None
                    THEN UpdateTcpState(IF c.state \in TcpStates THEN c.state
                                        ELSE "Unknown", p.flags, p.out)
                    ELSE p.pstate
        c1 == [c0 EXCEPT !.state = computed]
        c2 == [c1 EXCEPT !.state = p.pstate]
    IN MergeDpiInfo(c2, p.dpi)

\* create_connection_from_packet: a TCP packet's state is C2 from Unknown,
\* any other the parser's; the packet counts one in its direction; the DPI
\* result, if any, is installed.
CreateConnectionFromPacket(p) ==
    [state |-> IF p.flags # None THEN UpdateTcpState("Unknown", p.flags, p.out)
               ELSE p.pstate,
     dpi   |-> p.dpi,
     pid   |-> None,
     sent  |-> IF p.out THEN 1 ELSE 0,
     recv  |-> IF p.out THEN 0 ELSE 1]

\* Mutation: the secondary's pid replaces the primary's whenever it has one.
MergeConnectionsPidOverwrite(primary, secondary) ==
    [primary EXCEPT
        !.pid  = IF secondary.pid # None THEN secondary.pid ELSE @,
        !.sent = IF secondary.sent > @ THEN secondary.sent ELSE @,
        !.recv = IF secondary.recv > @ THEN secondary.recv ELSE @,
        !.dpi  = IF @ = None THEN secondary.dpi ELSE @]

\* Mutation: the secondary's counters are taken as they are.
MergeConnectionsTakeCounters(primary, secondary) ==
    [primary EXCEPT
        !.pid  = IF @ = None /\ secondary.pid # None THEN secondary.pid ELSE @,
        !.sent = secondary.sent,
        !.recv = secondary.recv,
        !.dpi  = IF @ = None THEN secondary.dpi ELSE @]

\* merge_connections: the secondary's pid only when the primary has none,
\* the larger of each counter, the secondary's DPI only when the primary has
\* none; the protocol state is the primary's.
MergeConnections(primary, secondary) ==
    [primary EXCEPT
        !.pid  = IF @ = None /\ secondary.pid # None THEN secondary.pid ELSE @,
        !.sent = IF secondary.sent > @ THEN secondary.sent ELSE @,
        !.recv = IF secondary.recv > @ THEN secondary.recv ELSE @,
        !.dpi  = IF @ = None THEN secondary.dpi ELSE @]

-----------------------------------------------------------------------------
\* Packet ingestion for the flow (spec 4.5 steps 2-4).
Ingest(p) ==
    /\ seen.sent + seen.recv < MaxPackets
    /\ conn' = IF conn = None THEN CreateConnectionFromPacket(p)
               ELSE MergePacketIntoConnection(conn, p)
    /\ engine' = IF p.flags = None THEN engine
                 ELSE UpdateTcpState(engine, p.flags, p.out)
    /\ firstDpi' = IF firstDpi = None THEN p.dpi ELSE firstDpi
    /\ seen' = IF p.out THEN [seen EXCEPT !.sent = @ + 1]
              ELSE [seen EXCEPT !.recv = @ + 1]
    /\ UNCHANGED <<proto, firstPid>>

\* Snapshot fusion for the flow (spec 4.5): an entry whose key is unknown
\* becomes the tracked connection; otherwise the tracked connection is the
\* primary and the snapshot entry the secondary of merge_connections.
Fuse(e) ==
    /\ conn' = IF conn = None THEN e ELSE MergeConnections(conn, e)
    /\ engine' = IF conn = None /\ proto = "TCP" THEN e.state ELSE engine
    /\ firstPid' = IF firstPid = None THEN e.pid ELSE firstPid
    /\ UNCHANGED <<proto, firstDpi, seen>>

\* The flow is not yet tracked; it is first seen either as a packet or as
\* a socket-table entry (spec 3, lifecycle (b)).
Init ==
    /\ proto \in Protocols
    /\ conn = None
    /\ engine = "Unknown"
    /\ firstDpi = None
    /\ firstPid = None
    /\ seen = [sent |-> 0, recv |-> 0]

Next ==
    \/ \E p \in Packets(proto) : Ingest(p)
    \/ \E e \in SnapshotEntries(proto) : Fuse(e)

Spec == Init /\ [][Next]_vars

-----------------------------------------------------------------------------
\* The C2 transition table of spec 4.2.  A row's flags are exactly the ones
\* named, except that FIN rows admit an ACK riding on the FIN; RST closes
\* from any state; anything else leaves the state alone.
TableRows ==
    { [from |-> {"Unknown", "Listen"}, fl |-> {{"SYN"}}, out |-> {FALSE}, to |-> "SynReceived"],
      [from |-> {"Unknown", "Listen"}, fl |-> {{"SYN"}}, out |-> {TRUE}, to |-> "SynSent"],
      [from |-> {"SynSent"}, fl |-> {{"SYN", "ACK"}}, out |-> {FALSE}, to |-> "Established"],
      [from |-> {"SynReceived"}, fl |-> {{"ACK"}}, out |-> {TRUE}, to |-> "Established"],
      [from |-> {"Unknown"}, fl |-> {{"ACK"}}, out |-> BOOLEAN, to |-> "Established"],
      [from |-> {"Established"}, fl |-> {{"FIN"}, {"FIN", "ACK"}}, out |-> {TRUE}, to |-> "FinWait1"],
      [from |-> {"Established"}, fl |-> {{"FIN"}, {"FIN", "ACK"}}, out |-> {FALSE}, to |-> "CloseWait"],
      [from |-> {"FinWait1"}, fl |-> {{"ACK"}}, out |-> {FALSE}, to |-> "FinWait2"],
      [from |-> {"FinWait1"}, fl |-> {{"FIN"}, {"FIN", "ACK"}}, out |-> {FALSE}, to |-> "Closing"],
      [from |-> {"FinWait2"}, fl |-> {{"FIN"}, {"FIN", "ACK"}}, out |-> {FALSE}, to |-> "TimeWait"],
      [from |-> {"CloseWait"}, fl |-> {{"FIN"}, {"FIN", "ACK"}}, out |-> {TRUE}, to |-> "LastAck"],
      [from |-> {"LastAck"}, fl |-> {{"ACK"}}, out |-> {FALSE}, to |-> "Closed"],
      [from |-> {"Closing"}, fl |-> {{"ACK"}}, out |-> {FALSE}, to |-> "TimeWait"] }

TableNext(s, f, out) ==
    IF "RST" \in f THEN "Closed"
    ELSE LET hit == {r \in TableRows : s \in r.from /\ f \in r.fl /\ out \in r.out}
         IN IF hit = {} THEN s ELSE (CHOOSE r \in hit : TRUE).to

\* In every state a flow reaches, update_tcp_state moves exactly as the
\* spec's C2 table says, for every flag combination and direction.
EngineMatchesTable ==
    \A f \in SUBSET FlagNames, out \in BOOLEAN :
        UpdateTcpState(engine, f, out) = TableNext(engine, f, out)

\* A tracked flow is classified as the first of its packets that carried a
\* DPI result was, however many differently classified packets followed
\* (spec 3 invariant 5, spec 8): create_connection_from_packet installs the
\* first packet's result and merge_dpi_info installs a later one only while
\* none is set, never replacing or clearing it.
DpiIsFirstObserved ==
    conn # None => conn.dpi = firstDpi

\* Packet ingestion and snapshot fusion interleave on one flow in any
\* order; the packet counters still count exactly the packets ingested in
\* each direction: a snapshot entry's zero counters never reset them
\* (spec 4.5: counters are never overwritten by the snapshot).  About
\* merge_connections' max and merge_packet_into_connection's increments.
CountersCountPackets ==
    conn # None => conn.sent = seen.sent /\ conn.recv = seen.recv

\* The flow's pid is the first one any snapshot reported, whichever of
\* packets and snapshots created the connection and however they then
\* interleave: packet merges never drop it, and merge_connections fills it
\* only while it is missing (spec 4.5: PID when locally missing).
PidIsFirstReported ==
    conn # None => conn.pid = firstPid

\* For a TCP flow the connection's state is the one C2 computes from the
\* flow's packets (spec 9, open question 2: the computed state wins).
\* merge_packet_into_connection line 88 overwrites it with the parser's.
ComputedTcpStateWins ==
    conn # None /\ proto = "TCP" => conn.state = engine

=============================================================================
