------------------------------ MODULE Monitor ------------------------------
(***************************************************************************)
(* NetworkMonitor of src/src/network/mod.rs together with the Linux        *)
(* socket-table adapter of src/src/network/linux.rs.                       *)
(*                                                                         *)
(* The monitor owns a map from flow key to Connection that is filled from  *)
(* captured frames (process_packets, throttled and bounded per poll) and   *)
(* never pruned.  get_connections merges that map with the rows the `ss`   *)
(* and `netstat` commands report, falls back to sample rows when both      *)
(* report nothing, and filters loopback-to-loopback rows.                  *)
(*                                                                         *)
(* Time is abstract: a Tick is one unit, the throttle Throttle units.  A  *)
(* connection's last_activity is kept as its idle time, saturating at     *)
(* ActiveWindow, the "no longer active" threshold of is_active.           *)
(* Byte and packet counters are left out: no property reads them.          *)
(***************************************************************************)
EXTENDS Naturals, Sequences, SequencesExt, FiniteSets

CONSTANTS
    Endpoints,       \* socket addresses (ip:port) as model values
    PrivateEps,      \* endpoints whose IPv4 is in 10/8, 172.16/12, 192.168/16, 127/8
    LoopbackEps,     \* endpoints whose IP is a loopback address
    QueueEp,         \* 127.0.0.1:0, what parse_addr makes of a netstat "0" queue column
    Sockets,         \* the host sockets, in the order the kernel lists them:
                     \* a sequence of [proto, local, remote]
    KernelStates,    \* kernel TCP states the sockets may be in (Linux names)
    SampleRows,      \* the rows get_connections_from_pcap fabricates, in order
    Frames,          \* frames the wire may deliver
    MaxPending,      \* capacity of the capture buffer (bound)
    BatchLimit,      \* packets read per poll (100 in the code)
    Throttle,        \* ticks between two polls (100 ms in the code)
    ActiveWindow,    \* idle ticks after which a connection is inactive (60 s)
    NetstatInstalled,\* whether Command::new("netstat") can run at all
    FilterLocalhost  \* NetworkMonitor.filter_localhost

ASSUME /\ PrivateEps \subseteq Endpoints /\ LoopbackEps \subseteq PrivateEps
       /\ QueueEp \in LoopbackEps
       /\ BatchLimit \in Nat \ {0} /\ Throttle \in Nat \ {0}
       /\ ActiveWindow \in Nat \ {0} /\ MaxPending \in Nat
       /\ NetstatInstalled \in BOOLEAN /\ FilterLocalhost \in BOOLEAN

Absent == "Absent"          \* os[s] = Absent: the OS does not list s

VARIABLES
    os,          \* os[s]: kernel state of socket s, or Absent
    pending,     \* frames captured by the kernel, not yet read by the monitor
    conns,       \* NetworkMonitor.connections: key -> [state, idle]
    recent,      \* keys of conns by last_activity, most recent first
    sinceCheck,  \* ticks since last_packet_check, saturating at Throttle
    crashed      \* a thread panicked holding the monitor mutex (poisoned)

monVars == <<os, pending, conns, recent, sinceCheck, crashed>>

Key(p, l, r) == [proto |-> p, local |-> l, remote |-> r]
Row(p, l, r, st) == [proto |-> p, local |-> l, remote |-> r, state |-> st]
RowKey(row) == Key(row.proto, row.local, row.remote)

ConnStates == {"Established", "SynSent", "SynReceived", "FinWait1",
               "FinWait2", "TimeWait", "CloseWait", "LastAck", "Listen",
               "Closing", "Reset", "Unknown"}

-----------------------------------------------------------------------------
(* Packet path: process_single_packet                                      *)

\* is_outgoing: the source IPv4 is private or loopback.
IsOutgoing(f) == f.src \in PrivateEps

\* Connection state derived from the raw TCP flag byte.
FlagState(flags) ==
    CASE flags = 2  -> "SynSent"
      [] flags = 18 -> "SynReceived"
      [] flags = 16 -> "Established"
      [] flags = 1  -> "FinWait1"
      [] flags = 17 -> "FinWait2"
      [] flags = 4  -> "Reset"
      [] flags = 20 -> "Closing"
      [] OTHER      -> "Established"

\* The key of a frame: local side is the source when outgoing.
FrameKey(f) ==
    LET p == IF f.proto = 6 THEN "TCP" ELSE "UDP"
    IN IF IsOutgoing(f) THEN Key(p, f.src, f.dst) ELSE Key(p, f.dst, f.src)

\* The length checks of process_single_packet, in the order the code makes
\* them.  "panic": &ip_data[ip_header_len..] with ip_header_len past the
\* end of the captured data.
FrameVerdict(f) ==
    LET ipLen == f.len - 14
        trLen == ipLen - f.ihl * 4
    IN CASE f.len < 14                        -> "drop"
         [] ipLen < 20                        -> "drop"
         [] f.ver # 4                         -> "drop"
         [] f.ihl * 4 > ipLen                 -> "panic"
         [] trLen < 8                         -> "drop"
         [] f.proto = 6 /\ trLen < 20         -> "drop"
         [] f.proto \notin {6, 17}            -> "drop"
         [] OTHER                             -> "flow"

\* Create or update the connection the frame belongs to.
UpsertConn(c, f) ==
    LET k == FrameKey(f)
        st == IF f.proto = 6 THEN FlagState(f.flags)
              ELSE IF k \in DOMAIN c THEN c[k].state ELSE "Unknown"
    IN [x \in DOMAIN c \cup {k} |->
            IF x = k THEN [state |-> st, idle |-> 0] ELSE c[x]]

\* The frame's flow becomes the most recently active one.
Touch(r, f) == <<FrameKey(f)>> \o SelectSeq(r, LAMBDA k : k # FrameKey(f))

\* One packet applied to [conns, recent, crashed].
ProcessSinglePacket(acc, f) ==
    IF acc.crashed THEN acc
    ELSE CASE FrameVerdict(f) = "panic" -> [acc EXCEPT !.crashed = TRUE]
           [] FrameVerdict(f) = "flow"  -> [acc EXCEPT !.conns = UpsertConn(@, f),
                                                       !.recent = Touch(@, f)]
           [] OTHER                     -> acc

\* Mutation: last_packet_check is reset before the throttle test, so every
\* call, even one that returns early, restarts the interval.
ProcessPacketsResetFirst(n) ==
    \/ /\ sinceCheck < Throttle
       /\ n = 0
       /\ sinceCheck' = 0
       /\ UNCHANGED <<pending, conns, recent, crashed>>
    \/ /\ sinceCheck >= Throttle
       /\ n <= BatchLimit /\ n <= Len(pending)
       /\ LET r == FoldLeft(ProcessSinglePacket,
                            [conns |-> conns, recent |-> recent, crashed |-> FALSE],
                            SubSeq(pending, 1, n))
          IN /\ conns' = r.conns
             /\ recent' = r.recent
             /\ crashed' = r.crashed
       /\ pending' = SubSeq(pending, n + 1, Len(pending))
       /\ sinceCheck' = 0

\* process_packets: nothing when polled within Throttle of the last poll;
\* otherwise reset the throttle and read n frames (n below the batch limit
\* when the capture reports an error or runs dry).
ProcessPackets(n) ==
    \/ /\ sinceCheck < Throttle
       /\ n = 0
       /\ UNCHANGED <<pending, conns, recent, sinceCheck, crashed>>
    \/ /\ sinceCheck >= Throttle
       /\ n <= BatchLimit /\ n <= Len(pending)
       /\ LET r == FoldLeft(ProcessSinglePacket,
                            [conns |-> conns, recent |-> recent, crashed |-> FALSE],
                            SubSeq(pending, 1, n))
          IN /\ conns' = r.conns
             /\ recent' = r.recent
             /\ crashed' = r.crashed
       /\ pending' = SubSeq(pending, n + 1, Len(pending))
       /\ sinceCheck' = 0

-----------------------------------------------------------------------------
(* Socket-table path: linux::get_platform_connections                      *)

\* How ss and netstat print a kernel state (the tools, not this repository).
SsToken(ks) ==
    CASE ks = "ESTABLISHED" -> "ESTAB"     [] ks = "SYN_SENT"  -> "SYN-SENT"
      [] ks = "SYN_RECV"    -> "SYN-RECV"  [] ks = "FIN_WAIT1" -> "FIN-WAIT-1"
      [] ks = "FIN_WAIT2"   -> "FIN-WAIT-2" [] ks = "TIME_WAIT" -> "TIME-WAIT"
      [] ks = "CLOSE_WAIT"  -> "CLOSE-WAIT" [] ks = "LAST_ACK"  -> "LAST-ACK"
      [] ks = "CLOSING"     -> "CLOSING"
NetstatToken(ks) == ks

\* State column of an `ss -tupn` line.
SsState(proto, tok) ==
    CASE tok = "ESTAB"      -> "Established" [] tok = "LISTEN"     -> "Listen"
      [] tok = "TIME-WAIT"  -> "TimeWait"    [] tok = "CLOSE-WAIT" -> "CloseWait"
      [] tok = "SYN-SENT"   -> "SynSent"     [] tok = "SYN-RECV"   -> "SynReceived"
      [] tok = "FIN-WAIT-1" -> "FinWait1"    [] tok = "FIN-WAIT-2" -> "FinWait2"
      [] tok = "LAST-ACK"   -> "LastAck"     [] tok = "CLOSING"    -> "Closing"
      [] tok = "UNCONN" /\ proto = "UDP" -> "Established"
      [] OTHER -> "Unknown"

\* State column (fields[5]) of a `netstat -tupn` line.
NetstatState(tok) ==
    CASE tok = "ESTABLISHED" -> "Established"
      [] tok \in {"LISTENING", "LISTEN"} -> "Listen"
      [] tok = "TIME_WAIT"   -> "TimeWait"    [] tok = "CLOSE_WAIT" -> "CloseWait"
      [] tok = "SYN_SENT"    -> "SynSent"
      [] tok \in {"SYN_RECEIVED", "SYN_RECV"} -> "SynReceived"
      [] tok = "FIN_WAIT_1"  -> "FinWait1"    [] tok = "FIN_WAIT_2" -> "FinWait2"
      [] tok = "LAST_ACK"    -> "LastAck"     [] tok = "CLOSING"    -> "Closing"
      [] OTHER -> "Unknown"

SocketSet == ToSet(Sockets)
\* Whether a netstat run succeeds; it never does when netstat is missing.
NetstatOutcomes == IF NetstatInstalled THEN BOOLEAN ELSE {FALSE}

Listed == {s \in SocketSet : os[s] # Absent}
ListedSeq == SelectSeq(Sockets, LAMBDA s : os[s] # Absent)

\* get_connections_from_ss: one row per listed socket, addresses from
\* fields[4] and fields[5].
SsRows == [i \in 1..Len(ListedSeq) |->
             LET s == ListedSeq[i]
             IN Row(s.proto, s.local, s.remote, SsState(s.proto, SsToken(os[s])))]

\* A `netstat -tupn` line for socket s, split on whitespace: Proto,
\* Recv-Q, Send-Q, Local Address, Foreign Address, State (the tool, not
\* this repository; an idle socket's queues are 0).
NetstatLine(s) == <<s.proto, 0, 0, s.local, s.remote, NetstatToken(os[s])>>

\* parse_addr: a token that parses as ip:port is that endpoint; a bare
\* port number n becomes 127.0.0.1:n, which for the 0 of a queue column is
\* QueueEp.
ParseAddr(tok) == IF tok \in Endpoints THEN tok ELSE QueueEp

\* get_connections_from_netstat: addresses are read from fields[1] and
\* fields[2] (local_idx, remote_idx), the Recv-Q and Send-Q columns; the
\* state from fields[5].
NetstatRows == [i \in 1..Len(ListedSeq) |->
                  LET f == NetstatLine(ListedSeq[i])
                  IN Row(f[1], ParseAddr(f[2]), ParseAddr(f[3]), NetstatState(f[6]))]

\* get_connections_from_pcap: the sample rows to 8.8.8.8 it fabricates
\* from the host's local address; it reads no capture data.
GetConnectionsFromPcap == SampleRows

\* get_platform_connections: each command may fail (logged, no rows); when
\* no row was found the fabricated sample rows are returned.
PlatformRows(ssOk, nsOk) ==
    LET rows == (IF ssOk THEN SsRows ELSE <<>>)
                \o (IF nsOk THEN NetstatRows ELSE <<>>)
    IN IF rows = <<>> THEN GetConnectionsFromPcap ELSE rows

\* Mutation: packet rows are added without checking whether a platform row
\* already has their identity.
ListingNoKnownCheck(c, rec, ssOk, nsOk) ==
    LET plat == PlatformRows(ssOk, nsOk)
        xs == SelectSeq(rec, LAMBDA k : c[k].idle < ActiveWindow)
        all == Reverse(plat) \o [i \in 1..Len(xs) |->
                          Row(xs[i].proto, xs[i].local, xs[i].remote, c[xs[i]].state)]
    IN IF FilterLocalhost
       THEN SelectSeq(all, LAMBDA r : ~(r.local \in LoopbackEps /\ r.remote \in LoopbackEps))
       ELSE all

\* get_connections over the connection map c with recency order rec (after
\* process_packets): platform rows, then active packet rows whose identity
\* no platform row has, sorted by last_activity, newest first, then the
\* loopback filter.  Every platform row is created (Connection::new stamps
\* last_activity) after process_packets and after the one before it, so
\* the sort puts them first and reversed, and the packet rows after them
\* most recently active first.
Listing(c, rec, ssOk, nsOk) ==
    LET plat == PlatformRows(ssOk, nsOk)
        known == {RowKey(plat[i]) : i \in DOMAIN plat}
        xs == SelectSeq(rec, LAMBDA k : k \notin known /\ c[k].idle < ActiveWindow)
        all == Reverse(plat) \o [i \in 1..Len(xs) |->
                          Row(xs[i].proto, xs[i].local, xs[i].remote, c[xs[i]].state)]
    IN IF FilterLocalhost
       THEN SelectSeq(all, LAMBDA r : ~(r.local \in LoopbackEps /\ r.remote \in LoopbackEps))
       ELSE all

-----------------------------------------------------------------------------
(* Environment: the wire, the kernel socket table and the clock            *)

FrameArrives(f) ==
    /\ Len(pending) < MaxPending
    /\ pending' = Append(pending, f)
    /\ UNCHANGED <<os, conns, recent, sinceCheck, crashed>>

SocketChanges(s, ks) ==
    /\ os[s] # ks
    /\ os' = [os EXCEPT ![s] = ks]
    /\ UNCHANGED <<pending, conns, recent, sinceCheck, crashed>>

Tick ==
    /\ sinceCheck' = IF sinceCheck < Throttle THEN sinceCheck + 1 ELSE sinceCheck
    /\ conns' = [k \in DOMAIN conns |->
                   [conns[k] EXCEPT !.idle = IF @ < ActiveWindow THEN @ + 1 ELSE @]]
    /\ UNCHANGED <<os, pending, recent, crashed>>

EnvNext ==
    \/ \E f \in Frames : FrameArrives(f)
    \/ \E s \in SocketSet, ks \in KernelStates \cup {Absent} : SocketChanges(s, ks)
    \/ Tick

\* NetworkMonitor::new: last_packet_check starts in the past, so the first
\* get_connections polls.
MonInit ==
    /\ os = [s \in SocketSet |-> Absent]
    /\ pending = <<>>
    /\ conns = [k \in {} |-> [state |-> "Unknown", idle |-> 0]]
    /\ recent = <<>>
    /\ sinceCheck = Throttle
    /\ crashed = FALSE

\* A get_connections call whose result is discarded (the background thread
\* of App::start_capture): only process_packets changes monitor state.
BackgroundPoll ==
    /\ ~crashed
    /\ \E n \in 0..BatchLimit : ProcessPackets(n)
    /\ UNCHANGED os

MonNext == (~crashed /\ EnvNext) \/ BackgroundPoll

MonSpec == MonInit /\ [][MonNext]_monVars

-----------------------------------------------------------------------------
MonTypeOK ==
    /\ os \in [SocketSet -> KernelStates \cup {Absent}]
    /\ pending \in Seq(Frames) /\ Len(pending) <= MaxPending
    /\ \A k \in DOMAIN conns :
          /\ k.proto \in {"TCP", "UDP"} /\ k.local \in Endpoints /\ k.remote \in Endpoints
          /\ conns[k].state \in ConnStates /\ conns[k].idle \in 0..ActiveWindow
    /\ ToSet(recent) = DOMAIN conns /\ Len(recent) = Cardinality(DOMAIN conns)
    /\ sinceCheck \in 0..Throttle
    /\ crashed \in BOOLEAN

\* Closing states of the TCP state table the spec gives the engine (C2):
\* once a flow is in one of them it only moves forward or to Closed.
ClosingStates == {"FinWait1", "FinWait2", "Closing", "TimeWait", "CloseWait", "LastAck"}
OpeningStates == {"Established", "SynSent", "SynReceived"}

\* A TCP connection the monitor has seen closing is never shown as opening
\* or established again by a later packet.  process_single_packet sets the
\* state from the flag byte of the last packet alone (mod.rs 366-408).
TcpStateNoRegression ==
    [][\A k \in DOMAIN conns \cap DOMAIN conns' :
          conns[k].state \in ClosingStates => conns'[k].state \notin OpeningStates]_monVars

\* No captured frame, however malformed, panics the thread that holds the
\* monitor mutex (a panic poisons it and the UI's lock().unwrap() aborts).
\* process_single_packet slices ip_data at the IHL-derived header length.
NoCrash == ~crashed

=============================================================================
