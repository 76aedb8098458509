-------------------------------- MODULE App --------------------------------
(***************************************************************************)
(* App of src/src/app.rs composed with the Monitor it polls.               *)
(*                                                                         *)
(* The UI thread calls monitor.get_connections() under the monitor mutex   *)
(* on every tick (on_tick) and on demand (refresh), gives every row key it *)
(* has not seen an order index, sorts the rows by that index and restores  *)
(* the selection by key.  The row key of get_connection_key is protocol,   *)
(* local, remote AND state, so a row here is exactly that record.  A       *)
(* background thread started by start_capture calls get_connections once a *)
(* second under the same mutex and throws the result away (BackgroundPoll  *)
(* of Monitor).  Every get_connections runs entirely under the mutex, so   *)
(* each is one atomic step.                                                *)
(***************************************************************************)
EXTENDS Monitor, TLC

CONSTANT NoConn    \* Option::None for selected_connection

VARIABLES
    started,       \* network_monitor.is_some(): start_capture has run
    connections,   \* App.connections, the displayed rows
    order,         \* App.connection_order: row key -> order index
    nextOrder,     \* App.next_order_index
    selected,      \* App.selected_connection (a row) or NoConn
    selIdx,        \* App.selected_connection_idx (0-based)
    mode           \* App.mode

appVars == <<started, connections, order, nextOrder, selected, selIdx, mode>>
vars == <<monVars, appVars>>

Modes == {"Overview", "ConnectionDetails", "ProcessDetails", "Help"}
Keys == {"Down", "Up", "Enter", "h", "Esc", "p"}

Rows(seq) == {seq[i] : i \in DOMAIN seq}

-----------------------------------------------------------------------------
\* Mutation: the loop without next_order_index += 1.
AssignOrderNoIncrement(ord, next, rows) ==
    FoldLeft(LAMBDA acc, r :
                IF r \in DOMAIN acc.ord THEN acc
                ELSE [ord |-> (r :> acc.next) @@ acc.ord, next |-> acc.next],
             [ord |-> ord, next |-> next], rows)

\* The "Update connection order" loop: every key not yet in the map gets
\* the next index, in list order.
AssignOrder(ord, next, rows) ==
    FoldLeft(LAMBDA acc, r :
                IF r \in DOMAIN acc.ord THEN acc
                ELSE [ord |-> (r :> acc.next) @@ acc.ord, next |-> acc.next + 1],
             [ord |-> ord, next |-> next], rows)

\* new_connections.sort_by(order of key)
SortByOrder(rows, ord) == SortSeq(rows, LAMBDA a, b : ord[a] < ord[b])

\* find_connection_index: first row whose key equals the selected key.
FindConnectionIndex(seq, sel) ==
    IF \E i \in DOMAIN seq : seq[i] = sel
    THEN CHOOSE i \in DOMAIN seq : seq[i] = sel /\ \A j \in 1..(i - 1) : seq[j] # sel
    ELSE 0

\* The body shared by on_tick and refresh once get_connections returned
\* `rows`; `selectFirst` is on_tick's extra branch that selects the first
\* row when nothing was selected.
Rebuild(rows, selectFirst) ==
    LET a == AssignOrder(order, nextOrder, rows)
        sorted == SortByOrder(rows, a.ord)
        idx == FindConnectionIndex(sorted, selected)
    IN /\ order' = a.ord
       /\ nextOrder' = a.next
       /\ connections' = sorted
       /\ IF selected # NoConn
          THEN IF idx # 0
               THEN selIdx' = idx - 1 /\ selected' = sorted[idx]
               ELSE IF sorted # <<>>
                    THEN selIdx' = 0 /\ selected' = sorted[1]
                    ELSE selIdx' = 0 /\ selected' = NoConn
          ELSE IF selectFirst /\ sorted # <<>>
               THEN selIdx' = 0 /\ selected' = sorted[1]
               ELSE UNCHANGED <<selIdx, selected>>

\* One get_connections call of the UI thread, made under the monitor
\* mutex: process_packets runs, and the call returns the rows of the socket
\* table and of the updated connection map (NewRows).
GetConnections(n) == ProcessPackets(n) /\ UNCHANGED os

NewRows(ssOk, nsOk) == Listing(conns', recent', ssOk, nsOk)

-----------------------------------------------------------------------------
\* start_capture: the first get_connections fills the rows unsorted and
\* without selection; then the background thread starts.
StartCapture(ssOk, nsOk, n) ==
    /\ ~started /\ ~crashed
    /\ GetConnections(n) /\ connections' = NewRows(ssOk, nsOk)
    /\ started' = TRUE
    /\ UNCHANGED <<order, nextOrder, selected, selIdx, mode>>

OnTick(ssOk, nsOk, n) ==
    /\ started /\ ~crashed
    /\ GetConnections(n) /\ Rebuild(NewRows(ssOk, nsOk), TRUE)
    /\ UNCHANGED <<started, mode>>

Refresh(ssOk, nsOk, n) ==
    /\ started /\ ~crashed
    /\ GetConnections(n) /\ Rebuild(NewRows(ssOk, nsOk), FALSE)
    /\ UNCHANGED <<started, mode>>

-----------------------------------------------------------------------------
(* Key handling (handle_key and the four per-mode handlers).  Quit and the *)
(* display toggles 'l' and 'd' change nothing modelled.                    *)

\* Mutation: Down stores the new index first and then reads the row at
\* the index after it (the two assignments in the other order).
HandleOverviewKeysSwapped(k) ==
    LET n == Len(connections)
        i == (selIdx + 1) % n
    IN CASE k = "Down" /\ n > 0 ->
               /\ selected' = connections[((i + 1) % n) + 1]
               /\ selIdx' = i
               /\ UNCHANGED mode
         [] OTHER -> UNCHANGED <<selected, selIdx, mode>>

HandleOverviewKeys(k) ==
    LET n == Len(connections) IN
    CASE k = "Down" /\ n > 0 ->
            /\ selected' = connections[((selIdx + 1) % n) + 1]
            /\ selIdx' = (selIdx + 1) % n
            /\ UNCHANGED mode
      [] k = "Up" /\ n > 0 ->
            LET i == IF selIdx = 0 THEN n - 1 ELSE selIdx - 1
            IN /\ selected' = connections[i + 1]
               /\ selIdx' = i
               /\ UNCHANGED mode
      [] k = "Enter" /\ n > 0 -> mode' = "ConnectionDetails" /\ UNCHANGED <<selected, selIdx>>
      [] k = "h" -> mode' = "Help" /\ UNCHANGED <<selected, selIdx>>
      [] OTHER -> UNCHANGED <<selected, selIdx, mode>>

HandleDetailsKeys(k) ==
    /\ mode' = CASE k = "Esc" -> "Overview"
                 [] k = "p"   -> "ProcessDetails"
                 [] OTHER     -> mode
    /\ UNCHANGED <<selected, selIdx>>

HandleProcessKeys(k) ==
    /\ mode' = IF k = "Esc" THEN "ConnectionDetails" ELSE mode
    /\ UNCHANGED <<selected, selIdx>>

HandleHelpKeys(k) ==
    /\ mode' = IF k \in {"Esc", "h"} THEN "Overview" ELSE mode
    /\ UNCHANGED <<selected, selIdx>>

HandleKey(k) ==
    /\ ~crashed
    /\ CASE mode = "Overview"          -> HandleOverviewKeys(k)
         [] mode = "ConnectionDetails" -> HandleDetailsKeys(k)
         [] mode = "ProcessDetails"    -> HandleProcessKeys(k)
         [] mode = "Help"              -> HandleHelpKeys(k)
    /\ UNCHANGED <<monVars, started, connections, order, nextOrder>>

-----------------------------------------------------------------------------
Init ==
    /\ MonInit
    /\ started = FALSE
    /\ connections = <<>>
    /\ order = [r \in {} |-> 0]
    /\ nextOrder = 0
    /\ selected = NoConn
    /\ selIdx = 0
    /\ mode = "Overview"

Next ==
    \/ ~crashed /\ EnvNext /\ UNCHANGED appVars
    \/ started /\ BackgroundPoll /\ UNCHANGED appVars
    \/ \E ssOk \in BOOLEAN, nsOk \in NetstatOutcomes, n \in 0..BatchLimit :
          \/ StartCapture(ssOk, nsOk, n)
          \/ OnTick(ssOk, nsOk, n)
          \/ Refresh(ssOk, nsOk, n)
    \/ \E k \in Keys : HandleKey(k)

Spec == Init /\ [][Next]_vars

\* One loop iteration of the background thread that reads every frame the
\* capture holds, up to the batch limit.  The capture is opened
\* non-blocking in immediate mode (NetworkMonitor::new), so next_packet
\* fails only when nothing is buffered, barring a capture error.
FullPoll ==
    /\ started /\ ~crashed
    /\ ProcessPackets(IF Len(pending) < BatchLimit THEN Len(pending) ELSE BatchLimit)
    /\ UNCHANGED os /\ UNCHANGED appVars

\* Time passes (the clock behind Instant::now and SystemTime::now), and the
\* background thread's loop, which only sleeps between polls, keeps
\* polling; a capture error cannot recur forever, so a full poll that is
\* enabled again and again is eventually taken (strong fairness: the UI's
\* own polls may keep disabling it by restarting the throttle interval).
Fairness ==
    /\ WF_vars(~crashed /\ Tick /\ UNCHANGED appVars)
    /\ SF_vars(FullPoll)

FairSpec == Spec /\ Fairness

-----------------------------------------------------------------------------
AppTypeOK ==
    /\ MonTypeOK
    /\ started \in BOOLEAN
    /\ \A i \in DOMAIN connections : connections[i].state \in ConnStates
    /\ \A r \in DOMAIN order : order[r] \in 0..(nextOrder - 1)
    /\ nextOrder \in Nat
    /\ selected = NoConn \/ selected.state \in ConnStates
    /\ selIdx \in Nat
    /\ mode \in Modes

-----------------------------------------------------------------------------
(* Properties                                                              *)

\* The identity of the socket a row shows: protocol and both endpoints,
\* whichever side is called local.
FlowId(r) == [proto |-> r.proto, ends |-> {r.local, r.remote}]
KeysOf(seq) == {RowKey(seq[i]) : i \in DOMAIN seq}
FirstPos(seq, k) ==
    CHOOSE i \in DOMAIN seq : RowKey(seq[i]) = k /\ \A j \in 1..(i - 1) : RowKey(seq[j]) # k
\* The rows were produced by on_tick/refresh (start_capture leaves them unsorted).
Sorted == \A i \in DOMAIN connections : connections[i] \in DOMAIN order
\* Keys of what the OS lists or the capture has seen.
RealKeys == {Key(s.proto, s.local, s.remote) : s \in Listed} \cup DOMAIN conns

\* The selection index and the selected row agree: the selected row is the
\* row at selected_connection_idx, and with no selection the index is 0.
\* Broken by a key handler or a rebuild that moves one but not the other.
SelectionConsistent ==
    IF selected = NoConn
    THEN selIdx = 0
    ELSE selIdx < Len(connections) /\ connections[selIdx + 1] = selected

\* Stable ordering (spec 4.5, 8): two flows shown in one order are shown in
\* the same order by every later rebuild that still shows both.  on_tick
\* keys connection_order by get_connection_key, which includes the state.
StableFlowOrder ==
    [][(Sorted /\ connections' # connections) =>
         \A a, b \in KeysOf(connections) \cap KeysOf(connections') :
            FirstPos(connections, a) < FirstPos(connections, b)
              => FirstPos(connections', a) < FirstPos(connections', b)]_vars

\* Every row a rebuild shows is a socket the OS lists or a flow the capture
\* saw (spec 4.4: all sources failing gives an empty snapshot).  Targets
\* the sample rows of get_connections_from_pcap.
NoPhantomRows ==
    [][connections' # connections =>
         \A r \in Rows(connections') : RowKey(r) \in RealKeys']_vars

\* No row shows an endpoint at port 0: no connected socket has one (QueueEp,
\* 127.0.0.1:0, is the only such endpoint of the model).  Targets
\* get_connections_from_netstat, whose parse_addr of the Recv-Q/Send-Q
\* column "0" yields 127.0.0.1:0 for every socket netstat lists.
NoPortZeroRows ==
    \A r \in Rows(connections) : r.local # QueueEp /\ r.remote # QueueEp

\* A socket is shown at most once (spec 3, invariant 3), whichever end the
\* source calls local.  Targets the private-source direction heuristic of
\* process_single_packet and the exists check with which get_connections
\* adds packet-map rows to the platform rows.
UniqueFlowRows ==
    \A i, j \in DOMAIN connections :
        FlowId(connections[i]) = FlowId(connections[j]) => i = j

\* Once capture has started, frames waiting in the kernel capture buffer
\* are eventually read by process_packets (unless a panic has poisoned the
\* mutex), whatever the UI thread does: its calls within the 100 ms
\* throttle read nothing, and each poll reads at most 100 frames.
FramesDrain == (started /\ pending # <<>>) ~> (pending = <<>> \/ crashed)

=============================================================================
