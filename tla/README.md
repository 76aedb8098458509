# TLA+ models of rustnet

This directory holds TLA+ models of the rustnet sources under `src/src/`,
the TLC configurations that check them, and `PROJECT.json`. That file lists
the components, runs, mutants, the map from definitions to source lines,
findings and hazards.

## The system

Two generations of code live side by side in `src/src/`:

* **The running pipeline**: `app.rs`, `network/mod.rs` and `network/linux.rs`.
  * `App` (the UI thread) owns a `NetworkMonitor` behind an `Arc<Mutex<_>>`.
  * `start_capture` takes one `get_connections` snapshot. It then spawns a
    background thread that calls `get_connections` under the mutex once a
    second and throws the result away.
  * `on_tick` and `refresh` call it under the same mutex. They give every
    unseen row key an order index (`connection_order`), sort by that index,
    and restore the selection by key.
  * `get_connections` does the following, in order:
    1. Runs `process_packets`: at most once per 100 ms, up to 100 frames, each
       parsed by `process_single_packet` into a never-pruned map.
    2. Collects the rows of `ss -tupn` and `netstat -tupn`, or fabricated
       sample rows when both yield nothing.
    3. Adds the active packet rows not already listed.
    4. Sorts everything by `last_activity`, newest first.
    5. Filters out loopback-to-loopback rows.
* **The newer engine pieces**: `network/merge.rs` and `network/types.rs`.
  Nothing in the sources calls them yet.
  * `update_tcp_state` is the RFC-793-style engine of spec §4.2.
  * `merge_packet_into_connection`, `create_connection_from_packet` and
    `merge_dpi_info` fold parsed packets into a connection.
  * `merge_connections` folds a second `Connection` for the same flow
    (such as a socket-table entry) into a first one.
  * `CryptoFrameReassembler` reassembles QUIC CRYPTO fragments by offset
    under a 64 KiB cap.

## Modules

| Module | Models | State | Actions |
|---|---|---|---|
| `Monitor` | `network/mod.rs`, `network/linux.rs` | `os` (kernel socket table), `pending` (kernel capture buffer), `conns` (the map: state and idle time), `recent` (keys by `last_activity`), `sinceCheck` (throttle), `crashed` (mutex poisoned) | `ProcessPackets` (inside every poll), `BackgroundPoll`, and the environment: `FrameArrives`, `SocketChanges`, `Tick` |
| `App` | `app.rs`, composed with `Monitor` (`EXTENDS`) | `started`, `connections`, `order`, `nextOrder`, `selected`, `selIdx`, `mode` | `StartCapture`, `OnTick`, `Refresh` (each a whole `get_connections` under the mutex, then the rebuild), `HandleKey` (one per mode handler) |
| `Reassembler` | `CryptoFrameReassembler` and `QuicInfo`'s optional reassembler in `types.rs` | `present` (the `Option` is `Some`), `fragments`, `contiguous_offset`, `has_complete_tls_info`, `cached_tls_info`, `current_buffer_size` | `EnsureReassembler`; and, once present, `AddFragment`, `AddFragmentRejected` (its early returns), `ClearFragments`, `SetCompleteTlsInfo` |
| `CryptoStream` | spec §4.3: what the reassembler promises | `held` (buffered stream positions), `prefix`, `info` | `Admit`, `Clear`, `Learn` |
| `Merge` | `merge.rs` | `proto`, `conn` (state, DPI, pid, packet counters), `engine` (C2 alone); history `firstDpi` (first DPI result a packet carried), `firstPid` (first pid a snapshot reported), `seen` (packets ingested per direction) | `Ingest`: create on the first packet, merge every later one. `Fuse`: a snapshot entry creates the flow, or is merged into it by `merge_connections` |
| `MCApp` | constants for `App` | | |

### How the models correspond to the code

* **Atomic steps.**
  * Every `get_connections` runs entirely under the monitor mutex, so each
    UI or background call is one step.
  * The UI's rebuild after the unlock touches only `App` fields, which no
    other thread reads, so it is part of the same step.
* **Time.** A `Tick` is one unit of time. The throttle interval is
  `Throttle` ticks and the active window `ActiveWindow` ticks. A connection's
  `last_activity` is kept two ways:
  * as its idle time, saturating at `ActiveWindow` (the `is_active`
    threshold);
  * as its place in `recent`, which is what the `last_activity` sort of
    `get_connections` needs.

  Platform rows are stamped by `Connection::new` after `process_packets`,
  so the sort puts them first, in reverse creation order.
* **Frames** are records of the header fields the code reads: source,
  destination, protocol, flag byte, length and IHL. `FrameVerdict` repeats
  the length checks in the code's order. An IHL past the captured bytes is
  the panic of `&ip_data[ip_header_len..]`.
* **The tools.** `ss` and `netstat` output is produced from the kernel state
  by `SsToken` and `NetstatToken`, which model the tools themselves, not this
  repository. They are parsed by `SsState` and `NetstatState`, which are
  translated from the code's `match` arms. netstat addresses come from
  columns 1 and 2 as in the code, which `parse_addr` turns into
  `127.0.0.1:<queue>` (`QueueEp`).
* **Refinement.** `Reassembler` defines `Stream == INSTANCE CryptoStream`.
  The refinement mapping is:
  * `held` is `Held`, the union of the positions its fragments carry;
  * `prefix` is `contiguous_offset`;
  * `info` is `get_cached_tls_info`.

  `ImplementsCryptoStream` (`Stream!Spec`) checks that every step of the code
  is a step of the promise, or leaves the mapped state alone. So the
  key-order walk of `update_contiguous_offset` must land exactly where the
  declarative `Reach` does: the first unbuffered position at or after the
  old offset.
* **netstat lines.** `NetstatLine` is the whitespace-split line the tool
  prints (Proto, Recv-Q, Send-Q, Local, Foreign, State). `ParseAddr` is
  `parse_addr`: a bare number becomes `127.0.0.1:<n>`. Rows take fields 1
  and 2, as the code does.
* **Reassembler bytes.** A byte of the crypto stream is its stream position,
  so the content `get_contiguous_data` returns can be compared with the true
  stream prefix.
* **Merge.**
  * `conn` keeps the protocol state, DPI classification, pid and packet
    counters. Byte counters, names and timestamps are dropped; no property
    reads them. Packets are bounded by `MaxPackets` = 3.
  * The tracker that calls these functions is not in the sources. Its two
    steps come from spec §4.5. `Ingest` is packet ingestion (create on
    the first packet, merge every later one). `Fuse` is snapshot fusion:
    an unknown key becomes a `Connection::new` entry with zero counters;
    a known one is merged as the secondary of `merge_connections`, with
    the tracked connection as primary. That order follows from the spec:
    the snapshot must not overwrite counters and fills the pid only when
    it is missing.
  * The parser is not in the sources, so a TCP `ParsedPacket`'s
    `protocol_state` is drawn from `ParserTcpStates`. That is `{Unknown}` in
    the cfg, the value the merge.rs tests use.
  * A TCP flow may also start in any state, through `Fuse`, as a
    socket-table entry (spec §3, lifecycle b).

## Runs

| Run | Result | What it shows |
|---|---|---|
| `app_selection` | pass, about 176k states, 2-3 min | `SelectionConsistent` holds under every interleaving of the background poller, frames, socket changes, ticks, refreshes and keys. The selection index always designates the selected row, so Up/Down never index out of bounds. `AppTypeOK` also holds. `UniqueFlowRows` holds here, where the host's address is private: the `exists` check of `get_connections` keeps a flow that both `ss` and the packet map report to one row. netstat is not installed in this run, so `ss` rows meeting netstat rows is not exercised. (`app_unique` shows the public-host case.) Under the fairness below, `FramesDrain` holds: once capture has started, frames in the capture buffer are always eventually read, however often the UI's own calls restart the throttle interval. |
| `app_order` | violation of `StableFlowOrder` | `get_connection_key` includes the state, so a flow going ESTABLISHED→FIN_WAIT2 gets a new order index and drops below a newer flow. |
| `app_netstat` | violation of `NoPortZeroRows` | The kernel lists L1–R1 and netstat is installed. The netstat row for it reads its addresses from the queue columns and shows 127.0.0.1:0 on both ends. |
| `app_fallback` | violation of `NoPhantomRows` | ss succeeds with no sockets and netstat is missing, so fabricated 8.8.8.8 rows appear. |
| `app_unique` | violation of `UniqueFlowRows` | On a public-address host one socket becomes two rows. |
| `monitor_regress` | violation of `TcpStateNoRegression` | FIN+ACK then ACK shows a closing flow as Established again. |
| `monitor_badihl` | violation of `NoCrash` | A bad IHL panics `process_packets`. In the trace this happens in `start_capture`'s first call, before the monitor is shared. In any later poll it happens under the mutex and poisons it. |
| `reassembler` | pass, about 3.8k states | For fragments of length ≥ 1, with duplicates, overlaps, the cap and `clear_fragments`: `TypeOK`; the buffer counter equals the bytes held; fragments are disjoint; what `get_contiguous_data` returns is a true stream prefix; and the reassembler refines `CryptoStream` (`ImplementsCryptoStream`), so the offset never decreases and never passes a gap. This includes `ensure_reassembler` on a flow that already has a reassembler: it keeps the buffered fragments and the TLS info. (A version that always creates a fresh one breaks the refinement.) |
| `reassembler_clear` | violation of `ContiguousDataCorrect` | After `clear_fragments` the offset is kept, and a retransmitted first fragment yields data shorter than the offset. |
| `reassembler_zerolen` | violation of `BufferAccounting` | A zero-length fragment replaces stored bytes without adjusting the counter. |
| `merge` | pass, about 2.3k states | `update_tcp_state` equals the spec's C2 table in every reachable state, for all 16 flag sets and both directions. Packets and snapshots of one flow interleave in any order, and through all of it the flow keeps three things. Its DPI is the first result any of its packets carried (`DpiIsFirstObserved`). Its pid is the first a snapshot reported (`PidIsFirstReported`). Its packet counters equal the packets ingested in each direction (`CountersCountPackets`). |
| `merge_overwrite` | violation of `ComputedTcpStateWins` | merge.rs:88 overwrites the computed TCP state with the parser's state. |

Two more disagreements were found while modelling. Neither has a run of its own:

* The state-bearing key of `get_connection_key` is also what
  `find_connection_index` matches on (app.rs:404). When the selected flow
  changes state, the selection therefore jumps to row 0, the same root cause
  `app_order` shows.
* `update_tcp_state`, like the spec's C2 table, has no way out of TimeWait
  but RST. The spec's boundary trace (§8) ends in Closed on the final
  ACK(out), so the spec contradicts itself and the code follows the table.

Each property of a passing run has a mutant in `PROJECT.json`: an operator
defined just before the code definition it replaces (dropped guard, missing
reset, wrong start value, swapped assignment). TLC finds the property
violated under the run's own cfg.

## Bounds and why they are enough

* **`MCApp`**
  * Endpoints: one host endpoint `L1`, two peers `R1` and `R2`, the
    queue address `Q`, and the two sample endpoints.
  * One kernel socket, `L1`–`R1`, and two flows on the wire. The R2 flow is
    packet-only, so rows of both origins meet in one listing.
  * Capture buffer 1, batch 1, throttle 1 (2 in the pass run) and active
    window 1. These let a frame be pending, processed, aged out and
    throttled. Larger values only repeat these cases.
  * The pass run uses one kernel state and netstat not installed, to stay
    within minutes. The violation runs use FIN_WAIT2 and netstat where their
    question needs them.
* **`Reassembler`**: offsets 0..5, lengths 1..3, cap 6, a ClientHello of
  4 bytes. This is enough for out-of-order arrival, a gap then its fill,
  exact duplicates, a fragment at a stored offset with another length,
  partial overlaps on either side and one fragment spanning another, the
  cap refusing a fragment, and a clear followed by retransmission.
* **`Merge`**: all 16 flag combinations, both directions, both protocols,
  the five application-protocol classes, and every initial TCP state.
  Up to 3 packets, and snapshots with no pid or either of two pids. So
  packets can come before, between and after snapshots, and a later
  snapshot can report a different pid.
* **`MCApp` throttle.** The pass run sets `Throttle = 2`, so a poll can land
  strictly inside the interval and return early. With 1, every poll after a
  tick is due, and a throttle that restarts on every call could not be told
  apart from a correct one.

## Fairness

`app_selection` checks `FairSpec`, which is `Spec /\ Fairness`. The
fairness has two conjuncts:

* **`WF` on `Tick`.** The clock behind `Instant::now` always advances.
* **`SF` on `FullPoll`.** This is a background poll that reads every
  buffered frame, up to the batch limit.
  * The background thread of `start_capture` loops forever. It only sleeps
    between polls, and only a poisoned mutex can stop it.
  * The capture is opened non-blocking in immediate mode, so `next_packet`
    fails only when nothing is buffered, barring a capture error that cannot
    recur forever.
  * Fairness must be strong, not weak. Each UI call made while a poll is due
    resets `last_packet_check`, so `FullPoll` is enabled only from time to
    time.

Nothing is assumed of the UI: its ticks, refreshes and keys may stop at any
time. `FramesDrain` then holds. Its mutant resets the throttle before the
test (`ProcessPacketsResetFirst`). With that mutant, polls that come faster
than the interval keep it from ever expiring, and TLC finds frames that wait
forever.

## Not modelled

* The process lookups `try_ss_command`, `try_netstat_command`,
  `try_proc_parsing` and `get_process_for_selected_connection`. They are text
  scraping and a display cache. No modelled operation reads what they
  write: the pid lands in `App.processes` and in a copy of one row. Reading
  the code shows defects that the hazards list records without a run:
  * `try_proc_parsing` formats the address as unpadded big-endian hex, but
    the kernel prints `%08X` of the address in host order. So on a
    little-endian host only wildcard (`00000000`) sockets ever match.
  * It also formats the port as unpadded hex, so no port below 4096 matches.
  * It ignores the remote endpoint.
  * `try_netstat_command` reads the Recv-Q and Send-Q columns as
    addresses, so it never matches. Its `PID/Program` field would not
    parse as a number either.
  * `try_ss_command` matches the remote port by substring, so `:80` also
    matches `:8080`.
* The `l`/`d` toggles, `dns_cache` and `format_socket_addr`: display only.
* Byte counters and rates, and the packet counters of the `NetworkMonitor` connection map (`Merge` keeps the packet counters of merge.rs).
* The other dead helpers of merge.rs. `enrich_with_process_info` and
  `enrich_with_service_name` set names, and `update_connection_rates`
  computes floating-point rates. `connections_match` and
  `connection_matches_packet` compare keys, and the model has one flow.
* `merge_connections` ignores the snapshot's TCP state, which spec §4.5
  calls authoritative. `Fuse` keeps the tracked state, as the code does.
  No run states the spec's rule, because the tracker that would apply it
  is not in the sources.
* `is_stale`, which has no caller.
* The macOS and Windows adapters, which are not in the sources.
* The spec's tracker (C5), parser and DPI, which are not in the sources.
  Only the ingestion and fusion steps that drive merge.rs are taken from
  spec §4.5.
* `app.rs` calls `NetworkMonitor::new(interface)` with one argument while
  `mod.rs` takes two. The model takes `filter_localhost` as the constant
  `FilterLocalhost`.

## Next steps

* A composition of `Merge` with `Reassembler` for QUIC flows, once the
  parser that feeds CRYPTO frames exists in the sources.
* A liveness property for the UI: a flow's row eventually shows. This would
  need fairness on `on_tick`, whose event loop is not in the sources.
