# Formal models of the mpeg2ts-reader demultiplexer

These TLA+ modules model `src/src/demultiplex.rs`, the component that
routes 188-byte MPEG-2 transport-stream packets to per-PID filters. The
filters are created and destroyed as PAT and PMT tables announce programs
and elementary streams. TLC checks the models on small instances; TLAPS
proves the dispatcher's type correctness and its batching safety for
every value of the constants.

## The system

| Part | Code | State | Operations |
|---|---|---|---|
| Filter table | `Filters` (140-182) | `Vec<Option<F>>` indexed by PID | `new`, `contains`, `get`, `insert` (grows by `diff+1`), `remove` (no-op past the end) |
| Changeset | `FilterChange`, `FilterChangeset` (185-242) | `Vec<FilterChange>` | `insert`/`remove` append an edit; `apply` drains the edits in order |
| Dispatcher | `Demultiplex::new`, `push` (657-718) | the filter table | `new` installs the PAT filter at PID 0. `push` walks the buffer in 188-byte steps, autodiscovers unknown PIDs, batches runs of one PID, and drains the changeset after each run |
| PAT processor | `PatProcessor`, `PatPacketFilter` (476-580, 620-655) | `current_version`, `filters_registered` | `new_table`: check `table_id == 0`, insert a PMT filter per program, remove the registered PIDs not seen (`0..0x1fff`) |
| PMT processor | `PmtProcessor`, `PmtSection`, `StreamInfo` (260-474) | the same, per program | `new_table`: check `table_id == 2`, insert a `ByStream` filter per stream, remove the unseen PIDs |
| Constructor, context | `StreamConstructor`, `DemuxContext`, the macros (39-139, 612-618, 738-752) | none | map a `FilterRequest` to a filter |
| psi layer | `crate::psi` (not under `src/src/demultiplex.rs`) | reassembly buffer, dedup version | deliver complete, CRC-valid sections whose version differs from the last one delivered |

How the parts interact: a PAT or PMT filter runs inside `push` while the
dispatcher holds a mutable borrow of it. It therefore cannot edit the
table directly: it appends edits to the changeset in the context. The
dispatcher applies them when the batch ends. The inner loop runs only
while the changeset is empty, so a batch ends at the packet that
produced edits.

## Modules

- `FilterTable.tla`: the table as a function from PIDs to a handler or
  `None`. It defines `ApplyChangeset`, the closed form of a sequential
  drain: for each PID, the last edit to it wins. It has no recursion, so
  the proofs can use it.
- `AbstractFilters.tla`: the abstract specification of the table and the
  changeset: direct inserts, enqueued edits, and an atomic drain.
- `FiltersVec.tla`: the code's representation. A `Seq` grows by `diff+1`
  on insert, `remove` is ignored past the end, and the drain is a
  recursive function applying one edit at a time. It is shown to
  implement `AbstractFilters` under `table <- AsMap(vec), log <- updates`.
- `Demux.tla`: the dispatcher composed with PAT, PMT, elementary and null
  filters.
  - `pc` is the place in `push`: `idle`, `outer`, `inner` (the handler is
    borrowed) or `after` (the inner loop has ended).
  - `i` is the packet index, the code's `i / 188`.
  - `LoopEnd`, `LoopDesync`, `LoopLookup`, `Dispatch` (with its
    continuation `Advance`), `InnerExit` and `AfterInner` are the branches
    of the loop, in the code's order.
  - A handler has a kind, a PID, `last` (the dedup version of the psi
    layer), `cur` (`current_version`) and `reg` (`filters_registered`).
  - `NewTable` is `new_table`: its inserts in section order, then its
    removes in ascending PID order over `ScanRange = 0..8190`, which is
    exactly the `0..0x1fff` of the code.
  - `Delivers` models the psi contract from the spec (the only
    spec-modelled operator besides the packet and section records).
  - History variables record what the outside can observe: `consumed` (the
    buffer positions delivered and to which slot), `patAnnounced` (the
    PIDs the last accepted PAT lists) and `pmtAnnounced` (per PMT PID, the
    streams its last accepted PMT lists).
  - `pmtVersion` (history) records, per PMT PID, the version of the
    last PMT accepted there. `StreamsReinsertedOnNewVersion` uses it.
  - `PushStep` is every action except `Push`: the steps of `push` itself.
    `FairSpec` adds weak fairness of `PushStep` to `Spec`.
- `PsiParse.tla`: the byte-level parse of one
  delivered section. `section()` cuts the 8 header bytes and the 4 CRC
  bytes. `PatSection` and `ProgramNext` are `PatSection::programs` and
  `ProgramIter::next`. `PmtSection` is `PmtSection::streams`, with its
  panic. `StreamNext` is `StreamInfoIter::next` with
  `StreamInfo::from_bytes`. Each `next()` call is one step. The field
  accessors are the code's masks and shifts (`&` with a low mask is `%`,
  `<< 8 |` is `* 256 +`). The reference definitions `SpecPatPids` and
  `SpecPmtPids` are written from the layouts of spec 6, and the
  truncation rule of spec 4.5. The stream loop `SpecStreams` is a
  recursive function on the remaining bytes, not a `RECURSIVE`
  operator, so that the module can be reasoned about in TLAPS.
- `MC_Demux.tla`, `MC_FiltersVec.tla`, `MC_PsiParse.tla`: the
  model-checking instances.
- `Demux_proofs.tla`: the TLAPS proofs of typing and batching, and the
  lemmas on `Rank` and `new_table`.
- `Demux_routing_proofs.tla`: the TLAPS proofs of `PmtRoutingFollowsPat`
  and of the action property `RoutingChangesOnlyByTables`.
- `Demux_es_proofs.tla`: the TLAPS proof of `EsAnnouncedRouted`.
- `FiltersVec_proofs.tla`: the TLAPS proofs that the `Vec` table is well
  typed and implements `AbstractFilters`.
- `PsiParse_proofs.tla`: the TLAPS proofs that the PAT and PMT iterators
  hand `new_table` exactly the PIDs of the spec's layouts.

## Runs

| Run | Expect | What it shows |
|---|---|---|
| `demux_safety` (`MC_Demux.cfg`) | pass | `TypeOK`. `DispatchToOwnPid`: every consumed packet went to the filter of its own PID. `DispatchInOrder`: within a push, consumption is strictly in buffer order. `PmtRoutingFollowsPat`: once pending edits are applied, PMT filters sit exactly at the PIDs the last accepted PAT lists. `EsAnnouncedRouted`: every stream that a routed PMT lists has a stream filter. `RoutingChangesOnlyByTables` (action property): the kind of a PID's effective filter changes only in a step that accepts a PAT or PMT, or when push fills an empty slot. |
| `filters_vec_refinement` (`MC_FiltersVec.cfg`) | pass | The `Vec` representation with its sequential drain implements the abstract table. |
| `packet_skipped_after_edit` | violation | `EveryPacketDispatched` fails: after an edit, the next packet of the same PID is skipped (line 716). |
| `edits_pending_on_desync` | violation | `ChangesetDrainedOnReturn` fails: a lost sync byte right after an edit returns at line 699 with edits pending. |
| `es_filters_orphaned` | violation | `EsRoutedAnnounced` fails: stream filters outlive their program or their PMT entry (lines 501, 509). |
| `top_pid_never_removed` (`MC_Demux_TopPid.cfg`) | violation | `PmtRoutingFollowsPat` fails for a PMT on PID 0x1FFF (scan `0..0x1fff`, line 507). |
| `demux_liveness` (`MC_Demux_Liveness.cfg`) | pass | `PushReturns`: under `FairSpec`, every `push` call returns. |
| `psi_parse` (`MC_PsiParse.cfg`) | pass | `TypeOK`. `PatProgramsAsSpecified` and `PmtStreamsAsSpecified`: when the iterators run to the end, `new_table` receives exactly the PIDs the spec's layout gives. This covers the silent truncation of `StreamInfoIter` (line 332). |
| `streams_reinserted` (`MC_Demux_Reinsert.cfg`) | violation | `StreamsReinsertedOnNewVersion` fails: a PMT filter re-created by a PAT accepts the same PMT version again and replaces its stream filters (lines 501, 639). |
| `shared_es_pid` (`MC_Demux_SharedEs.cfg`) | violation | `EsAnnouncedRouted` fails: one program's PMT removes a stream PID that another program still lists (line 297). |
| `pat_trailing_bytes_panic` (`MC_PsiParse_PatPanic.cfg`) | violation | `SectionErrorsAreLocal` fails: `split_at(4)` panics on a PAT body with trailing bytes (line 576). |
| `pmt_program_info_panic` (`MC_PsiParse_PmtPanic.cfg`) | violation | `SectionErrorsAreLocal` fails: `program_info_length` past the body panics (line 406). |

Bounds for `MC_Demux`:

- PIDs: {0, 101, 102, 201}, giving the PAT, two PMT PIDs and one stream.
- Versions: {0, 1}.
- Buffers: up to 3 packets per push, over any number of pushes.
- Packets:
  - PAT v0 listing 101;
  - PAT v1 listing 101 and 102;
  - PMT v0 at 101 listing 201;
  - PMT v1 at 101 listing nothing;
  - a payload packet on 201;
  - a packet with a lost sync byte.

Three packets are the fewest in which an edit is followed by a same-PID
packet and then a different PID. Two versions are enough to make a table
change and to make a repeated section a duplicate. The top-PID run
replaces the PIDs with {0, 8191}. `MC_FiltersVec` uses PIDs 0..3, two
handlers and changesets of up to 3 edits, so inserts past the end, over
an existing slot, and removes past the end all happen.

Bounds for `MC_PsiParse`: every PAT body made of three chunks taken from
an empty chunk, two whole 4-byte records, and 1- or 2-byte fragments. Every
PMT body is one of five program-info heads (empty, too short, no
program_info, one byte of it, and a length of 256), followed by three
chunks. The chunks are an empty chunk, a whole entry, an entry with 1 byte
of es_info, a 3-byte fragment, and one byte. That gives whole sections,
truncation at each field, and trailing junk, with
at most three records: enough for an entry after a truncated one. Each
behaviour parses one section and stops there, so `MC_PsiParse.cfg` says
`CHECK_DEADLOCK FALSE`. The panic runs narrow the inputs to the PAT bodies
and to the PMT heads alone. The violation runs of `Demux` use their own
packet sets in `MC_Demux.tla`, for instance two programs sharing stream
201. A PMT that lists elementary PID 0x1FFF (line 295) has the same
unscanned bound as the PAT (line 507), which `top_pid_never_removed`
shows. A PMT that lists its own PID (line 289) replaces itself with a
stream filter. The spec does not say that such a listing is illegal, so
no run checks it. The routing theorem excludes it by hypothesis.

Each property of a passing run has a mutant in `PROJECT.json`; TLC finds
each mutant's property violated:

- the cursor stepped back twice breaks `TypeOK`;
- the dropped PID comparison breaks `DispatchToOwnPid`;
- the missing `i += 188` breaks `DispatchInOrder`;
- the removal of every registered PID breaks `PmtRoutingFollowsPat`;
- `ByPid` instead of `ByStream` breaks `EsAnnouncedRouted`;
- `InnerExit` that skips the drain (so the loop spins) breaks
  `PushReturns`;
- a 3-byte program record breaks `PatProgramsAsSpecified`;
- `es_info_length` read with a 5-bit mask breaks `PmtStreamsAsSpecified`;
- a PID read without its 13-bit mask breaks `PsiParse`'s `TypeOK`;
- growth by `diff+2` breaks `TypeOK`;
- growth by `diff` breaks the refinement.

## Fairness

`FairSpec` assumes weak fairness of `PushStep`, the steps of `push`
after it is called, and none of `Push`, the caller's decision to call.
`push` is synchronous (spec 5). It holds no lock, awaits nothing and calls
back only into handlers that return, so once it runs, its next step is
always enabled until it returns. A caller may never call again, so
`Push` gets no fairness. Deadlock is checked in every `Demux` run: a
new push is always possible.

## Proofs (`Demux_proofs.tla`)

- `TypeCorrect`: `Spec => []TypeOK`, for any finite PID set containing 0,
  any version set in 0..31, any packets and any `MaxBuf`.
  - `TypeOK` alone is not inductive. In the `inner` state, the dispatcher
    needs the cursor to be inside the buffer and the borrowed slot to hold
    a handler.
  - The proof therefore uses `IInv == TypeOK /\ InnerOK`.
  - It rests on typing lemmas for `Construct`, `InsertEdits`, `Ascending`,
    `RemoveEdits`, `NewTable`,
    `Consume` and `ApplyChangeset`, then one step per action.
- `Ascending(S)` lists `S` by rank: the element with `k-1` smaller
  elements comes `k`-th. The lemmas prove the following:
  - `RankBounds`: rank is below `|S|`.
  - `RankMonotone`: rank is strictly monotone.
  - `RankOnto`: rank is injective into `0..|S|-1`, a set of the same
    size, and so onto it (`FS_Injection`, `FS_Interval`).
  - `AscendingProps`: `Ascending(S)` is a sequence over `S` that lists
    every element exactly once.

  This avoids induction: the scan `0..0x1fff` in ascending order is
  defined without recursion.
- `BatchingDispatch`: `Spec => [](DispatchToOwnPid /\ DispatchInOrder)`,
  and its corollary `InOrderDispatch`: `Spec => []DispatchInOrder`.
  The inductive invariant `DispatchInv` adds to them:
  - every consumed position is inside the buffer;
  - every consumed position is at most `i` (at most `i+1` in `after`);
  - in `inner`, the packet at `i+1` has PID `thisPid`.

## Proof of the routing invariant (`Demux_routing_proofs.tla`)

`RoutingFollowsPat`: `WellFormedTables => (Spec => []PmtRoutingFollowsPat)`.
Once the pending edits are applied, the PIDs routed to a PMT filter are
exactly the PIDs of the last PAT accepted.

The hypothesis `WellFormedTables` is about the packets of the stream:
- PID 0x1FFF is not used. The scan `0..0x1fff` misses it; run
  `top_pid_never_removed` shows the result.
- No table lists PID 0.
- No PID is listed both by a PAT and by a PMT. A PMT's stream filter
  would otherwise replace a PMT filter (the gap at line 289).

`MC_Demux` satisfies it, and `MC_Demux_TopPid` breaks its first conjunct.

`PmtRoutingFollowsPat` is not inductive. The proof uses
`IInv /\ RoutingInv`, where `RoutingInv` adds:
- the PAT filter sits at PID 0, and its `filters_registered` equals the
  announced PIDs. Otherwise its removal diff would miss PIDs;
- every pending edit names a PID other than 0, and inserts only a fresh
  PMT or stream filter;
- a PAT filter sits only at PID 0, and a PMT filter has registered only
  PMT-listed PIDs. So a PMT's removals never touch a PMT filter;
- the routing equivalence itself, stated on `Effective`, the table with
  the changeset applied.

The step proof has one lemma per kind of step:
- `PatAcceptRouting`: the PAT filter accepts a table;
- `PmtAcceptRouting`: a PMT filter accepts a table;
- `QuietDispatch`: `consume` accepts nothing;
- `LookupRouting`: autodiscovery inserts a null filter, never at PID 0;
- `AfterInnerRouting`: the drain.

They rest on the following lemmas:
- `NewTableEdits`: which PIDs the edits of `new_table` name, and with what;
- `LastEditExists`: a log naming a PID has a last edit for it. It uses
  `NatMax`, which is derived from the rank lemmas without induction.

`RoutingByTables`: `Spec => RoutingChangesOnlyByTables`, with no
hypothesis on the tables. It needs only `IInv`. One lemma, `RoutingStep`,
takes each kind of step:
- the lookup changes the table only at a slot that is empty, and there a
  pending edit still wins;
- the drain replaces the table by `Effective` and empties the log;
- a `consume` that accepts no table keeps its handler's kind and enqueues
  nothing (`QuietConsume`).

The mutant `LoopLookupNoContains` drops the `contains` test of line 684
and breaks the property.

## Proof of elementary-stream routing (`Demux_es_proofs.tla`)

`EsFollowsPmt`: `WellFormedTables /\ ProgramsApart => (Spec => []EsAnnouncedRouted)`.
`ProgramsApart` says that no two PMT PIDs' tables list a common elementary
PID. Run `shared_es_pid` shows that without it the property fails: one
program's PMT removes a stream that another program still lists
(line 297).

The inductive invariant is `IInv /\ DispatchInv /\ RoutingInv /\ EsInv`.
`EsInv` adds, for every PID `q`:
- the streams announced at `q` are ones a PMT on `q` lists;
- a PMT filter at `q` has registered only streams a PMT on `q` lists;
- every announced stream is routed to a stream filter.

The first two conjuncts, with `ProgramsApart`, show that a PMT's removals
never hit another program's stream. `DispatchInv` gives the PID of the
dispatched packet.

## Proof of the `Vec` table (`FiltersVec_proofs.tla`)

- `VecTypeCorrect`: `Spec => []TypeOK`. `TypeOK` is inductive as it is:
  `Filters::insert` grows the vector only up to the PID it writes.
- `VecRefinement`: `Spec => ImplementsAbstractFilters`. The `Vec` table
  implements `AbstractFilters` under `table <- AsMap(vec)`,
  `log <- updates`. Each step maps as follows:
  - `Insert` maps to `DirectInsert`;
  - the two changeset actions map to `Enqueue`;
  - `Apply` maps to `Drain`;
  - the initial empty vector maps to the all-`None` map.

The proof rests on these lemmas:
- `VecInsertEffect`, `VecRemoveEffect` and `ApplyEditEffect`: one edit on
  the vector is one `EXCEPT` on the map it presents.
- `DrainedDef`: the recursive function of `DrainInto` satisfies its
  defining equation. It comes from `FiniteNatInductiveDef`, with the
  step operator hidden.
- `ApplyPrefixStep`: applying one more edit of the log is one more
  `EXCEPT` on `ApplyChangeset`.
- `DrainCorrect`: the drain, one edit at a time, equals `ApplyChangeset`
  of the whole log. It is proved by a least counterexample over
  `0..Len(cs)`, using `WFMin` and `NatLessThanWellFounded`.

The induction theorems that take a predicate parameter (`NatInduction`)
need a backend that is not available here. The least-counterexample form
stays first order.

## Proof of the section parsers (`PsiParse_proofs.tla`)

Three theorems, for every set of delivered sections of at least 12 bytes
(`InputsAssumption`, the assumption the model already makes):
- `ParseTypeCorrect`: `Spec => []TypeOK`. The iterators hold byte
  buffers, and every PID they hand `new_table` is below 8192.
- `PatParsedAsSpecified`: `Spec => []PatProgramsAsSpecified`.
- `PmtParsedAsSpecified`: `Spec => []PmtStreamsAsSpecified`.

None of the three is inductive: each speaks only of the `done` state.
The inductive invariant `PInv` relates the middle of the parse to its
end:
- what `new_table` has been given, concatenated with what the spec's
  definition gives for the bytes the iterator has left, is what the spec
  gives for the whole body;
- in the `streams` state, the body is well formed;
- `done` is reached only with an empty PAT buffer, or with a PMT buffer
  on which the spec's list is empty.

TLC checked `PInv` on the `psi_parse` instance before it was proved.
Each `next()` moves one record or entry from the buffer to `out`. Each
end of the loop, and the start of the loop after the headers, is shown
to match the spec's definition. One lemma covers each handler:
`PatSectionPInv`, `PmtSectionPInv`, `ProgramNextPInv` and
`StreamNextPInv`.

They rest on these lemmas:
- `BodyIsSpecBody`: `section()`'s `SubSeq` is the spec's body.
- `SpecPatStep`: a PAT body is its first record's PID followed by the
  rest. `SpecPatProps` gives the length, elements and type of the spec's
  PAT list.
- `SpecStreamsDef`: `SpecStreams` satisfies its defining equation. It
  comes from `WFInductiveDef`, on the relation `Shorter` (a strictly
  shorter byte sequence). `ShorterWellFounded` maps that relation to `<`
  on lengths.
- `SpecStreamsType`: the list is a sequence of 13-bit PIDs. It is proved
  by a least counterexample with `WFMin` over `Shorter`.
- `SpecStreamsStep` and `SpecStreamsStop`: the two cases of
  `StreamInfoIter::next`, each matching a case of the spec's list.

Left to TLC:

- liveness (`PushReturns`), which needs fairness and `ENABLED`;
- `SectionErrorsAreLocal` and the other violation runs. They are
  counterexamples, not theorems.

## Not modelled

- The byte layout of packets, the descriptors, `StreamType` and `Debug`
  formatting: pure accessors and logging. `PsiParse` models the section
  fields that decide routing.
- A section shorter than its 12 header and CRC bytes (`len - 4` at
  lines 310 and 524). The psi layer checks `section_length` first, so
  `PsiParse` assumes whole sections.
- Multi-packet section reassembly in `psi` (not in this file).
- `UnhandledPid`'s log-once flag.

## Plan for the next sittings

1. Handler identity, to tell a replaced stream filter from a kept one
   rather than observing it through `pmtVersion`.
2. Multi-packet section reassembly in `psi`, from the spec.
