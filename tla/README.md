# A TLA+ model of VitoHome

VitoHome is an ESPHome component (`src/components/vitohome`) that turns an
ESP32 or ESP8266 into a client of a Viessmann heating controller. It talks to the
controller over the half-duplex Optolink interface in one of three protocols
(P300, KW or GWG), polls registers, writes them, keeps the controller's clock,
and publishes what it learns as Home Assistant entities. A Python part
(`src/components/vitohome/*.py`) validates the YAML configuration and generates
the C++ that registers the entities; `src/scripts` and `src/web` prepare and show
catalogs of datapoints.

This directory holds TLA+ modules that model the firmware and the Python that turns the
vendor's export into a running configuration, the TLC configurations
that check them on small instances, and proofs that TLAPS checks for all values
of the constants. Line numbers below are those of `src/` at the modelled commit.
Paths without a directory are in `src/components/vitohome`.

1. [Inventory](#1-inventory)
2. [The modules and the code they model](#2-the-modules-and-the-code-they-model)
3. [What each run checks](#3-what-each-run-checks)
4. [Bounds, and why they are enough](#4-bounds-and-why-they-are-enough)
5. [Fairness](#5-fairness)
6. [What is proved](#6-what-is-proved)
7. [Where the code and its comments disagree](#7-where-the-code-and-its-comments-disagree)
8. [What is not modelled](#8-what-is-not-modelled)
9. [Plan](#9-plan)

## 1. Inventory

The firmware is one cooperative loop. ESPHome calls `VitoHome::loop()` for ever and
`VitoHome::update()` on each hub tick (`update_interval`, 10 s by default).
The protocol engine is a state machine whose `loop()` the hub calls first in
each of its own; it reports through callbacks, synchronously, in that
call. User actions (Home Assistant commands, buttons, the scan console) arrive
between passes of the loop. So steps interleave, but each is atomic.

```
   entities ── request_write / polled ──▶  read lane ┐
   VitoClock ── request_priority_read ──▶  write lane ├─ dispatch_next_ ─▶ engine ─▶ UART ─▶ controller
   scan console ── enqueue_raw_ ────────▶  raw lane  ┘        ▲              │
   identification chain ─────────────────────────────────────┤              │
                                                              └─ onResponse / onError / watchdog
```

### Hub (`vitohome.cpp`, `vitohome.h`, `vito_entity.h`, `address_space.h`)

* *State.* Three lanes (`read_queue_`, `write_queue_`, `raw_queue_`); per entity
  `read_queued_`, `write_queued_`, `write_in_flight_`, the staged payload; one
  slot (`in_flight_`, `in_flight_op_`, `ident_in_flight_`, `raw_in_flight_`);
  the armed merge `rmw_pending_`/`rmw_buf_` and the image to compare
  `rmw_verify_*`; `ident_state_`; `last_space_`.
* *Operations.* Queue a write, a poll, a priority read, a raw operation;
  `dispatch_next_()`; the completion of each kind of request by an answer, an
  error, a short or misaddressed answer, or the hub's watchdog;
  `refresh_siblings_()`.
* *Interactions.* Calls the engine's `read`/`write`, which refuse while busy or
  when they can build no packet; is called back by it; calls the entities' `handle_*`
  methods, which may queue new requests before they return.
* *Hard.* A read-modify-write is two telegrams between which nothing may touch
  the register; a control may change its value at any moment of that; a
  callback may come after the watchdog gave its request up; four lanes share
  one slot with priorities, so somebody can starve; each flag is set in one place and
  cleared in several.
* *Correct when.* One request is on the bus at a time and each callback completes
  its own; the flags agree with lanes and slot; no push is ever rejected; a
  merged write changes its own field only; the newest value is the one sent;
  the read-back check raises no false alarm; every request is eventually served.

### Lane storage (`ring_buffer.h`)

* *State.* An array allocated once, a head index, a count, under a mutex.
* *Operations.* `init`, `push_back`, `push_front`, `move_to_front`,
  `move_first_to_front`, `consume_front_if` (which calls back under the lock), queries.
* *Hard.* The wrap of the head in both directions; capacities 0 and 1; shifting
  elements across the wrap; a consumer that must see the element it removes.
* *Correct when.* It is a bounded double-ended queue.

### Poll scheduler (`poll_schedule.h`, `schedule_due_entities_`, `refresh_all`)

* *State.* Per entity `next_due_ms_` on a 32-bit millisecond clock that wraps,
  0 meaning "never polled"; the interval, `POLL_NEVER` being `UINT32_MAX`.
* *Hard.* The wrap; the sentinels; intervals close to the hub tick with
  jitter; long stalls.
* *Correct when.* Each entity is polled on its schedule to the resolution of
  the hub tick, and is back on it after a disturbance, with no backlog.

### Time synchronisation (`vito_clock.cpp`, `vito_clock.h`)

* *State.* `phase_`, `did_boot_`, `source_synced_`, deadlines.
* *Operations.* `tick()` from `update()`; the handlers of its own reads and writes.
* *Hard.* A chain of four steps through lanes shared with everyone, with error
  paths from each; a time source that says a plausible wrong time before it has synced.
* *Correct when.* A phase other than IDLE always has the request pending that will
  end it; only a synced time is written; a chain ends.

### Displaying and writing entities (`vito_number`, `vito_select`, `vito_switch`, `vito_text`, `vito_sensor`, `vito_binary_sensor`, `vito_text_sensor`)

* *State.* The published state; `consecutive_read_errors_` of those that blank.
* *Operations.* `control`/`write_state`, `handle_response`, `handle_error`,
  `handle_write_response`, `handle_write_error`.
* *Hard.* A newer value overtaking one in flight; siblings that show the same
  register; an ACK lost after the heater acted.
* *Correct when.* They never show a value the heater has not accepted, and show what
  it holds whenever nothing is pending.

### Climate, fault event, buttons (`vito_climate`, `vito_event`, `vito_button`)

* *State.* Climate: target, preset and mode of the card, and which channels have been called back
  (`ready_`); event: the last code and whether there is a baseline; buttons: none.
* *Operations.* Climate: `control()`, the handlers of the two channels; event: `handle_response`;
  buttons: `refresh_all()`, or a write to a procedure and `refresh_all()` on its acknowledgement.
* *Hard.* Two channels that answer in either order and one of which may keep failing; bytes
  commanded and bytes read that mean different things; a heater that leaves every known state;
  a restart must not fire the event for an old fault.
* *Correct when.* What is published is a pair the heater has confirmed, and shows what it holds
  when nothing is pending; an event fires once per change.

### Link health and start-up verification (`vitohome.cpp:207-256`, `:299-373`, `:1648-1738`)

* *State.* `link_state_`, `link_error_streak_`, `link_established_`,
  `protocol_verify_pending_`, whether the component failed; with GWG a count of answers of FF only.
* *Operations.* Each callback of the engine and the hub's watchdog note that the heater was
  heard, was not, or nothing; `loop()` ends the verification, or fails the component for good.
* *Hard.* Two sources of one failure: the hub's watchdog and the engine's late error; a
  link that comes up and goes down within the window; what goes on after a failure.
* *Correct when.* The link is shown offline only for requests that really went unanswered,
  and the component fails only if the heater was never heard.

### Scan console and identification (`raw_op.h`, `vitohome.cpp`)

* *State.* The raw lane, the range being scanned, `ident_state_` and the bytes identified.
* *Hard.* Reads of identification fail on devices that do not have the register; a
  range longer than the lane.
* *Correct when.* Identification ends whatever fails, and regular traffic starts then.

### P300 engine (`optolink/protocol/vs2`)

* *State.* `_state`, `_lastMillis`, `_requestTime`, `_busy`, the pending packet or KW
  telegram, the parser's position, the KW answer and its count.
* *Operations.* `read`/`write`/`kwRead`/`kwWrite` (accepted or refused), one handler
  per state in `loop()`, the request timeout at its end.
* *Interactions.* Bytes to and from the controller over the UART; callbacks to the hub.
* *Hard.* Bytes lost, garbled or added; answers later than their timeout; a
  controller that falls back to KW; the detour over KW a burner-control read
  takes, with the ENQ of the controller as its clock; timeouts that add up.
* *Correct when.* One callback per accepted request, within the hub's watchdog, with
  that request's own answer; and the link recovers from anything.

### KW and GWG engines (`optolink/protocol/vs1`, `optolink/protocol/gwg`)

* *State.* As above, smaller; GWG also keeps how long its sync is valid, counts
  unanswered bursts and latches `_burstDisabled`, and collects an EEPROM read.
* *Operations.* As above; an EEPROM read of GWG takes one telegram per address, each
  answered by a complement pair.
* *Hard.* KW sends only in a window after the controller's ENQ; GWG may chain reads
  in a burst, which some controllers do not take; neither has an address or a
  checksum, so a byte means what the moment it is read says; one address of many may not
  be in use.
* *Correct when.* The same promise to the hub; the ENQ that follows an ignored telegram is
  not its answer; an EEPROM read says if any address of it is not in use.

### Catalog generator (`src/scripts`)

* *State.* In `generate()`: the chunks made, the ids used, the fields seen, the
  fault archives put off to a second pass, the count of real entities.
* *Operations.* Each row of the export is dropped, becomes one entity, fans out into the days of a
  weekly program, becomes a button, or waits for the second pass; then names are made unique, chunks
  sorted, code maps shared by anchor and alias, the companion file written.
* *Interactions.* Its output is what `esphome config` validates and the code generation compiles, from
  tables of converters, lengths and limits it repeats by hand.
* *Hard.* Bit numbering (Vitosoft counts from the most significant bit, across the block); which of a
  dozen shapes a row is; borders that fit the number of one module and not of the other;
  orders: an alias above its anchor, an id renamed after it was referred to.
* *Correct when.* All it writes is accepted; an entity reads and writes the bits of its row and no
  others, and shows Vitosoft's value; the language changes texts only.

### Configuration validation and code generation (`*.py`)

* *State.* The configuration ESPHome loads; what `to_code()` registers with the hub.
* *Operations.* The schema and validators of each platform, `_final_validate()` across
  platforms, `to_code()` of each entity and of the hub.
* *Hard.* What the firmware assumes is spread over platforms: the size of the registry, addresses in
  secondary keys, spaces that have no write, fields in a block.
* *Correct when.* It rejects what the firmware assumes cannot happen, and registers what was configured.

### The rest

* *Serial interface and frame logger* (`vito_uart_interface.h`,
  `optolink/interface`): pass-through.
* *Value codecs* (`decode.h`, `response_view.h`, `optolink/datapoint`): pure functions on bytes.
  Correct when decoding an encoded value gives it back and a merge leaves other bits alone.
* *Protocol constants and selection* (`protocol_select.h`, `optolink/*.h`).
* *Web finder and editor* (`src/web`): static pages.
* *Catalogs, examples, tests, CI*: data and checks; `src/tests/native` was read for
  what the hub and the engines are expected to do.

`PROJECT.json` lists the hazards of this code, each at the line where it bites and
with the properties that would catch it.

## 2. The modules and the code they model

| Module | Models | Notes |
|---|---|---|
| `QueueOps` | the searches and moves on a lane | helpers on sequences |
| `Hub` | lanes, dispatch, completions, read-modify-write, identification, raw lane, heater | everything that queues or uses the bus extends it |
| `HubClock` | `VitoClock` | extends `Hub`: its steps are steps of `Hub` |
| `HubEntities` | what entities publish | extends `Hub`: each step of `Hub` with what the entity it calls does |
| `HubClimate` | `VitoClimate`, its two channels and the card | extends `HubEntities`: its steps are steps of `HubEntities`, but for `Control`, which takes two at once |
| `HubLink` | link health and the verification at start-up | extends `Hub`: each completion with what it says of the heater |
| `Deque` | what a lane promises | abstract specification |
| `RingBuffer` | `ring_buffer.h` | implements `Deque` |
| `PollSchedule` | `poll_schedule.h` and its two callers | one entity, on a wrapping clock |
| `EnginePromise` | what the hub relies on in any engine | abstract specification |
| `VS2Engine` | `vs2.cpp`, `parser_vs2.cpp`, the controller and the line | implements `EnginePromise` |
| `KwEngine` | what `vs1.cpp` and `gwg.cpp` share, the controller and the line | extended by the next two |
| `VS1Engine` | `vs1.cpp` | implements `EnginePromise` |
| `GWGEngine` | `gwg.cpp` | implements `EnginePromise` |
| `Converters` | the presets and roundings of `__init__.py`, and the generator's copies of them | operators on integers in thousandths |
| `ExportRow` | `transforms.py`: what one row of the export says | operators on a row |
| `EntityBuilder` | `emitter.py`: the entity of a row | operators |
| `SpecialRows` | `special.py`: weekly programs, fault archives, texts of codes | operators |
| `PlatformSchema` | the validators and `to_code()` of each platform, `_final_validate()` | operators on an entity |
| `Catalog` | `renderer.py`, `exporter.py`, loading the package, registration | one action per branch of `generate()` and per stage after it |
| `HubProofs` | | lemmas and theorems about `Hub`, and on them about `HubLink`, `HubClock`, `HubEntities` and `HubClimate` |
| `RingBufferProofs`, `PollScheduleProofs`, `VS2EngineProofs`, `CatalogProofs` | | about the module each is named after |
| `KwEngineProofs` | | lemmas the next two share: clocks, the controller, the line |
| `VS1EngineProofs`, `GWGEngineProofs` | | theorems about the two engines |
| `MCHub`, `MCHubLink`, `MCHubClock`, `MCHubEntities`, `MCHubClimate`, `MCRingBuffer`, `MCPollSchedule`, `MCVS2Engine`, `MCVS1Engine`, `MCGWGEngine`, `MCCatalog` | | instances for TLC, with a `.cfg` per question |

The Python and the firmware meet in two places: `PlatformSchema` says which telegrams a validated
configuration has (`AcceptedAddressable` is what lets `Refused` of `Hub` be the exception), and the
registry of `Catalog` is `Entities` of `Hub`.

How they fit: the hub uses lanes as sequences and the engine as a slot that is busy
from accepting a request until it has called back once. `RingBuffer` justifies the
first (it implements `Deque`) and the engines the second (they implement
`EnginePromise`); each is checked and, where the prover reaches, proved apart.

In each module an operator that directly precedes the one it varies
(`RoomOffByOne` before `Room`, `ParserKept` before `ParserReset`) carries a
plausible mistake. No specification uses it: substituted for its successor, it makes TLC
find a violation of the property `PROJECT.json` names ("mutants"), which shows the property can tell.

### Hub

Names are the code's: `readQueue` is `read_queue_`, `inFlightOp` is `in_flight_op_`,
and so on. Sets stand for per-entity flags: `e \in readQueued` is
`e->read_queued_`.

* A *register* is an address in an access space; its content is a function from
  *fields* (the bits or the bytes an entity owns) to values. An entity with
  `needs_rmw()` owns one field and is written by merging; another writes all of it.
* `bus` is the request the engine is busy with. `Serve` is the moment the heater
  acts on it; the answer or the error comes later, so an answer can be lost after the
  heater has acted (`LossyAnswers`).
* One action per branch of `dispatch_next_()` (`Send...`, `Refuse...`,
  `RetainRead`) and per completion (`...Answered`, `...Acked`, `...Failed`, `RawDone`,
  `LateCallback`). The priority of lanes is in the guards `MergeTurn`,
  `IdentTurn`, `RawTurn`, `WriteTurn`, `ReadTurn`.
* Time is left out: an entity may come due, a request fail and the watchdog
  expire whenever the other conditions of the code allow it.
* An automation run by a callback may request a write. For `ReadAnswered` this
  is in the step, since the clock does it there; in the other callbacks it
  finds the hub as a later caller would and `RequestWrite` stands for it.
* The environment may step between a callback and the dispatch of the same pass
  of `loop()`, which the code does not allow: a few more behaviours than the code has.
  The counterexample of `blame` does not depend on them.
* A raw KW telegram over P300 is a raw operation on a register in the burner-control
  space; the action button's procedure call is a write to a register of its own.

### Clock

`phase`, `synced`, `didBoot` are `phase_`, `source_synced_`, `did_boot_`. Each action
is a step of `Hub` with the clock's handler in it; `OfOthers(Next)` is what the rest
of the hub does. How far the device clock is off and whether a deadline has
passed is left open. The telegrams of a validated clock register are ones the engine can build
(`ClockAssumption`).

### Link

`linkState`, `linkErrorStreak`, `linkEstablished` and `verifyPending` are the code's. Every completion of `Hub` is
taken in one of four ways: the heater was heard (an answer, NACK, an error frame), timed
out, was garbled, or was given up by the watchdog, which leaves the engine busy. `failed` stops `loop()`
and `update()`; controls and the console go on queueing. The window of verification may end at any time.
`unanswered` counts requests, each once, and `counted` says that the one on the bus is among them:
both are history.

### Entities

Decoding is abstracted to the set `Shown[e]` of values an entity can display (a
select without a matching option keeps the last one). `outdated` is history: it names
the entities with a reason to show something else than the heater holds (a lost
read, a write given up, a change at the front panel, a sibling not polled), and is
read by the properties only.

The fault event is such an entity: `published` is its `last_code_` and `Unknown` means that there is no
baseline. An answer replaces it, an error keeps it, and the event fires when a known one changes.

### Climate

`Setpoint` and `Mode` are the two channels, entities of `HubEntities`; `known` is
`setpoint_known_` and `mode_known_`, `climate` the members of ESPHome's `Climate`, `card` what was last published. A row
of `Presets` binds the byte commanded to the bytes read: the address read and the one
commanded may differ, and so may what a byte means. `Control` queues both channels in one step, as `control()` does
without returning to `loop()`; with one of them it is a `RequestWrite` of `Hub`, and with a mode
no row expresses nothing. `commanded` is history: whether the preset is that of an acknowledged command.

### Lane storage

Each method is a step, except `consume_front_if()`, which is two, around the call of its
consumer with the lock held. A slot never written holds `Garbage`. The refinement maps
the `count` slots from `head` on to the sequence of `Deque`.

### Poll scheduler

One entity and `poll_schedule_step()` on a clock that wraps at `Word` (2^32 in the
code), with the signed comparison as the code does it. `update()` may run late by
`Jitter` and ticks may be lost. `gap`, `regular`, `settled` are history.

### P300 engine

* A unit of time is 500 ms, to which all timeouts of `vs2.h` but the shortest are
  multiples. A clock that reads *n* may stand for *n* - 1 to *n* + 1 units, so a
  comparison may go either way around the unit in which it falls due.
* A token on the line is a byte, or all of a frame after its first byte: an answer, another
  frame, or one whose checksum fails. `whose` records which request it answers. A
  payload may look like a control byte, the rest of it (`REST`) then being unread.
* A state that only writes lasts one pass; the burst of writing never blocks (the UART
  takes a whole write).
* The controller is external. It is as the code expects it: EOT takes it to KW, SYNC to P300,
  on KW it offers an ENQ every 2.5 s and answers telegrams, on P300 packets, and it
  ignores what the other protocol has; it may take its time over a packet, refuse it,
  ignore it, or fall back to KW.
* Noise falls on P300 only and never looks like a control byte: KW has no
  checksum, and nothing there could tell it from an answer.

### KW and GWG engines

* A unit of time is 500 ms in `VS1Engine` and 250 ms in `GWGEngine`; clocks are read as in
  `VS2Engine`. The shorter windows (`ENQ_ACK_WINDOW_MS`, `GFA_GAP_MS`) are less than a unit.
* There is neither address nor checksum, so the engines cannot tell whose a byte is:
  `whose` is history, and an answer of which a byte was an ENQ or an earlier request's is told
  `WRONGLY`. `prompt` records that each telegram of the request went out within a unit or two
  of what the controller last said, with all of it read and no answer owed: beyond that nothing
  could tell an ENQ from an answer (section 8).
* The controller answers a telegram byte by byte, stops in the middle of it, or ignores it; it
  offers an ENQ after a silence of `EnqMin` to `EnqMax`. Payload may look like an ENQ, and
  `loop()` may stall while bytes arrive.
* An answered pair of an EEPROM read is kept as one byte, whose kind is FF for FF FF (an address not
  in use). The active poke for an ENQ (`SEND_ENQ_POKE`) is off in the code and left out.

### Catalog

* A *job* is one run: the arguments of the generator, the rows of a device, and the hub and the
  entities written by hand beside the catalog. Initial states are jobs; a behaviour takes one row after the
  other (`SkipIdentification` ... `EmitEntity`), then the archives put off (`EmitHistory`), writes the
  package, loads it, and registers entity after entity.
* A row is a record with the fields of `Event`. What the code parses out of a token (that a row is a
  fault slot, which one, of which part) is a field of its own. Values are thousandths; a factor is a fraction.
* An entity is a record of its YAML keys, once for all platforms; an absent key is `<<>>`. Texts are left out but
  for names and ids, which are sequences of words because the code joins and compares them.
* `PlatformSchema` translates the validators as predicates on that record and `to_code()` as what the
  compiled entity reads and writes: telegrams, the bytes taken out of a block, mask, scale, sign, filters.
* The vendor's YAML loader and ESPHome's packages are external: `!extend` merges, an alias is its anchor,
  ids and names of a platform are unique.

## 3. What each run checks

| Run | Module, configuration | Checks | Distinct states |
|---|---|---|---|
| `link` | `MCHubLink`, `MCHubLink.cfg` | `SlotMatchesBus`, `LaneFlags`, `NeverRejected`, `OfflineIsEarned`, `OnlyUnheardFails` | 564 288 |
| `shown` | `MCHubEntities`, `MCHubEntities.cfg` | `ShowsTheHeater`, `MergeIsCurrent`, `TransmitsNewest`, `ReadBackSound`, `OnlyAccepted`, `SiblingFieldsKept` | 602 624 |
| `climate` | `MCHubClimate`, `MCHubClimate.cfg` | `CardShowsTheHeater`, `PairIsConfirmed` | 716 410 |
| `clock` | `MCHubClock`, `MCHubClock.cfg` | `PhaseMatchesHub`, `NoStaleTime`, `ChainEnds`, `WritesDrain`, `ReadsDrain` | 15 800 |
| `ring` | `MCRingBuffer`, `MCRingBuffer.cfg` | `ImplementsDeque` | 3 558 |
| `poll` | `MCPollSchedule`, `MCPollSchedule.cfg` | `PollsOnTime`, `NoBacklog` | 57 355 |
| `engine` | `MCVS2Engine`, `MCVS2Engine.cfg` | `EngineFirst`, `StartsClean`, `KeepsPromise`, `LinkRecovers` | 638 154 |
| `vs1` | `MCVS1Engine`, `MCVS1Engine.cfg` | `OwnAnswer`, `LinkRecovers` | 29 568 |
| `gwg` | `MCGWGEngine`, `MCGWGEngine.cfg` | `EngineFirst`, `OwnAnswer`, `OneCallBack`, `UnservedTold` | 1 120 197 |
| `catalog` | `MCCatalog`, `MCCatalog.cfg` | `EmittedAccepted`, `AcceptedAddressable`, `ReadsItsField`, `WritesOnlyItsField`, `DecodesTheValue`, `SignFitsBorder`, `CodesArrive`, `CapacityEnough`, `SameInEveryLanguage` | 703 331 |
| `blame` | `MCHub`, `MCHub_blame.cfg` | `ReadBackBlamesHeater`, violated: [section 7](#7-where-the-code-and-its-comments-disagree) | |
| `chain` | `MCVS1Engine`, `MCVS1Engine_chain.cfg` | `NeverChainsAcross`, violated: section 7 | |

What they show:

* **link.** Whatever is polled, written, scanned, refused, answered, lost or given up:
  one request is on the bus and its callback completes it and nothing else
  (`SlotMatchesBus`); the flags say what lanes and slot
  hold on every path, so no entity is stranded (`LaneFlags`); one slot per entity is
  enough (`NeverRejected`). The loss of one request may be observed twice, by the
  watchdog and by the late error of the engine, so the link may be shown offline after
  half the failures `LINK_OFFLINE_AFTER_ERRORS` speaks of, but never after fewer
  (`OfflineIsEarned`); the component is given up at start-up only if the heater was
  never heard, even if the link came and went in between (`OnlyUnheardFails`).
* **climate.** The setpoint is written by a number and by the console as well, the mode is read at one
  register and commanded at another, and the heater changes it by itself. What is published is never half a pair, nor
  a byte looked up in the other's space (`PairIsConfirmed`); the target and the preset shown are the heater's
  whenever nothing is pending, and no preset when no row names the state it is in (`CardShowsTheHeater`).
* **clock.** The chain read, compare, write, verify cannot be left without the
  request that ends it, never sets a time the source has not synced, and ends (`ChainEnds`). Writes are
  taken up once the console is quiet (`WritesDrain`), reads once the controls and the clock are, too, although one
  control can never be read and identification may fail at every step (`ReadsDrain`).
* **shown.** Two entities own the two bit fields of one register. A merge puts
  back what the heater holds (`MergeIsCurrent`, `SiblingFieldsKept`); the newest
  value is the one sent (`TransmitsNewest`); the read-back check compares with what the
  register holds (`ReadBackSound`); nobody shows a value the heater has not
  accepted (`OnlyAccepted`), and everybody what it holds when nothing is pending
  (`ShowsTheHeater`).
* **ring.** The array behaves as a bounded double-ended queue, at every capacity.
* **poll.** Every kind of interval is honoured to the hub tick, across the wrap
  and with jitter; after a stall the entity is back on schedule within two
  polls and nothing is replayed.
* **engine.** One callback for each request, before the hub's watchdog, never with
  an earlier request's answer; no exchange starts with the parser in a frame or
  with bytes counted (`StartsClean`); the link comes up again after any fault.
* **vs1**, **gwg.** The ENQ after an ignored telegram is never taken for its
  answer, though `loop()` stalls, as the timeout is looked at before the line
  (`OwnAnswer`). KW gets in step again with a controller left in P300 or an ENQ lost
  (`LinkRecovers`). GWG calls back once for each request, before the hub's watchdog, also for an
  EEPROM read that waits for an ENQ before each of its telegrams (`EngineFirst`; the hub's budget
  grows with their number), and reports an address not in use whichever telegram found it (`UnservedTold`).
* **catalog.** The validators take every entity the generator writes (`EmittedAccepted`), and
  what they take the engines can carry (`AcceptedAddressable`). An entity reads the bits
  its row of the export names (`ReadsItsField`), writes them and no others (`WritesOnlyItsField`), and decodes
  the value the row describes (`DecodesTheValue`); where its lower border is below zero, it reads the field as signed
  exactly when the raw number of that border is negative (`SignFitsBorder`).
  Fault codes and their texts reach the archive they belong to (`CodesArrive`); the table of entities is
  large enough (`CapacityEnough`); a catalog in the other language differs in texts alone (`SameInEveryLanguage`).

## 4. Bounds, and why they are enough

* *Hub.* Three entities in `link` are one of each kind that differs in `dispatch_next_`
  or in a completion: a polled burner-control read (affinity) nothing can write, a control
  with a field and read-back, a polled control whose packets the engine cannot build; with
  them the console (lane of one) and identification. The contents do not matter to those properties,
  so there is one value. `OfflineAfter` = 3 is the code's. In `shown` contents do matter, and two
  entities on one register with two values are the smallest case in which a stale sibling can be put
  back. `clock` is smaller because liveness is checked on the graph of states; it has a second
  reader of the clock's register and a control whose reads are refused. The theorems of section 6 hold for
  any number of each.
* *Climate.* One preset, of which the byte commanded is not the byte read and one state is in no row: enough for a
  byte to be looked up in the wrong space and for a preset to be cleared. The climate asks for a target of 0, the
  others for 1, so a card that misses their write is wrong.
* *Ring.* Capacities 0, 1 and 3: none, the one where every index is the head, and the
  smallest with an element that is neither first nor last.
* *Poll.* `Word` 64 with a hub tick of 4 keeps the proportions that matter: intervals of 0,
  less than a tick, one, one and a half, two ticks, the longest multiple of the tick,
  the longest allowed and `never`; jitter of a quarter tick; up to `MaxLost` = 2
  lost ticks. `StallBound` = 16 bounds how long a read stays pending past its due
  time (the code's comparison is valid for 2^31 ms, 24 days).
  All 64 clock readings are starting points.
* *Engine.* The code's own constants in units of 500 ms: request 4 s, handshake 3 s, keep-alive
  3 s, ENQ wait 3 s, KW answer 1 s, hub watchdog 10 s. `MaxFaults` = 1 byte lost or
  garbled, command ignored or fall back to KW, and `MaxNoise` = 1; the safety properties
  were also checked with two faults (1.25 million states). `MaxBacklog` = 3 commands
  a slow controller has not acted on. `KwLength` = 2 is the shortest answer that can break
  off in the middle. `KwLookalikes` = FALSE excludes one known weakness, see section 8.
* *KW.* The code's windows in units of 500 ms (request 4 s, ENQ reset 3 s, chain window 1.5 s, answer 1 s) and an ENQ
  every 2 s; `chain` takes every 1 to 2 s, around the "~1.2-2 s" of `vs1.h`, without faults or stalls.
  `MaxFaults` = 1 byte or EOT lost, or ENQ garbled; `MaxStall` = 1 unit in which `loop()` leaves something to do,
  which is what it takes for an ENQ and a deadline to be found together.
* *GWG.* Units of 250 ms (request 3 s, answer 250 ms, validity 1.5 s), an ENQ every 750 to 2000 ms.
  `Pairs` = 4 telegrams is the fewest for which a watchdog of one budget would fire first.
* *Catalog.* Three families of jobs. One row, of every combination of 18 shapes (widths, places in a block, bits,
  a block of more than one telegram), 15 conversions with 6 sets of borders, 4 lists of options, 3 ways to read and
  write, 3 addresses; devices of one row treated apart, or of two beside a plain reading, each under 11
  sets of arguments and 3 protocols; and a catalog on hubs of any protocol beside each pair
  of 23 entities written by hand. What a rule compares are at most two rows or entities, so pairs meet all of
  them. `OptionsAreValues` and `Sensible` exclude rows no export has, and section 7 names what the
  code would do with them; `Under` gives a row an access its protocol knows. Of the ways to read a GWG
  register, the rows use three. Decoding is affine in the raw number,
  so a value is compared at the raw numbers 0 and 360 (360 seconds are a whole number of thousandths of an hour), and
  the sign of a border's raw number is told from the side of the value of 0 on which it lies.

Symmetry is not used: entities differ by registration order and by kind.

## 5. Fairness

* `HubClock!ClockFairSpec`: weak fairness of the dispatch, because `loop()` runs for ever
  and tries to dispatch in each pass; and of the callback, because every engine calls back
  for every request it has accepted (that is what the engine's
  request timeout is for; `EnginePromise` states it and `VS2Engine` is checked
  against it). Nothing is assumed of the user, the poll timer, the console
  or the heater: the premises of `WritesDrain` and `ReadsDrain` name who must be quiet,
  as the priorities of lanes require; the poll timer need not be. In `clock` no address space costs
  a switch, so `ReadsDrain` does not meet the preference for the last space (section 7).
* `VS2Engine!FairSpec`: weak fairness of `Loop`, `Tick` (time passes), `Hear` (the
  controller acts on what reaches it) and `SendEnq` (on KW it offers its ENQ).
  Faults, noise and requests are never forced, and bounded faults make "after the last
  fault" a real suffix: `LinkRecovers` says the link comes up infinitely often.
* `VS1Engine!FairSpec`: the same four, `Answers` being the controller acting on what reaches it (it
  may ignore it). `GWGEngine` is checked for safety only: its controller offers an ENQ unasked.

## 6. What is proved

TLAPS checks these for every value of the constants that satisfies the named assumptions
(`HubAssumption`, `ClockAssumption`, `LinkAssumption`, `EntityAssumption`, `ClimateAssumption`, `RingAssumption`,
`ScheduleAssumption`, `VS2Assumption`, `KwAssumption`, `VS1Assumption`, `GWGAssumption`). They say no more than
what types and validated configurations give. Two theorems of each engine have a hypothesis on the times of
the code besides, stated with them below. Every inductive invariant was model-checked on the instances of
section 3 before it was proved.

**Hub** (`HubProofs`). The safety properties of the hub in `link` and `shown` do
not each hold inductively; the invariant `IInv` joins them and adds what they
need of each other:

* `LaneFlags` needs `SlotMatchesBus` (whose callback clears which flag), which needs
  `BusOrigin` (a telegram that serves an entity is one of that entity's).
* `MergeIsCurrent` needs that the answer of a read-before-write was read from the
  register and nothing has been written since: `AnswerIsCurrent`, while the read is on
  the bus, and `MergeExclusive`, until the merged write is.
* `ReadBackSound` needs `VerifyTracksBus`: the comparison is armed for a write of that entity that is
  on the bus or done, and another merged write of the register re-arms it for itself.

`Invariance` is `Spec => []IInv`: one lemma per group of actions and conjunct. From it:
`TypeCorrect`, `FlagsTellTheTruth` (`LaneFlags`), `RoomForEveryEntity`
(`NeverRejected`: a lane holds no entity twice, and there are no more positions
than entities), `OneRequestAtATime` (`SlotMatchesBus`), `ReadModifyWriteIsAtomic`
(`MergeExclusive`), `MergesWhatTheHeaterHolds` (`MergeIsCurrent`),
`NoStagedValueIsLost` (`TransmitsNewest`), `ReadBackRaisesNoFalseAlarm`
(`ReadBackSound`), and the action property `SiblingsAreKept` (`SiblingFieldsKept`).

`MergeExclusive` (between a read-before-write and its merged write the bus carries nothing) and the type
invariants are proved, and no run lists them.

**Link** (`HubProofs`). `LinkIsWatchedOnly`: `LinkSpec => Spec`, so what is proved of the hub holds
with the link. `LinkInvariance`: the streak of errors is at most twice the requests unanswered, and one less
where the one on the bus is counted already (`StreakIsEarned`); only a request the hub gave up is counted while it is on the
bus (`CountedIsLate`); the link is offline after a full streak (`OfflineHasStreak`). From it `OfflineMeansSilence`
(`OfflineIsEarned`), for every threshold, and `HeardOnceIsEnough` (`OnlyUnheardFails`).

**Clock** (`HubProofs`). `ClockIsAnEntity`: `ClockSpec => Spec`, so all of the
above holds with the clock. `ClockIsNeverWedged` (`PhaseMatchesHub`) and
`OnlySyncedTimeIsWritten` (`NoStaleTime`), from an invariant that adds
`SyncedFirst` (no chain before the first sync) and `OneWrite` (its
write is in the lane or in flight, not both).

**Entities** (`HubProofs`). `EntitiesWatchOnly`: `EntitySpec => Spec`. `EntityInvariance` adds to `IInv` what the
display rests on:

* `ShownWhenSettled`: an entity that is not `outdated` and has nothing queued shows what its register holds. It is
  not inductive alone, for an answer shown is only as good as the moment it was read.
* `AnswerStands`: what a served telegram of an entity brings back, read or just written, is what the heater
  holds for it, or the entity is outdated; `AnswerIsCurrent` of the hub is its counterpart for a merge.
* `UnrefreshedAreOutdated`: when a write is acknowledged, the readers of its register that the acknowledgement does not
  refresh are outdated.

From it `EntitiesShowTheHeater` (`ShowsTheHeater`) and the action property `NothingShownUnaccepted`
(`OnlyAccepted`: a value not read and not acknowledged is never shown).

**Climate** (`HubProofs`). `ClimateInvariance` says of each channel what `ShownWhenSettled` says of an entity:
`TargetWhenSettled`, `PresetWhenSettled`. They need that the climate holds what
its channels were last told (`ShowsItsChannels`), that a card was published only with every channel heard
(`PairIsComplete`), and that what is queued for the mode is the byte of a preset (`CommandsAreStaged`). From it `CardIsTrue` (`CardShowsTheHeater`) and `CardIsAPair`
(`PairIsConfirmed`). `ClimateAssumption` says what the header of the channel does: it takes any byte and ignores an
error (`VitoClimateChannel::handle_error`), so a channel is never blanked.

**Poll schedule** (`PollScheduleProofs`). `ScheduleTypeCorrect`, and `NoPollIsMadeUp` (`NoBacklog`) for every width of the
clock, interval, jitter, stall and number of lost ticks. The lemmas are about a clock that wraps: two readings less than
half the clock apart compare as their times do (`SignedLooksAhead`), and a reading is determined by its distance from another
(`SameReading`). `NextIsAhead` is the point: with the old due time within half the clock, the next one is after now and at
most an interval and the slack ahead, whether kept in step or anchored anew.

**Lane storage** (`RingBufferProofs`). `RingTypeCorrect`, and `RingImplementsDeque`:
`Spec => Deque!Spec` under the refinement mapping, for every capacity and element
type. The invariant adds `Written` (a slot in use has been written) and `FrontOffered`
(between the two steps of `consume_front_if()` the element offered is still the front).
The lemmas are about the wrap: the index of the next, previous and *i*-th slot.

**P300 engine** (`VS2EngineProofs`).

* `ExchangesStartClean`: `StartsClean`. The parser is off its start only in RECEIVE, or in RESET, which resets it, and
  no bytes are counted outside KW_RECEIVE.
* `TypeCorrect`, from `EngineInv`: among the types, that a request out of time fails in the next pass, and that
  the answer of a KW telegram is never read beyond its end.
* `CallsBackOnce`: `Spec => OneCallBack`, the refinement of `EnginePromise` but for whose answer it is. The states of an
  exchange are entered only with a request pending.
* `AnswersItsOwn`: `Spec => KeepsPromise`, the whole refinement, under `Paced`: timeouts are not zero, a KW answer's is
  more than two units shorter than the period of the ENQ (the code: 1 s against 2.5 s), and `KwLookalikes` is FALSE.
  Nothing in a frame says which request it answers, so the invariant `LineInv` says what the line can hold in each
  state. In SEND_ACK and RECEIVE that is one packet under way or one answer, of the pending request (`OneExchange`); before a packet
  is sent, and before the engine waits for an ENQ, no packet and no answer (`Nothing`); in the handshake at most one
  exchange that was given up. An ENQ that opens a KW telegram is the last byte the controller said (`EnqLast`), so while
  its answer may come nothing else does (`KwLine`, `ChainLine`). Each is kept by the controller and by every fault
  (`HearExchange`, `FaultLine`, `NoiseLine`, `LineKeepsEnq`).
* `BeforeTheWatchdog`: `EngineFirst`, under `Paced` and `WatchdogIsPatient`: twice the request's timeout (falling back
  to KW restarts it in `KwDrop`, and again in `KwStart`), the KW answer's and two units are less than the watchdog. The
  code has 4 + 4 + 1 s against 10 s, so it holds for units of 250 ms or less; the run's 500 ms are one
  unit too coarse for the theorem, and show it for the faults of the instance. `WaitInv` counts the restarts. It rests on
  an answer that arrives within one unit (section 8, `vs2.cpp:424`).

**KW and GWG engines** (`KwEngineProofs`, `VS1EngineProofs`, `GWGEngineProofs`). Of each engine:

* `CallsBackOnce`: `Spec => OneCallBack`, for any windows, controller, faults and stalls. The invariant is that
  SEND and RECEIVE are entered only with a request pending; each way a pass can end then keeps the promise or
  calls back once.
* `BeforeTheWatchdog`: `EngineFirst`, under `WatchdogIsPatient`: the request's timeout and the longest stall of
  `loop()` are together less than the hub's watchdog. The code has 4 s (KW) or 3 s (GWG) against 10 s, so it holds
  for stalls of less than 6 s. The invariant is that a request has waited no longer than its clock says; for GWG, whose EEPROM
  reads restart the clock with every pair, no longer than that plus one budget for each pair verified, and
  the hub's watchdog has a budget for each.
* `AnsweredByItsOwn`: `OwnAnswer`, under `EnqComesLate`: the controller stays quiet before an ENQ for longer than
  the engine waits for an answer, stalls included. The code waits 1 s (KW) or 250 ms (GWG), and says
  ENQs come about every 2 s or not before 750 ms. The invariant `LineInv` describes everything between
  the two ends: while a request sent promptly is in RECEIVE and in time, all that is in the receive buffer, owed
  by the controller or sent to it belongs to that request, and no ENQ is among it, since the controller has not been quiet
  for long enough.

Of the GWG engine also `TellsOfUnserved` (`UnservedTold`), which needs what is collected to begin with the pairs
verified (`StoreInv`) and the bytes of a pair on the line to be of one telegram.

Of each the types, `TypeCorrect`: for KW, that no clock counts further than the longest window, which holds because
a state is left or its clock restarted in time; for GWG, which also counts the failures of bursts, with the invariant
that bursts are given up with the second failure in a row (`BurstInv`).

**Catalog** (`CatalogProofs`). The theorems are about every start of `Catalog` from a set of jobs that `JobOk` describes:
any number of rows, any arguments, any hub, any entities the schemas build from YAML. `JobOk` says what the loader and the schemas make: lists
are finite, a row has numbers for its address, its place in the block and its group, and a tag of its techniques (`RowOk`), an entity has the keys of its
platform, at most one address to read its state from and a kind its platform knows (`EntityOk`). TLC
evaluates it for every job of the run (`JobsAssumption` of `MCCatalog`).

`ConfigInv` follows a chunk from the row to the configuration. `GenInv`: every branch of `generate()` adds chunks of
platforms the package knows, with the entity of the row they name. `OutInv`: the package is those chunks, each once. `EntInv`: what has
been accepted has passed its platform's schema, the address spaces and the rules of GWG. `OutInv` rests on
`InOrderPermutes`: sorting by how many elements come before one loses and repeats none, which is counted (each index
comes to a place of its own, and there are as many places as indices).

* `Addressable` (`AcceptedAddressable`): no telegram of an accepted configuration is one its hub has no address or no
  telegram for.
* `RegistrySuffices` (`CapacityEnough`): what the code generation reserves holds every entity, thermostats with two
  channels and the clock included. The invariant `CapacityInv` is that what is registered, and what is still to come,
  fit.
* `TextsAlone` (`SameInEveryLanguage`): the generator decides on the German texts, so two languages give the same
  entity up to the texts of its options. The lemmas compare the entity builder with itself, function by function
  (`Alike`).
* `CodesReachTheirSlots` (`CodesArrive`): every alias has its anchor before it and no other of its name, so
  the texts of a fault slot reach it. Anchors are named after ids, so the invariant is that no two chunks have one
  id (`IdsApart`), and that `_make_obj_id()` finds a new one: of one more candidates than ids in use,
  one is free (`IdIsNew`). That holds if `str()` writes different numbers differently, which
  `ToString()` of the standard module does not say: `NumbersDiffer` is a hypothesis of this theorem.
* `WritesItsField` (`WritesOnlyItsField`): a write goes to the address of its row and changes the bits of its
  field; what it takes along of a block is not read-only. `Written` says what every writable entity the builder
  returns looks like (`OnlyWritten`, function by function), `WriterSends` what telegram that becomes. The two
  ways of counting bits meet in `MaskTakesRow`: Vitosoft's positions, from the most significant bit of a byte,
  and the ones of the mask are the same bits, for each of the fields a byte can hold.
* `ReadsItsRow` (`ReadsItsField`): the entity takes the bits of its row out of the answer. `Shown` says so of
  every entity the builder returns (`OnlyShown`). It needs `ExportOk` of the rows: an option is a value
  its field can hold, in a field of at most four bytes inside its block, and a text is no bits. The generator relies on it (section 7), and TLC
  evaluates it for the rows of the run. A text of options reads as many bytes as its
  largest option needs, and never more than the field has (`EnoughBytes`).
* `DecodesItsRow` (`DecodesTheValue`): a number or a sensor decodes to the value of its row. `ValueIs` says so of a
  converter and its filters, for every raw number and every factor and offset; the lemmas follow it through the builder
  (a field of bits, a scalar, a converter of a width the platform does not have, which becomes a filter), and
  `NumericCode` through the platforms. It needs `NumbersOk` of the rows: an offset comes with a factor (section 7). An entity has at most two
  filters, so the fold over them is unfolded without induction: any function with the fold's equation is the one
  it chooses (`FoldIs`, `FoldTwo`).
* `SignsFitBorders` (`SignFitsBorder`): where the lower border is negative, a number or a sensor reads its field as
  signed exactly when the raw number of the border is. `Border` says so of a converter and its filters; the lemmas
  follow it through a preset (`PresetNegative`), a factor and an offset as filters (`TransformNegative`, where a
  negative factor turns the sign over: `ProductSign`) and a converter of a width the platform does not have
  (`AffineBorder`, where the border may be the offset itself). Neither the property nor the theorem says that the field
  has room for the border: an export may give -20.0 in tenths to one byte, and the generator does not look.

**Model-checked only.**

* Liveness (`WritesDrain`, `ReadsDrain`, `ChainEnds`, `LinkRecovers`), out of the prover's reach.
* `PollsOnTime`. It holds of the instance but not of every clock: the due time that would be 0 is moved to 1, and each
  such move shifts the schedule by a millisecond for good. With 2^32 ms and 10 s that is about once in 85 years;
  after enough of them the polls fall where the jitter of `update()` decides the tick. In the instance the clock
  wraps on a tick.
* `EmittedAccepted` of `catalog`: it takes a case for each platform's schema, and of the rows more than
  the other theorems do (names, ranges of codes and borders, the exceptions of section 7), which
  TLC goes through for the rows an export can have (`OptionsAreValues`, `Sensible`).

## 7. Where the code and its comments disagree

The first two are runs TLC must find violated.

* **blame.** `vitohome.h:590-592` says a difference found by the read-back "means the
  device changed a sibling inside the read/write window, or did not take the
  write as sent". A console write to the register, or a plain write of an entity that owns all of it, goes out
  between the ACK and the read-back (raw operations and writes preempt
  reads, `vitohome.cpp:599-604`), and the hub blames the device.
* **chain.** `vs1.cpp:134-138` says of a byte that has arrived since the last answer "Never chain across
  it", and `proof_vs1_chain.cpp:24-25` that it "ends the chain, so the request cannot go out with that
  byte buffered". `_syncRecv()` looks at the line in one pass of `loop()` and `_send()` writes in the next
  (`vs1.cpp:155`, `163-171`); an ENQ that arrives between them is in the buffer when the telegram goes out,
  and is read as its answer.

Others were met while modelling and have no run; each is among the hazards:

* `vitohome.cpp:703-704` says the preference for the last address space "cannot
  starve the others for longer than one such run". Two burner-control reads, each
  queued again by the poll timer while the other is in flight, never let the run end.
* `vitohome.h:80-83` says `refresh_all()` will "mark every registered
  entity due"; `poll_schedule_step()` answers "not due" for `update_interval:
  never` before it looks at the due time (`poll_schedule.h:32`).
* `vito_entity.h:140-142` says that after a failed write "the entity's
  published state still reflects the device (the write did not take)". When the
  acknowledgement is lost after the heater acted, it does not, until the next poll.
* `gwg.h:341` says the sync "is invalidated on any error" and `proof_gwg_burst.cpp:18` that a
  timeout does it; a request that runs out of time in RECEIVE, or a pair with a wrong sum, leaves
  it valid (`gwg.cpp:132`, `315`).
* `__init__.py:1264-1275` refuses a GWG address above FF because the engine would reject the request, and
  `vitohome.cpp:725` calls that rejection "unreachable for schema-validated poll addresses". The validation
  looks at the first address; an EEPROM read of two bytes at FF is accepted, and `gwg.cpp:25-31` refuses it at every poll.
* `transforms.py:667-675` says the writable fields of a block that holds a read-only datapoint "stay
  read-only". A field in a block of one byte never asks (`emitter.py:344`): `gwg_vbt2_21.yaml:2120-2126` writes
  the low bits of 0x0004, whose high bits `:2457-2463` are read-only.
* `__init__.py:1286-1290` says "This breaks no generated catalog", as a blank FCRead makes a row read-only.
  The text of a weekly program does not ask whether its row is writable; without FCRead it would have no access.

The generator also relies on what no export contains, and nothing checks: bytes to be swapped inside a block
(`sensor.py:87-97` refuses what it emits), a writable list of options on a field wider than four bytes, an option
inside a block that needs more bytes than its field; a heat pump's weekly program on GWG whose later days lie
above FF, which `renderer.py:371-385` does not ask for (for `schaltzeiten` `:347-352` does); an offset without a factor, which a field of bits adds
(`emitter.py:510`) and a scalar leaves out (`emitter.py:719`).

## 8. What is not modelled

* *Hub*: failures of `setup()` and `mark_failed()`; the suppression of a second
  `refresh_all()` within its minimum interval; the length of times.
* *Link*: the warning about answers of FF only (`gwg_note_all_ff_()`), which logs; the length of the window.
* *Climate and event*: traits, the range the card offers, which of its types an event fires and its label; a setpoint
  channel without read-back, which no configuration has.
* *Identification data, scan ranges*: what identification collects and the finder's URL, the state of a scan range.
* *P300 engine*: `end()`, which nothing calls in operation; the bytes of packets
  and the parser's fields, which are abstracted to whole, torn and bad frames. Known limits,
  listed as hazards with the reason no property covers them: with
  `KwLookalikes` = TRUE a late P300 frame that contains the byte 05 can be read as an ENQ in RESET_ACK with a KW telegram
  waiting, and the rest of it as that telegram's answer (`vs2.cpp:199`);
  two bytes 15 in a late frame can shift an exchange after a NACK (`vs2.cpp:289`),
  which the hub's check of the echoed address catches; a KW answer that trickles could outlast the
  hub's watchdog (`vs2.cpp:424`).
* *KW and GWG engines*: `end()`, the poke for an ENQ, the timing instrument, the bytes of
  telegrams, writes the UART takes in part. Known limits, hazards without a property: a telegram chained late
  in its window, or in a burst, and ignored, is followed by the ENQ within its answer timeout
  (`vs1.cpp:148`); of two ENQs in the buffer after a long stall the second is read as an answer
  (`gwg.cpp:154`). `OwnAnswer` excludes both through `prompt`.
* *Value codecs*: widths, scales, signs and places of fields are in `Converters` and `PlatformSchema`; BCD dates,
  switching times and text byte by byte are not.
* *Serial interface, logging, constants*: no state of their own.
* *Configuration validation*: the validation of one key at a time (types, intervals, texts), includes, build flags,
  the C++ text that is generated.
* *Catalog generator*: reading the vendor files (`loader.py`), telling devices apart and the finder's index
  (`identify.py`), units, translations, headings, the command line.
* *Web finder, catalogs, CI*: off-line and sequential; out of the firmware.

## 9. Plan

Done, in this order: `Hub` with its lanes, read-modify-write and identification (the
core: everything else waits for it), its proofs; `Deque` and `RingBuffer` with the refinement
proof; `PollSchedule`; `HubClock`; `HubEntities`; `EnginePromise` and `VS2Engine`; `KwEngine`, `VS1Engine` and `GWGEngine`;
the generator and the validation (`Converters`, `ExportRow`, `EntityBuilder`, `SpecialRows`, `PlatformSchema`,
`Catalog`); `HubLink` and its proofs; `HubClimate`; the proofs of the entities, the climate, the poll schedule,
of the three engines and of the catalog.

Next, the model:

1. The codecs of `decode.h` byte by byte (BCD time, switching times, text) and `response_view.h`, as operators
   checked against references over bounded inputs; then the packets of the three protocols and the P300 parser.
2. Identification data and scan ranges in `Hub`; the finder's index (`identify.py`) against the lookup in the browser.

Next, the proofs: `EmittedAccepted`, one platform at a time, from a hypothesis on rows that bounds their codes and
borders and keeps option names apart (TLC would evaluate it beside `NumbersOk`).
