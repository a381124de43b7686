# TLA+ models of the smart fan

The repository is a temperature-controlled fan that is operated over iroh: firmware for
an ESP32 (`smart-fan-esp32`), the wire protocol (`smart-fan-proto`), a command line client
(`smart-fan-cli`) and a browser page around a wasm node (`smart-fan-wasm`). This directory
holds models of its control logic, the TLC runs that check them and proofs that TLAPS
checks. `PROJECT.json` maps every definition to the lines it models.

Paths below are relative to the repository: `main.rs` is `smart-fan-esp32/src/main.rs`,
`lib.rs` is `smart-fan-wasm/src/lib.rs`, `main.js` is `smart-fan-wasm/public/main.js`, the
glue is `smart-fan-wasm/public/wasm/smart_fan_wasm.js`, `bundle.mjs` is in
`smart-fan-wasm/scripts`.

## The system

| Component | State | Operations | Talks to |
|---|---|---|---|
| Sensor thread, `run_sensor` | `last`, `fan_on`, the level of GPIO25 | read the DHT22, decide under the lock, drive the fan, wait for two seconds or a wake-up | shared `State` (mutex), wake-up channel (`mpsc`), the DHT22's line |
| DHT22 driver, `read_dht22` | 40 bits, two timers | start pulse, wait for levels with a time-out, measure, check the sum, retry once | the line, the microsecond clock |
| RPC server, `SensorServer` | none of its own | `GetLatest`, `GetStatus`, `SetThreshold`, one task per connection | shared `State`, wake-up channel, clients over QUIC |
| WiFi, `connect_wifi` | the event subscription | associate, wait for an address, subscribe, associate again at each disconnect | driver and system event loop |
| Boot, `main` | the two secrets, NVS | WiFi, SNTP with 30 retries, resolve identity and API secret, start the router | NVS, WiFi, time server |
| QUIC crypto provider | keys | mask and unmask headers, seal and open packets | rustls, noq |
| Page, `main.js` | node, subscription, connected ticket, display, slider | connect, switch, reconnect after a freeze, set the threshold | wasm node, the user, timers |
| Wasm node, `lib.rs` | one poll loop per subscription, its cancel flag | `subscribe`, `set_threshold`, `free` | the device |
| Glue, `smart_fan_wasm.js` | object table with its free list, a count and a pointer per closure, a cached view of the memory, a length | imports that return objects, closures that JavaScript calls, strings both ways, loading, `Node` and `Subscription` handles | `main.js`, the wasm module, the browser |
| Bundles, `bundle.mjs` | `dist/<name>/` | one directory per variant, with its own wasm | `main.js`, any static server |
| CLI | none | one call per invocation, QR code | the device |
| Echo, DNS resolver, TLS verifier | none | copy a stream; `getaddrinfo`; accept | iroh |

What is hard about it:

* **Two threads and a message.** A `SetThreshold` writes the setpoint under a lock and
  announces it afterwards through a channel that the sensor thread also empties wholesale.
  A setpoint that is in force and not applied would show as a fan that ignores its user for
  some seconds, some of the time.
* **Time.** Every wake-up restarts the two seconds between readings; a bit of the DHT22 is
  told from its neighbour by 40 microseconds, by a thread that WiFi preempts.
* **Restarts.** Every `expect` restarts the chip, power may go at any moment, images with
  and without built-in secrets share one NVS, and a link that is lost at the wrong moment
  has nobody to bring it back.
* **Late answers.** The page is single-threaded but awaits: polls, sets and a new node
  come back to a page that the user has changed meanwhile.
* **A border between two memories.** Rust holds JavaScript objects by number and JavaScript
  holds Rust closures by pointer. Closures are called while they are being dropped, inside
  themselves and after their end; the numbers of free slots lie among the objects; views of
  the memory are detached whenever it grows.
* **Several pages, one storage.** Variants share an origin, are reached by several addresses,
  and boot in more than one tab.
* **Boundaries.** f32 setpoints from the network (NaN), a hysteresis band with memory, a
  sign-magnitude temperature, a header whose own masked bits say how much is masked.

What makes each part correct: no accepted setpoint is forgotten, pin, published state and
decision agree at rest, calls look atomic (sensor thread and server); a reading is what was
measured or an error (driver); what is served survives a restart, the link comes back (boot
and WiFi); unmasking is the inverse of masking (QUIC); the display belongs to the connected
device, and settles on what the device has (page); a closure runs alive, alone and is freed
once, a JsValue is a reference of its own (glue); a page starts however it is served, keeps
its identity to itself and its variant, and leaves no node behind that was
not in use (page and bundles). `PROJECT.json` lists the hazards line by
line.

## Modules

| Module | What it is |
|---|---|
| `FanTypes` | Readings, `State`, requests, answers; the decision with hysteresis (`Decide`), the verdict on a `SetThreshold`, the answer to each request. Pure operators. |
| `SmartFan` | The firmware at work: sensor thread, RPC handlers, lock, channel, pin, clients. |
| `FanService` | Abstract specification: one atomic service without threads, channel or lock. |
| `SmartFan_proofs` | TLAPS proofs about `SmartFan`, the refinement of `FanService` included. |
| `Dht22` | The bit-bang read against the clock, and its retry. |
| `Dht22_proofs` | TLAPS proofs about the bits, the bytes, the checksum and the timing of a read. |
| `Wifi` | `connect_wifi`, the reconnect handler, the driver and the event loop. |
| `Boot` | `main` from power-on to the router, composed with `Wifi` (`Net == INSTANCE Wifi`). |
| `Boot_proofs` | TLAPS proofs about the secrets and the link. |
| `HeaderProtection` | `apply_header_mask` at both ends of a packet. |
| `HeaderProtection_proofs` | TLAPS proofs that one undoes the other. |
| `Gui` | The page and the wasm node. |
| `Gui_proofs` | TLAPS proofs about its poll loops and its connect button. |
| `JsRefs` | Abstract specification: what Rust may rely on when it holds JsValues. |
| `JsHeap` | The object table of the glue and its list of free slots. |
| `JsHeap_proofs` | TLAPS proofs about the table: it implements `JsRefs`, and loses no slot. |
| `JsClosure` | Rust closures as JavaScript functions, on top of `JsHeap`. |
| `JsClosure_proofs` | TLAPS proofs about the closures, from those about the table. |
| `WasmStrings` | How strings get into the memory of wasm and out of it. Pure operators. |
| `Page` | Address, namespace, loading, identity and handles of several tabs, over `WasmStrings`. |
| `Page_proofs` | TLAPS proofs about all of these, strings included. |
| `MCSmartFan`, `MCDht22`, `MCBoot`, `MCHeaderProtection`, `MCGui`, `MCJsClosure`, `MCPage` | Values for TLC. |

Operators whose comment begins with "Mutant" are not part of a model: each is the form that
an action would have with one plausible bug in the code, and makes one property fail.

### `SmartFan`, `FanTypes`, `FanService`

A step is one critical section, one channel operation, one GPIO write or one message. The
sensor thread is a program counter over `ReadSensor` (`main.rs` 245-248), `Apply` and
`SkipApply` (the lock, 251-265), `Drive` (267, outside the lock), `RecvConfig`, `Drain`,
`RecvTimeout` and `RecvDisconnected` (279-289). `Drain` stands for the whole `try_recv` loop
at its last iteration: only this thread takes from the channel, so what was sent before that
iteration is gone and what is sent after it is not. That the loop gets to its last iteration
is assumed.

A connection is `closed`, `idle`, `called`, `wrote` or `replied`. `GetLatest`, `GetStatus`
and `RejectSet` are single steps under the lock; an accepted `SetThreshold` is two
(`AcceptSet`, 445, and `WakeSensor`, 448), between which the sensor thread may do anything.
Two handlers do not run between each other's halves: the runtime is
`new_current_thread` (543) and there is no await between the two lines (`RuntimeIdle`).
`CloseConn` may lose a request or an answer at any other point. Calls that a client
pipelines on one connection are handled one after the other and behave like those of several
connections, which the model has. `RouterStops` makes the channel disconnected, which `main`
never does: the code calls it "shouldn't happen" and handles it (284), and so does the model.

Temperatures and setpoints are integers, tenths of a degree; `NaN` is a model value that
`InRange` refuses, as `contains` does. `toggle` is a history variable that remembers the
reading and the setpoint at the last switch of the fan.

`FanService` answers every request in one step and switches the fan in one step. `SmartFan`
implements it with `pc` and `resp` mapped to what is already decided: a `SetThreshold` takes
effect when the setpoint is written, the rest of its handler is the way of the answer.

### `Dht22`

Time passes in ticks of 25 microseconds. The sensor is a sequence of levels with the
durations that the comments of `read_dht22` give; the thread goes through the calls of
`wait_for`, `micros` and the comparison with 40 microseconds. A tick that passes although
the thread could go on is a preemption, and `late` counts them. The line may be stuck, or
break at any moment. `wait_for` looks at the level before it looks at the clock, so a
preempted thread does not give up on a level that is there. A frame is a function from its
40 bits; `ByteAt` puts a byte together, `Encode` is what the sensor does to make `Decode`
right. The width of a byte is a constant, so that TLC can do with small ones.

### `Wifi`, `Boot`

`Wifi` has no specification of its own: `Boot` composes its steps with those of `main`.
`Stops` is a power loss or a panic anywhere; `Reflash` and `EraseFlash` happen while the
chip is off. `WindowLoss` and `ReadErrors` are two environments that the code is not ready
for: the link lost between `wait_netif_up` and `subscribe`, and `get_blob` failing on a
secret that is stored. With both off the properties hold; a run for each shows what happens
otherwise. `served` is a history variable of what was served under which image.

### `HeaderProtection`

A byte is a function from bits to 0 and 1, a packet its first byte and the four bytes that
follow. AES over the sample is any mask, the same for both ends, as the sample is outside
the four bytes.

### `Gui`

A step is what runs between two awaits. Poll loops (`loops`) and `set_threshold` calls
(`sets`) are processes that outlive what started them; of a status only the setpoint is
kept, the other fields of the display travel with it. Tickets are taken to parse: a ticket
that does not ends its loop with an error text. The variants without a slider are the
behaviours in which nobody drags. A page that comes back from a freeze connects to whatever
the field holds by then (`ReconnectDone`), another device or none: that is modelled as it is in
the code, and no property objects to it. An answer `None` stands for "no reading yet" and for an
error, which the page treats alike.

### `JsRefs`, `JsHeap`, `JsClosure`

`heap` is the array of the glue, objects and numbers of free slots side by side, `heap_next`
the head of the list. `idx` is what wasm has: the index inside each JsValue. There are over a
hundred imports; what they do to the table is add an object, clone one, take one out, or use
one of the constants below 1028, which is `Reserved` here, and these are the actions.
`JsRefs` knows neither slots nor list: each JsValue is a reference that shows one value until
it is dropped. The refinement mapping looks the indices up in the table.

`JsClosure` adds `makeClosure` and `makeMutClosure`: `cnt` and `a` are the fields of `state`,
`env` is what Rust allocated, `stack` are the calls that run. `real` is the wrapper up to the
call of Rust, `finally` its end; in between Rust may do anything it can do with JsValues,
drop and forget closures, and JavaScript may call again. `Collect` is the `FinalizationRegistry`.
That a call with `a = 0` throws at once, that `Closure::drop` calls `_wbg_cb_unref` and
`forget` does not, is what the compiled side of wasm-bindgen does, and external. The types of
closures differ only in how many arguments they add to the table, none or one here. A call
with `a = 0` throws before the compiled side has taken its argument, whose slot is then nobody's
for good; in the model some JsValue has it, and may be dropped. `IndependentRefs` and
`GrowsWhenFull` are about slots that JsValues have and slots in the list, and do not promise
that this one comes back.

### `WasmStrings`, `Page`

A string is the sequence of the UTF-8 lengths of its UTF-16 units: what the branches of
`passStringToWasm0` depend on. `passString` yields every outcome, over whether the memory
grows in `malloc`, in `realloc` or not at all. The strings that `main.js` passes go through
it: ticket and API secret, which may hold anything the user types, and the secret key.

`Page` is a number of tabs, each with an address that a static server gives to
`dist/<name>/index.html`, which `NS` and `Dir` are computed from. `Fetch`, `Stream` and
`Instantiate` are `__wbg_init` and `__wbg_load`; all responses are of the same origin, so
their type is always one that `expectedResponseType` takes. A fetch that is rejected fails the
page like a response without a module. `Stream` goes on to the bytes only when the MIME type
was wrong; `instantiateStreaming` looks at that before it touches the body, so that the body is
still there is left to the browser and not modelled. A secret that is drawn is one
that no tab and no storage has. Of the local storage only
the secret key is kept; ticket and API secret are stored under the same namespace and never
written after an await. `current` knows a handle whose pointer is 0. `rust` is what the wasm
side holds: `FreeNode` leaves a Node behind (`lost`) that a `set_threshold` has borrowed,
because `Node.free` throws and `catch (_)` swallows it. Such a Node stays open until the page
is closed. `TornDown` says that it is the only kind that does: no step leaves a Node behind but
the one the page had, and that only if a `set_threshold` is using it. It does not say that
there is one Node per page; each freeze in the middle of a `set_threshold` may add one.
The finalizers of `Node` and `Subscription` never run: both are freed by hand or go with the
page. Two tabs of one variant that boot for the first time may draw two identities, of which the later write survives: `SameIdentity`
allows that change, to the identity that was found in the storage, and no other.

## Runs

| Run | Checks | Shows | Instance |
|---|---|---|---|
| `smartfan` | `TypeOK`, `SetpointInRange`, `NoLostWakeup`, `QuiescentFanCorrect`, `NoChatter`, `AtomicService`, `ImplementsService`, `EveryCallEnds`, `SamplingContinues` | the firmware's safety; it implements the atomic service, liveness included; calls end; sampling goes on | two connections, the two edges of the band as temperatures, the default as a setpoint, one at the end of the range, one outside of it and NaN, right and wrong secret |
| `smartfan_starved` | `SampledForever` (violated) | "every 2 s" is not kept while setpoints keep coming | one connection |
| `dht22` | `TypeOK`, `UndisturbedReadExact`, `NoSlippedReading`, `OneWrongBitCaught`, `EveryReadEnds` | the read is exact, or fails, or is more than one bit wrong | bytes of two bits, three measurements, four ticks of preemption |
| `boot` | `TypeOK`, `ServedIsKept`, `IdentityStable`, `ReconnectOnItsWay`, `ComesBack`, `Serves` | secrets survive, the link comes back, the device gets to serve | two keys, two SNTP retries |
| `boot_window` | `ReconnectOnItsWay` (violated) | a disconnect before the subscription is lost | `WindowLoss` on |
| `boot_read_error` | `IdentityStable` (violated) | a failed read of NVS replaces the identity | `ReadErrors` on |
| `header_protection` | `RoundTrip`, `PacketNumberMasked` | unmasking undoes masking; nothing else is masked | all 65536 pairs of first byte and mask |
| `gui_control` | `TypeOK`, `OnePoller`, `ConnectAvailable`, `PollsShowConnected` | the page's safety | two devices, two setpoints, two loops, one set |
| `gui_settles` | `DisplaySettles` | page and device agree in the end | one device, two setpoints, two loops, one set |
| `gui_late_set` | `DisplayOfConnected` (violated) | a late set shows the wrong device | as `gui_control` |
| `glue` | `TypeOK`, `RunsAlive`, `RunsAlone`, `FreedOnce`, `NoLeak`, `IndependentRefs`, `GrowsWhenFull` | closures and JsValues are safe, and nothing is lost | a mutable and a shared closure, four JsValues, one more object, one constant, calls three deep |
| `page` | `TypeOK`, `StartsIfServed`, `VariantsApart`, `TornDown`, `CallsArrive`, `SameIdentity` | pages start, keep their identities, leave no Node behind that was not in use when it was freed, and pass strings whole | two tabs of one variant or of two, three keys, three strings, two Nodes per tab |

Why the bounds are enough, as far as one can say so without a proof:

* Two connections are as many as can be in each other's way: everything a handler does is
  one step, or the two of `SetThreshold`. `MaxTokens` only keeps clients from sending when
  wake-ups are queued; one is enough to have one in the channel and one on its way, and the
  proofs do without the bound. The temperatures are the edges of the band of the default
  setpoint; 50.0 is the last setpoint in range, 50.1 the first outside.
* Bytes of two bits keep every part of a frame of the DHT22: two-byte numbers, a sign, a sum
  that wraps around. Four ticks of preemption are enough to swallow a whole level (three)
  and to get several bits wrong in one read. The time-out only has to be longer than every
  level; it is 120 ticks in the code. For the safety of the read the proofs do without these
  bounds.
* Two keys tell a secret from another one. A drawn key may repeat, which is harmless. The
  chip is restarted without limit.
* A mutable and a shared closure, called inside each other and themselves, are every nesting
  of two; the proofs do without the bounds. With two JsValues that are not closures there is
  one to be dropped and one to take its slot.
* Two tabs are one that boots and one that boots at the same time; three keys are one for
  each and one that would be new. The strings are ASCII, ASCII followed by something else,
  and something else first. The second Node of a tab is for the case that the first is lost.
* Two loops are the current one and one that still waits for an answer. One
  `set_threshold` suffices to be late. The proofs do without these bounds and those on tabs.

## Fairness

* `SmartFan`: the sensor thread keeps running (weak). A handler that wrote goes on to its
  message (weak: it is running). Tasks are polled in the order in which they became ready,
  so a handler that is ready again and again is run (strong, as another handler between its
  two steps disables it for a moment). Clients and the sensor promise nothing.
* `Dht22`: time passes and a preempted thread comes back.
* `Wifi`: the driver ends an association one way or the other, the event loop dispatches
  what was posted; the time-outs of `connect` and `wait_netif_up` are longer than an
  association takes, so one that is possible again and again succeeds (strong). The access
  point promises nothing: `ComesBack` and `Serves` assume that it is back for good.
* `Boot`: `main` goes on; the time server may stay silent for ever.
* `JsClosure` and `Page` state no fairness: what is checked of them is safety. An answer that
  never comes leaves a page where it is.
* `Gui`: the browser runs what is ready, and of infinitely many polls one is answered
  (strong). The user promises nothing; `DisplaySettles` assumes that the page stays with a
  device and the slider is let go.

## Proofs

All hold for every value of the constants that the named assumptions of the modules allow.

* `SmartFan_proofs`. The inductive invariant `IInv` is the type invariant, the setpoint's
  range, what a call keeps until it returns (`CallKept`), that `fan_on` and the published
  fan agree (`FanAgrees`), that the last reading is published outside `apply`
  (`ReadingPublished`), that no wake-up is lost, and where the last switch is recorded
  (`SwitchRecorded`). None of the properties is inductive alone: that no wake-up is lost
  needs that a decision settles the fan (`DecideIdempotent`: deciding twice is deciding
  once), which needs `FanAgrees`; that the fan does not chatter needs that the fan is on
  exactly if it was last switched on by a reading at or above its setpoint. From it follow
  `TypeCorrect`, `SetpointBounded`, `SetpointNotForgotten`, `QuiescentAgreement`,
  `HysteresisHolds`, and `Refinement`: every step of the firmware is a step of `FanService`
  or none.
* `Dht22_proofs`, in three parts.
  - *The frame.* `ByteAt` and `Shifted` are recursive functions; that their equations define
    anything, and everything about their values, is by induction over the bits of a byte. The
    prover cannot instantiate an induction rule, so `Climb` states induction for a set of
    numbers, from the library's theorem that `<` on the naturals is well-founded: what is to be
    shown becomes the set of those `j` for which it holds. From `ByteAtValue` follow
    `BytesBack` (the bytes of an encoded measurement are the ones that were encoded), with
    `BytesFit` (each fits) `FramesCarry`: every measurement in range passes the check and is
    decoded to itself, below zero too. `OtherByte` says that one different bit makes a byte
    differ by a power of two less than 256, and `FlipCaught` that the sum tells.
  - *The alignment.* `DInv` is `TypeOK` and that the bit that is read is one of the 40.
    `NoSlippedReading` is not inductive: that a level was missed does not say what happens
    next. `InStep` says it: the sensor is never behind the thread, and once a level was missed
    it is two levels ahead for good; before it could judge the last bit the thread would have
    to see a level that no frame has. On a line that is shorted it may; that is why the
    property and `InStep` except it.
  - *The timing.* `Follows` says for each call of `wait_for` of a read that was not preempted
    at which level the sensor is, how long that will last, what was waited and measured, and
    which bits are right already. It needs `DhtAssumption`: the time-out is at least three
    ticks, longer than any level.
  From these follow `DhtTypeOK`, `NoSlip`, `UndisturbedExact` and `SingleErrorsCaught`.
* `Boot_proofs`. `BInv` is the type invariant (`BootType`), that a chip that is off or has
  not reached its secrets has resolved none (`OffIsFresh`), and that every resolved secret
  equals the built-in one or else the stored one (`ResolvedIsKept`). From it follows
  `NothingUnkeptIsServed`, and with the types of the link and `RetriesLeft` `BootTypeOK`.
  `IdentityIsStable` needs in addition `~ReadErrors` and `RecordIsKept`: what was ever served
  without a built-in secret is still in NVS, and a secret is drawn only where none is stored.
  `ReconnectIsOnItsWay` needs `~WindowLoss` and `LinkWatched`: a station that is down has its
  event ahead of it only because the handler is there exactly while `main` runs, and the
  station was up when it subscribed. The runs `boot_read_error` and `boot_window` show that
  neither assumption can be dropped.
* `Gui_proofs`. `GInv` is `TypeOK`, `OnePoller` and `ConnectAvailable` with what they need:
  that loops and calls are about a device (`AboutDevices`), that the loop of the current
  subscription was not cancelled, and that a page that waits for `Node.spawn` has no node
  (`NotStopped`), so that it cannot connect before there is one. From it follow `GuiTypeOK`, `GuiOnePoller`,
  `GuiConnectAvailable` and, as a loop that is not current is cancelled,
  `GuiPollsShowConnected`.
* `Page_proofs`. `PInv` is `TypeOK` and `CallsArrive` with what they need: a page
  is at an address of its variant (`Placed`), of which `NS` makes the name of the variant and
  `Dir` its directory; what failed to start has a response that was bad (`Delivered`); the
  page has its Node exactly while it is up, and never a Subscription it has freed
  (`Handled`); a Node that Rust has and nobody freed is the page's (`OneNode`). `TornDown` is
  about steps: with `Handled` a page that spawns has no Node that could be left, and what a
  freeze leaves is what it could not free. That a string arrives whole is a lemma about `passString`: whatever the string
  and wherever the memory grows, the view that is written to is the one of the memory, and
  it has room for three bytes for each unit that is left. `IInv` is about identities: no
  secret is stored, on its way or in use for two variants (`Apart`), and a page that has had
  an identity finds one again, its own unless another page of its variant has one
  (`Remembered`). The assumption `PageAssumption` is that variants have names. From them
  follow `PageTypeOK`, `PageStartsIfServed`, `PageTornDown`, `PageCallsArrive`,
  `PageVariantsApart` and `PageSameIdentity`, for any number of tabs, variants and Nodes.
* `HeaderProtection_proofs`. `MaskInverse` goes through the mask of the first byte first:
  the bit that says how many bits are masked is not among them (`SameBits`), so the receiver
  gets the sender's first byte back, with it the length of the packet number, and then the
  same bytes (`XorTwice`). That the length is right is `LengthRead`: the property
  lists the bytes that belong to a packet number and does not use `PnLen`. `RoundTripHolds` and `PacketNumberMaskedHolds` follow.
* `JsHeap_proofs`. The table is right because some sequence lists its free slots: the
  inductive invariant says that there is a sequence of distinct slots that `heap` links from
  `heap_next` to the end, that it holds exactly the slots that no JsValue has, that no two
  JsValues share a slot above `Reserved`, and that each slot in use holds an object
  (`TableKept`). Adding drops the first element of that sequence, dropping puts one in front.
  `References` and `NoSlotLost` follow: every step is one of `JsRefs` or none, and the table
  grows only when the sequence is empty.
* `JsClosure_proofs`. Steps of the closures are steps of the table, so `JsHeap_proofs` gives
  `ReferencesOfClosures` and `NoSlotLostToClosures` (`SpecIsHeapSpec`). For each closure `CInv`
  says that `cnt` is one for the Closure in Rust, or the function that owns it, and one for
  each call that runs (`Counted`); that what is not allocated is not reached by a pointer that
  is not null (`Guarded`); and that what is allocated is counted, known to the registry, and
  pointed to by the state or by the one call of a mutable closure that took the pointer
  (`Pointed`). Counting alone does not do: a call that puts its pointer back has to know that
  nobody freed the closure meanwhile, and that nobody else took the pointer. From it follow `ClosureTypes`, `NoCallInFreed`,
  `NoSecondEntry`, `NoDoubleFree` and `NothingLost`, for any number of closures, JsValues and
  nested calls.

Every invariant and every action property of the runs that hold is proved. Only
model-checked are the properties under fairness, which are out of the prover's reach:
`ImplementsService` beyond its safety part, `EveryCallEnds`, `SamplingContinues`,
`EveryReadEnds`, `ComesBack`, `Serves` and `DisplaySettles`.

## What is not modelled

* Durations other than the DHT22's: two seconds and ten seconds are steps that happen some
  time. f32 rounding: with some setpoints the band is off by one unit in the last place.
* GPIO errors (ignored by the code), a poisoned lock (nothing panics under it), memory.
* Addresses and tickets' contents: the long ticket may name an address that DHCP has taken
  away. Relay, discovery, handshakes: iroh's.
* Calls of JavaScript out of the destructors of a Rust closure: `_wbg_cb_unref` sets
  `state.a` to 0 after it has freed the closure (glue 1112-1113, 1140-1141), so that its
  function, called in between, would run in what is being freed. `unref` is one step. No
  destructor of what the closures of this program own makes JavaScript call one of them.
* The closure of `__wbg_new_typed` (glue 553-570): it lives while the constructor of a Promise
  runs, is freed by the Rust function that made it, is not counted, and passes two arguments.
* In the glue: `debugString`, the classes for streams, getters that only look, and what the
  compiled wasm does with what it is passed.
* The packet keys of the crypto provider, the verifier that accepts everything, the DNS
  resolver and the echo protocol: calls into other libraries without a state of their own;
  what is hard about them (the queue of one blocking thread, half-closed streams) is tokio's.
* Argument parsing and QR codes of the CLI, the look of the page, what `bundle.mjs` inlines,
  the build script of the firmware.
* A client that reads the status right after its Ok may be shown the fan of the old setpoint,
  if the sensor thread is inside a read at that moment (`lib.rs` 96 expects it to be quicker).
  Whether it happens depends on durations; the model allows it, and `ImplementsService` shows
  that the fan follows.

## What could come next

* Composition: `SmartFan` under `Boot`, so that a restart resets the setpoint and the
  reading; `Gui` against `FanService` instead of a setpoint per device.
* Proofs: how much preemption a read takes and is still exact; `Follows` says nothing about
  a read that was preempted at all.
* Packet keys around `HeaderProtection`, so that a packet that is sent is opened.
