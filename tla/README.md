# Verification of the LN882x SDK

TLA+ models of the stateful parts of the SDK, the TLC instances that check
them, and TLAPS proofs.  Paths below are relative to the repository; `KV` stands
for `components/fs/kv/kv/ln_kv.c`.

## 1. The system and its parts

The SDK is firmware for a Wi-Fi microcontroller: FreeRTOS, lwIP, a closed Wi-Fi
library, and the vendor's own components around them.  What is the vendor's own
and keeps state is listed here; `PROJECT.json` has the same list with files and
the hazards with their lines.

| part | state | operations | what is hard | what makes it correct |
|---|---|---|---|---|
| KV store (`components/fs/kv`) | blocks of items on flash, block index in RAM | boot, set, get, has_key, del, garbage collection | power failure between any two flash writes; collection moves items under a running update; the index is a cache of the flash | completed calls survive, interrupted ones are all or nothing, boot repairs everything, every write goes to blank flash, every call returns |
| NVDS (`components/fs/nvds`) | two sectors used in turn, a flag sector | init, one setter and getter per field | power failure while a sector or the flag is rewritten; no lock | a record that changes atomically |
| OTA boot agent (`components/fota/ota_agent`) | APP and OTA partitions, upgrade state in NVDS | verify, restore, start | power failure while the application is being overwritten | the device can always be started; only whole images are started |
| OTA download (`project/wifi_mcu_ota_demo/examples/ota_demo.c`) | OTA partition, 4 KB buffer, result flags | receive callback, finish, verify, retry | arbitrary split of the data, errors, retries that keep old flags | what is committed is whole, newer and installable; no byte of the file is lost between two buffers; nothing outside the partition is written (the code does not keep this, section 4) |
| partition table (`components/fs/partition_mgr`) | none (read only) | look-ups | - | sizes are constants of the models |
| FIFO, serial port (`components/utils/fifo`, `components/serial`, `bsp/serial_hw.c`) | two rings of bytes per port, shared by tasks and an interrupt | push, pop, flush, putchar, read, write, receive interrupt | several tasks empty one ring without a lock; the interrupt flushes a full one under the reader | no byte is doubled or left behind, and none lost but by a push on a full ring or a driver that gives up; nobody reads an empty ring |
| console and AT task (`components/atcmd/console.c`, `at_task.c`) | line buffer, the line handed over, two semaphores, a queue | collect a line, hand it over, execute, release | the AT task works in place on the console's buffer; wakeups are counted | lines are executed exactly as received, and all of them |
| DHCP server (`components/net/dhcpd`) | address pool, running flag, task | start, stop, discover, request, inform, release | two threads on one pool, messages of stations that left, addresses that run out | an address in use belongs to its user |
| Wi-Fi manager (`components/wifi/wifi_manager`) with the interfaces (`netif/ethernetif.c`) | queue of messages, link and address of the interfaces, DHCP status | notify, bring up, bring down, release | three threads, one queue, events handled after the fact; the manager sends to its own queue | the link state tells the truth once all messages are handled |
| smartconfig (`components/smartlink/smartcfg`) | lead code, marks and buffer of the half words, state, hop timer, channel | start, receive a lead or data frame, decode, hop, poll, stop, acknowledge | frames lost, doubled, reordered, of other senders; the timer against the sniffer; the control block is freed | the count agrees with the marks; the device stays on the phone's channel; the phone's frames lead to a connection |
| AT parser and commands, system parameters, airkiss, soft AP provisioning, HTTP client, ping, iperf, reboot trace, statistics | parameters, parsers, sockets | - | string handling and I/O | not modelled, see section 7 |

How the parts interact: the KV store and NVDS are called by everything that
keeps parameters (system parameters, AT commands).  The download task fills the
OTA partition, then sets the upgrade state in NVDS and reboots; the boot agent
reads that state before the application starts, copies the OTA partition over
the APP partition and sets the state again: the two programs never run at the
same time and talk only through flash.  The Wi-Fi library posts events to the
manager's queue; the manager brings interfaces up and down, which starts and
stops the DHCP server, and returns addresses of stations that leave.  lwIP's
thread posts to the same queue when its DHCP client is bound.  Commands arrive by
the receive interrupt of a UART, pass the console task and the AT task, and the
answers, the echo and the log leave through one transmit ring.

## 2. Modules

| module | models |
|---|---|
| `LnKvLayout` | what the KV store keeps on flash and in RAM, and the functions of `ln_kv.h` and `ln_kv.c` that only read or compute |
| `LnKv` | the KV store: boot, calls, collection, power failures |
| `LnKvProofs` | theorems about `LnKv`: types, layout, index, marks, workspace |
| `LnKvDurable` | theorems about `LnKv`: the values after power failures |
| `NvdsStore` | abstract: one record, changed atomically |
| `Nvds` | NVDS: sectors, flag, every flash operation; refines `NvdsStore` |
| `NvdsProofs` | theorems about `Nvds` |
| `OtaImage` | images, the sectors that hold them and their verification |
| `Ota` | boot agent and download task over the same flash, power failures |
| `OtaProofs` | theorems about `Ota` |
| `Fifo` | the ring of `fifobuf.c` as operators, and the sequence it stands for |
| `Serial` | the transmit side of a port, any number of tasks |
| `Console` | receive interrupt, console task, AT task, over `Serial` |
| `ConsoleProofs` | theorems about `Fifo`, `Serial` and `Console` |
| `Dhcpd` | DHCP server, pool, and the stations as environment |
| `WifiManager` | Wi-Fi manager, interfaces, lwIP thread, composed with `Dhcpd` |
| `NetworkProofs`, `LinkProofs` | theorems about `Dhcpd` and `WifiManager` |
| `SmartCfg` | smartconfig with phone and strays |
| `SmartCfgProofs` | theorems about `SmartCfg` |
| `MCLnKv`, `MCNvds`, `MCOta`, `MCConsole`, `MCNetwork`, `MCSmartCfg` | instances for TLC |

### KV store: `LnKvLayout`, `LnKv`

State.  `flash` has per block the four header words that are written once
between erases (magic, gc_src, gc_dst, gc_done) and the sequence of items in
address order.  An item is as far as it was written when power failed (`Stages`:
header without magic, header, key, all), with its key, value, `prev_pos` and
discard mark.  `ram` is `kv_ctl.mgr_ctl`: flags and free size per block,
the counters of fresh and inuse blocks, the workspace.  Sizes are abstract
units; keys have one length and no value is empty (section 7); a checksum matches
exactly when the body is complete.  `allowed` is history: the values a lookup of each key may return.  A
set that starts adds its value; when it returns only that value is left; what
a lookup finds after a boot settles an interrupted call.

Control.  `kv_lock` is held over each call, so there is one program counter,
whose values are the flash operations at which a call or a boot can be cut:
the scan of `kv_mgr_ctl_build` block by block (`ScanErase`, `ScanMagic`,
`ScanMarked`, `ScanRecover`, `ScanIndex`, `ScanDone`), the repair of an
interrupted collection (`Incomplete*`), the choice of a workspace (`Locate*`),
the collection in five steps (`Gc*`, one action per programmed part of a copied
item), the search loop and the writes of a save (`Search*`, `Save*`), the
deletion of the superseded item (`DeleteOld`).  Look-ups are not pure: the walk
of `kv_item_walkthru` refreshes the index, and `FindRam` does the same.
The three error states `failed` (boot returned an error), `overrun` (an item
is larger than what is left of its block) and `wild` (the block table is indexed
by a workspace that was never set) are where the model stops following the code;
the device may be restarted from them.  The API is not used after a failed boot.

### NVDS: `Nvds`, `NvdsStore`

State.  `sect` is the two data sectors (magic word and fields), `flag` which of
them is flagged valid, `wr` the `ln_nvds_write` in progress (target sector,
field, value, copy position).  A field being programmed is `Torn` between
`CopyHalf` and `CopyRest`.  The setters differ only in field and length, so
`Set(f, v)` stands for all of them, with their comparison against the stored
value.  `NvdsStore` is the promise: a record, a request, a status; the
refinement mapping reads the record the way `ln_nvds_read` does.  A write to
sector 2 becomes visible when the flag is erased (the reader then falls back to
sector 2), a write to sector 1 when its flag is set: that is the subtlety the
mapping has to get right.

### Firmware update: `OtaImage`, `Ota`

State.  A sector of the OTA partition holds a run of bytes of some file
(`img, from, len`); a file verifies when every sector is the right piece.  The
APP partition is the header in it and how many sectors of which body follow.
`dl` is the statics of `ota_demo.c`, `upg` the upgrade state.  Its write is one
step because `Nvds` is proved to be an atomic record; that is how the two
components compose.

Actions.  `Boot*` are the branches of `ota_boot_upgrade_agent`, `Restore*` the
steps of `restore_image`, `Recv*` and `Finish*` the callback with its buffer and
its erase and program, `Closed` and `NetError` the two ways a transfer
fails, `CheckOk`/`CheckFails`/`Reboot` the commit.  `RecvSizes` is the set of
lengths a callback may deliver.  `BootApp` is the start without a restore, and
`BootNotNewer` has the branches the code calls impossible beside the one it expects.
`NumBeyond` sectors behind the partition belong to others (`Foreign`: the KV store
and the user's data), so that a write behind its end is seen.  Their owners are not
part of this model and do not write here.

### Console: `Fifo`, `Serial`, `Console`

State.  `rx` and `tx` are the rings with buffer, head, tail and end.  In `tx` a byte
is named after the task that wrote it, in `rx` it is its kind (CR, LF, NUL, any other)
with its number, so that a property can tell which byte went where.  `st` is where
each task is in `serial_putchar`; `con`, `line`, `cmdLine`, `at`, `done` and `atQueue`
are the console task, its buffer, the line handed over, the AT task, the semaphore it
releases and its queue.  `sent`, `wire`, `dropped`, `lost`, `received`, `executed` and
`discarded` are history.

Actions.  Push, pop and the test for a full ring run under a critical section and
are one step.  `fifo_isempty` does not: its two loads are two steps, in either order
(`Load`/`Test`, `RxLoad`/`RxTest`), and everything else may come in between.  The
receive interrupt is one step, including the flush of a full ring and the signal.
An answer is one byte; ATE0 and ATE1 change the echo.  `WriteOneChar` puts the byte on
the wire or gives up on a UART that does not take it (HAL_TIMEOUT); the byte was
popped already and nobody looks at the result, so it is gone (`lost`, at most `MaxLost`
for each task).

### Network: `Dhcpd`, `WifiManager`

State.  An address is the index of its pool item.  `srv` is the server task with the
message it works on; `mbox` the socket; `sta` the stations with the address they have
or remember; `queue`, `mgr`, `lib`, `tcpip` the manager's queue and the three threads
around it; `nif` the interfaces.  `early` is history: a release freed an address in
use.

Actions.  The server reads, writes the hardware address, writes `allocted` and
answers in four steps, the manager's release searches and writes in two: the pool has
no lock.  `StaUp` to `LinkDown` are the calls of `ethernetif_set_state` that other
threads see.  Stations lose answers, repeat, renew, inform, leave with a message in
the socket, and come back with the address they remember.

Three simplifications.  The mode of the station interface is the one it connected with;
AT commands that set `dhcp_mode` between the connection and the test of it in
`ethernetif_set_state` (`at_cmd_wifi.c:2317-2365`) are left out.  `netif_set_down` also
runs the status callback in the manager's thread (`ethernetif.c:451`), which may set the
link up and post GOT_IP to the manager's own queue; the link is set down a few lines later,
so `LinkTruth` does not depend on it.  A search that fails lets `ReleaseSet` change nothing
where the code writes through NULL.

### Smartconfig: `SmartCfg`

State.  `sc` is the control block: state, lead code, marks, buffer, count.  A half
word is named after the session it comes from, and the two CRC-8 of `ln_sc_decode` are
taken to accept exactly what comes from one session: that a real CRC-8 may accept a mixture
is not in the model, and no property claims that the credentials are right.  `rx` and `cb` are the frame in the
sniffer callback and how far that is, `timer` and `chan` the hop timer and the channel,
`app` the application.  The index one beyond the marks, which the range check
accepts, is a slot of its own: writing it overwrites the total size with the half word
(`ln_sc_push_data`), as the layout of the structure makes it do.  That `ln_sc_decode` then
copies with the overwritten length, beyond `sc_ssid`, is not modelled.

Actions.  `RecvLead`, `RecvData` with the decoding inside, `Hop`, `HopStop`, the
application's `Start`, `Sniff`, `Poll`, `Disable`, `Stop`, `Ack`.  The phone's frames
may be heard on its channel, in any order and any number of times; strays anywhere,
`MaxStray` of them.

## 3. Runs

All bounds are constants of the `.cfg` files.

| run | instance | shows |
|---|---|---|
| `kv_crash` | 2 blocks of 6 units, 2 keys, values of 2 sizes, 1 power failure anywhere | types; `Durable`, `InitSucceeds`, `OneCopy`, `ItemFits`, `KeepsLastCopy` |
| `kv_three` | 3 blocks of one item, 1 failure, fairness | `Durable` when one set collects several times and its own item moves; `Returns`: every call and every boot ends |
| `kv_cycles` | 2 blocks, 2 failures anywhere | `Packed`, `IndexExact`: no write to flash that is not blank; `DurableOutsideWindow`: completed calls survive unless power failed in the window of `kv_lost`; `WorkspaceKnown` |
| `nvds` | 3 fields, 2 values, any number of failures | `TypeOK`, `NeverTorn`, refinement `AtomicRecord` |
| `ota_update` | 6 images of at least a sector, 2 OTA sectors of 4 bytes, an APP partition of 10, callbacks of 1 or 3 bytes, 2 failures, fairness (2 million states, 3 minutes) | types, `Recoverable`, `NoImpossibleBranch`, `StartsWhole`, `ReachBounded`, `GoodDownload`, `CommitsForward`; `UpdateInstalled`, `BootsUp` |
| `console` | rings of 3 and 2 cells, 4 received bytes, line buffer of 4, three writers, a byte of each lost by the driver, fairness | types; `NoEmptyRead`, `CommandsExact`, `Conserved`, `NeverStranded`, `CmdLineStable`; `CommandsRun` |
| `network` | 3 stations, 2 addresses, queue of 1, 3 events, 3 joins (5 million states, 3 minutes) | `OneItemPerStation`, `Leased`, `ReleaseRight`, `LinkTruth` |
| `smartcfg` | 3 channels, buffer of 5 half words, a session of 3 bytes, an earlier one of 5, 6 strays, fairness | types; `MarksCounted`, `TimerSafe`, `StaysTuned`; `Converges` |

Why the bounds are enough to be interesting.  Two blocks are the smallest
partition in which a collection has a source and a destination; a block holds
two items, so collection copies more than one and fills blocks; with three
blocks a set can collect twice and the last fresh block can be given out.  Two
keys are needed for a loss to be visible next to an update, two values for an
old and a new one.  One failure puts a crash before every flash write, two put a
crash into the repair of the first.  In `nvds` the failures are unbounded; three
fields give one before, one at and one behind the copy position.  In the OTA
runs an image has two sectors or more, so a body can be half copied; the two failures
allow one in the restore and one in the repeated restore, or one in the download.
Callbacks of 1 and 3 bytes fill a buffer of 4 to the brim, stop one byte short of it and
cross its end.  One image ends exactly with the OTA partition, one is longer and still fits
APP, one is longer than both by as little as the precheck can tell.
In `console` both rings and the line buffer overflow, and a second line arrives
while the first is executed; a transmit ring of two cells holds one byte, so
three writers make it full, drop a byte and pop it twice.  In `network` three stations
on two addresses make one go without or take over an address on offer, and a queue of
one message makes every poster wait (the real depth is 5; a longer queue only delays
that).  In `smartcfg` six strays can complete a lead code or fill the buffer of
the wrong session and spoil the next round; a mixture of the two sessions announces one
size that is refused and one that is taken.

Fairness.  `kv_three` assumes weak fairness of boot, collection and save
together: the thread that holds `kv_lock` keeps running, nobody else changes
the store, and callers may stop calling.  `ota_update` assumes it of the boot agent
(the only program that runs then) and of the commit of a verified download (straight
code of one task); it does not assume that servers answer or that anybody starts
a download.  Power failures are bounded, which is "once power stays on".
`console` assumes weak fairness of the console task, the AT task and each
transmitting task: each is a FreeRTOS task that is ready, and the ones above it
block in the end; nothing is assumed of the interrupt or of the log.  `smartcfg`
assumes weak fairness of the Wi-Fi task, the timer and the application, and strong
fairness of each of the phone's frames: the phone repeats its frames while the device
hops, so that each frame is on the air again and again while the device is on its
channel.  `network` has no liveness: nothing bounds how long the manager is preempted.

Every property of these runs is also checked to fail on a seeded fault: operators
whose names carry a suffix (`GcEraseSrc_Early`, `Moved_Never`,
`RestoreHeader_StateFirst`, ...) stand beside the operator they alter, and
`PROJECT.json` says which fault breaks which property.

## 4. Where code and its comments disagree

Four runs end in a counterexample.  Each checks what a comment of the code
says.

- `kv_lost`: "a power down may happen during any process of a gc action, we
  should fix all incomplete gc when kv bootup" (KV:1025).  Power fails after the
  source was formatted and before the destination is marked done.  Boot finds
  no source, returns without finishing the collection (KV:1038), and the
  destination, full of live items, still looks unfinished.  The next
  collection that is cut after its first mark makes boot format it.
- `kv_stuck`: the same promise.  A collection of a block without live items leaves
  an empty destination with gc_done set; the next walk makes it fresh without an
  erase (KV:665).  When it serves as a destination again and power fails,
  every later boot fails with KV_ERR_BLK_STATUS_ERROR.
- `ota_stale`: "App should check it!" (`ota_agent.c:209`).  `is_precheck_ok` is
  kept over a retry; a file shorter than a sector then is accepted without the
  check, and a diff image makes the boot agent erase the application.
- `ota_spill`: "check file size" (`ota_demo.c:72`), and the partition table, which
  refuses to be compiled when KV begins before the end of OTA
  (`cfg/flash_partition_table.h:36`).  An uncompressed file is compared with the APP
  partition only, which has 1000K where OTA has 800K; and behind a file that ends with the
  OTA partition `ota_persistent_finish` erases and programs one sector more.  Both
  overwrite the KV store.

More disagreements are in the models and have no run of their own.

- `kv_item_hdr_verify` rejects an item that crosses its block (KV:401), but a fresh
  block is given out for an item of any size (KV:196): the model stops at `overrun`.
- A buffer of 4095 bytes is sent to flash as a whole sector (`ota_demo.c:136`), which
  shifts the rest of the image by a byte, and the final verification rejects it.
  `GoodDownload` says how far this reaches: whatever the lengths of the callbacks, no byte
  is lost or doubled, and the image verifies if no sector was written short.
- "retry if something is wrong" (`ota_demo.c:297`): an error before the first sector
  ends the task (`NetError`).
- "The caller must make sure the buffer contains at least one character"
  (`fifobuf.c:103`): two tasks in `txStart` may both find the one byte; the second
  pops nothing and sends a NUL byte that nobody wrote.
- `serial_putchar` reports a byte as sent that was dropped, when other tasks filled the
  ring again behind its `txStart` (`Conserved` counts it under `dropped`).  A byte that
  the UART does not take in time is gone as well, and `txStart` goes on with the next
  (`hal_uart.c:275-280`, counted under `lost`).
- `ln_kv_set` accepts an empty value (KV:1415), and `kv_item_hdr_verify` refuses the item
  it wrote (KV:394); the model has no empty values.
- `dhcpd_api.h:38` says to call `dhcpd_curr_config_set` before the start; the start
  overwrites what it set.
- A station that leaves before it has an item makes `dhcpd_ip_release` write through
  NULL (`ReleaseSet` lets the write change nothing).  A REQUEST answered after its
  station was released leaves the item allocted for good.
- `GOT_IP` handled after `STA_DISCONNECTED` leaves the DHCP status set with the link
  down.  A client bound before `tcpip_dhcpc_start` registers its callback has an
  address, and the link stays down.  With a static address the manager posts to its
  own queue and waits for itself when the queue is full.
- Smartconfig stays on a wrong channel when the timer fires between the last lead frame
  and the call that stops it, or when a stray completes the lead code; with sizes mixed
  from two sessions it never completes; the acknowledgement may carry the random byte
  of an earlier session; and after a start that failed the application waits for ever.
  `Converges` says what it assumes of these.

The passing runs say how far each defect reaches: `kv_crash` shows that one power
failure never hurts, `kv_cycles` that outside the window of `kv_lost`
completed calls survive two and that no write ever goes to flash that is not
blank.  `ota_update` shows that for images of at least a sector
the device stays recoverable, that a download that spills over its partition reaches no
further than the larger of the two partitions lets it (`ReachBounded`), and that no damaged
application is started; the theorem `OnlyWholeStarts` says the last also after
`ota_stale`.
`network` shows that an address in use is given away only after one of two races with
the release (`ReleaseRight` names them), and `smartcfg` that the count of half words agrees
with the marks whatever goes astray, that a channel once chosen is kept, and that the
phone's frames lead to a connection unless the lead code itself went wrong.

## 5. Proofs

`NvdsProofs` proves, for every number of fields and every set of values:

- `TypeCorrect`: `Spec => []TypeOK`;
- `ReadsWhole`: `Spec => []NeverTorn`, no read returns a sector that was erased or
  filled only in part;
- `Invariant`: `Spec => []IInv`;
- `Refinement`: `Spec => AtomicRecord`, NVDS implements the atomic record.

`NeverTorn` is not inductive: it needs that the sector being written is not the
one being read (`TargetOk`), that everything before the copy position is in
place and everything behind it erased (`CopyOk`), and what is on flash when
neither sector is flagged (`AreaOk`: then sector 2 is read if its magic word is
there, so a formatting that was cut must not have left one).  `IInv` is the
conjunction; `InvStep` takes the actions one by one.  Two facts carry most cases:
`TargetNotRead`, writes go where no reader looks, and `ReadStable`, so the
record does not move.  In the refinement, filling the target is stuttering
(`FillIsStutter`) and exactly one of `FlagErase` and `FlagSet` is the abstract
`Apply`.

Assumptions, all in `Nvds`: at least one field, the version among the fields, `Blank` and
`Torn` different from every value.

`OtaProofs` proves, for any set of images, any sizes of sectors and partitions, any
split of the data and any number of power failures, when every file is at
least one byte short of a sector long (`LongFiles`: `ota_stale` shows what
happens otherwise):

- `Invariant`, `TypeCorrect`: `IInv` and `TypeOK` are invariants;
- `AlwaysRecoverable`: `Recoverable` is, so no power failure bricks the device;
- `ImpossibleBranches`: the branches marked impossible are not entered;
- `MovesForward`: `CommitsForward` holds;
- `OnlyWholeStarts`: `StartsWhole` is an invariant; this one does not need `LongFiles`;
- `DownloadsWhole`: `GoodDownload` is, for any files and any callbacks;
- `ReachLimited`: `ReachBounded` is, for any files and any callbacks.

`IInv` has three parts besides the types.  `Waiting`: a download that waits is
whole, of a supported kind, newer than the application or already restored; with
none waiting the application is whole.  `Restoring`: the application is overwritten
only while a download waits, and what has been copied is that download.
`Downloading`: no download runs while one waits; `dl.sect` full sectors took at least
`SectorSize - 1` bytes each, which bounds the sector index; and a positive
precheck result is about the file whose first bytes are in sector 0, except
before the first sector of a retry, when nothing has been decided yet.  That last
clause is where `LongFiles` is needed.  `OnlyWholeStarts` has a small invariant
of its own (`WholeInv`).

The two results about the data need neither `LongFiles` nor anything of the lengths that
the callbacks deliver.  A buffer that is one byte short of a sector goes to flash
(`ota_demo.c:136`), so a sector holds `SectorSize - 1` or `SectorSize` bytes of the
file.  `FileInv` follows the bytes: the sectors before `dl.sect` hold the file from its
first byte to `dl.from` (`Chain`, which also says that they begin at multiples of the sector
size while none was short), the buffer and the rest of the callback's data hold it
from there to `dl.pos` (`Tracked`), or the precheck refused the file and its result is
negative (`Refused`).  From the chain `dl.sect * (SectorSize - 1) <= dl.from`, and no
sector but the first is written without a precheck that passed (`SectorWithin`): that
bounds the reach of a download.  `InsideOta` itself is not a theorem, `ota_spill` refutes
it.  The assumptions on the constants are
`OtaConstants` (in `OtaImage`) and `OtaEnv` (in `Ota`): lengths are those of the
header, and the modelled flash is long enough for every file, so that a write
behind the partition is a state of the model and not an error of it.

`ConsoleProofs` proves, for rings of any size from two cells on:

- `PushAppends`, `PopTakesFirst`: the ring is a queue; push appends to the
  sequence it stands for and pop takes its first byte;
- `SerialNeverStranded`: with any number of tasks on a port, a byte in the transmit
  ring always has a task that will send it;
- `ConsoleTransmits`, `ConsoleNeverStranded`: the console is such a use of the port
  (`Spec => SerialSpec`), so the same holds for it;
- `SerialConserves`, `ConsoleConserves`: `Conserved`, every byte written is in exactly
  one place until it is on the wire, dropped by the push on a full ring or lost by the
  driver that gave up, on a port of its own and in the console;
- `Types`, `NeverReadsEmpty`, `LineStable`: `TypeOK`, `NoEmptyRead` and
  `CmdLineStable`, for any number of received bytes;
- `LinesExact`: `CommandsExact`, for any number of received bytes and lines.

`NeverStranded` is inductive with the types: a task that pushes goes on to `txStart`
and stays there, because whatever it loads afterwards is not stale in the dangerous
direction, and a task that leaves has compared values that were equal at its second load.
For `NoEmptyRead` the invariant says what the console task knows from its first load
(`RxKnown`: while the ring is empty the value loaded is that of both indices, so
the second load cannot differ; a flush is always followed by the new byte), that the
ring and the byte in hand are received bytes and not the NUL of an empty pop
(`RxReal`, `ChReal`); for `CmdLineStable` where the line is between the
two tasks (`Handshake`: message in the queue, AT task busy, or semaphore given, exactly
one of them while the console task waits).
`Conserved` adds up cardinalities, so its proof is about how one push or pop moves
one byte from one of the sets to another (`PlacesPush`, `PlacesPop`).  `CommandsExact` speaks of
lines that were executed long ago; the invariant `FlowInv` follows the bytes to there:
every byte carries its place in `received` (`Numbered`), the ring, the byte in hand and the line
being collected continue one another up to the last byte received
(`FlowIs`, `LineIs`), and no line ran past its first CR LF (`Cut`).

`SmartCfgProofs` proves, for any sessions and sizes, any number of channels and strays:
`Types`, `Marks` (`MarksCounted`), `Channel` (`StaysTuned`) and `HopTimer`
(`TimerSafe`).  The invariant adds four facts: before the lead code is complete
nothing was stored (`BeforeLead`), the announced number of half words is at least one
(`ExpectSome`), when the timer may run the control block exists and hopping
is marked (`TimerKnown`), and behind a complete lead code the timer is stopped or the call
that stops it is still to come (`Tuned`).  The assumption on the constants, `SmartCfgAssumption`, says
that a session's sizes are those the phone may send.

`NetworkProofs` proves, for any number of stations, addresses, joins and events and
any depth of the queue: `Types` (`TypeOK`, which also bounds the queue),
`OneItemEach` (`OneItemPerStation`), `LeasedToUser` (`Leased`) and `ReleasesRight`
(`ReleaseRight`). `Leased` alone is not inductive. The invariant says what the
server knows between its steps: the item it chose is the only one that can name the
station (`Chosen`) and nobody else uses it (`ChosenFree`); a station that is bound
has no REQUEST under way for another address, and sends nothing while an answer to
it may come (`Requests`), which is why a NAK never frees an address in use; an item
about to be acknowledged is allocted (`AckedKnown`); and before the access point is
up there is neither server nor station (`Cold`), so that `dhcpd_start` resets
nothing in use. All of it holds until a release comes too early.

`LinkProofs` adds `LinkTells`: `LinkTruth` is an invariant, for any number of connections
and any depth of the queue.  The messages about the connection alternate wherever
they wait, in the manager's hands, in the queue or in the library's: from the side of
the interface they lead to the state of the library (`InOrder`, a walk along the queue).
The rest says where the manager is with its message and how the lease of a link
comes to the DHCP status.

`LnKvProofs` proves, for any keys, values, numbers of blocks, sizes and power failures at
any step:

- `KvTypes`: `TypeOK`; in particular no search returns a block that is not one;
- `KvPacked`: `Packed`, no header is ever written over bytes that are not blank;
- `KvIndexExact`: `IndexExact`, the index describes the flash between calls;
- `KvItemFits`: `ItemFits`, nothing is written over the end of a block.

All four come from one invariant, `KvInv` (`KvAlways`).  It says of every block that its
items lie back to back (`LaidOut`) and that its index entry describes it
(`Indexed`), except for the block that the step in progress has changed on
flash and not yet in RAM (`Exempt`); that counters and flags of the index agree
(`RamOk`); what the boot scan has not reached yet (`Scanning`); where the item being saved
lies (`Setting`); and of a garbage collection that its copies reach no further than the
items they are copies of (`Moving`): an item that is skipped or shortened moves the
rest down, none moves up, so what fitted the source fits the destination.
The last point also covers torn items, which are copied as they are.  A
free size below that of a header is not trusted by the code and need not be exact.
The assumptions are `KvSizes` and `KvEnv`; `ItemFits` needs besides that every
item fits a blank block (`FitsBlank`).  `ln_kv_set` does not test that, it bounds
`value_len` only by 65535 (ln_kv.c:1416): it is an obligation of the caller.

`KvWorkspace`, in the same module: `WorkspaceKnown` is an invariant, for any sizes and any
number of power failures.  It rests on two more invariants.  `MarkInv` says that a block
without its magic word is blank (`Formatted`) and which blocks may carry an open
`gc_src` or `gc_dst` mark at each point of a boot, a call and a collection (`Marks`).
`IndexInv` says, as long as no power failure came in the window, that every block
with room is known to the index as fresh or inuse (`Scanned`, `Usable`) and that
`num_inuse` is exact until boot ends (`Counting`): so `kv_mgr_workspace_locate`
leaves the workspace unset only when no block is writeable, and this stays so until
a collection sets the workspace.  The marks are needed because boot keeps a marked block
out of the index: outside the window the mark is gone when boot ends.

`LnKvDurable` proves what the store promises about values, for any keys, values, numbers
of blocks and sizes:

- `KvDurableOutside`: `DurableOutsideWindow`, with any number of power failures;
- `KvDurable`, `KvInitSucceeds`, `KvOneCopy`: `Durable`, `InitSucceeds` and `OneCopy`, when
  power fails at most once, at any step, the window included;
- `KvKeepsLastCopy`: `KeepsLastCopy`, also for at most one failure.

All five come from `KvAll` (`KvAllAlways`): `KvInv`, `MarkInv`, `IndexInv` and a fourth
invariant, `DataInv`, about the whole items, which are neither discarded nor torn.  None of
the properties is inductive: they speak of the moment between two calls, and what boot
restores depends on where power failed.  `DataInv` says it for every point of the program:

- between calls there is one whole item per key, with a value a lookup may return
  (`Resting`);
- during a save the old item is whole until the new one is, and the `prev_pos` of the new
  item is the place of the old one, also after a collection moved it (`Writing`; this is
  what `kv_item_fix` is for);
- during a collection every value is outside the destination, and the destination
  holds the copies of exactly the items before the position of the copy
  (`Gathering`), so the erase of the source loses nothing;
- at boot, of two items of a key one names the other as its predecessor, and a
  collection that was cut has a destination that boot finds, by its mark or as the
  only blank block, and can erase (`Rebooting`, `Repairable`).

The last point fails for a destination that carries the done mark of an earlier
collection and was left blank: boot cannot tell it from a block in use (`Doomed`, the state
of `kv_stuck`).  That it takes two power failures is the part `Unspoiled`: before the first
one, only the set that asked for a collection meets such a block, and it writes its item
there before another collection begins.

The assumptions are those of `LnKvProofs`, `FitsBlank`, and `KvVals`, that no value is
confused with a missing key.  At most one failure (`MaxCycle <= 1`) is needed where it is
stated: `kv_lost` and `kv_stuck` show `Durable` and `InitSucceeds` broken by two.

## 6. What is only model-checked, and what is assumed

Liveness (`Returns`, `UpdateInstalled`, `BootsUp`, `CommandsRun`, `Converges`) stays
with TLC: the prover does not treat fairness.

Assumed throughout: an erase of a sector and the program of a mark word or a
header half are atomic, everything else can be cut (in Nvds a field, in Ota
a copied sector); a checksum matches exactly on the data it was computed from;
flash calls do not fail (`FLASH_Program`, `FLASH_Read` and `FLASH_Erase` always
return 0); memory allocation succeeds; NVDS has one writer at a time; images are
well formed, so their decompression succeeds; the APP partition is large
enough for the images in it; the owners of the partitions behind OTA do not write while
a download runs.  Loads and stores of a word are atomic and in program
order but for the two loads of `fifo_isempty`, whose order C leaves open; FreeRTOS
queues and semaphores do what they promise; the timer task has the highest priority; the
checksums of smartconfig tell sessions apart, which only `Converges` uses.

## 7. What is not modelled

XZ decompression is a vendored decoder, and so is `airkiss.c`; the AT parser and the
commands, system parameters, soft AP provisioning and the HTTP client are string
handling around calls of the other parts; ping, iperf, statistics and the reboot trace
only report; drivers are register access; FreeRTOS, lwIP, mbedTLS, cJSON and the cloud
SDKs are third-party code and most of the repository.
Inside the modelled parts: empty values and memory exhaustion in the KV store (bad and
hanging blocks), `ln_kv_deinit`, a second NVDS writer; `serial_purgeTx`, `serial_flush` and the
close of a port, which nothing calls; the start of the AT tasks; the layout of
DHCP packets and `dhcpd_curr_config_set`; the manager's table of callbacks; a second start
of the DHCP server, which nothing makes.

## 8. Plan

In this order; the first eleven lines are done.

1. `LnKvLayout`, `LnKv`: the store everything else relies on.
2. `NvdsStore`, `Nvds`, `NvdsProofs`: the atomic record the update relies on.
3. `OtaImage`, `Ota`: boot agent and download over one flash.
4. `OtaProofs`: `TypeOK`, `Recoverable` and `CommitsForward` for images of at least a
   sector, any number of power failures and any sizes.
5. `Fifo`, `Serial`, `Console`, `ConsoleProofs`: the rings, their users, the lines.
6. `Dhcpd`, `WifiManager`: the pool and the manager that releases into it.
7. `SmartCfg`, `SmartCfgProofs`: provisioning over the air.
8. `NetworkProofs`, `LinkProofs`: `OneItemPerStation`, `Leased`, `ReleaseRight`, `LinkTruth`.
9. Proofs about the update: `ReachBounded` and `GoodDownload`.
10. `LnKvProofs`, `LnKvDurable`: the properties of the KV store but `Returns`.
11. `Conserved` and `CommandsExact` of the console.
12. KV: memory exhaustion during collection.  NVDS: a second writer.
13. `FlashErase`: the split of a range into 4 KB and 32 KB erases (`hal/flash.c`)
    against the reference "exactly this range".
