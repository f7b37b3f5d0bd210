# Formal models of the S907x WiFi SDK

This directory holds TLA+ models of the open, first-party code of the S907x SDK
(`src/code`): a FreeRTOS firmware for a Cortex-M4 WiFi chip with an AT command
shell, a DHCP server for the soft-AP, over-the-air updates with two firmware
partitions, a ping service and ring buffers for the UARTs. TLC checks the models
on small instances; TLAPS proves the main safety results for every value of the
constants. `PROJECT.json` maps every definition to the lines it models and lists
runs, mutants, hazards, findings and theorems.

Contents: [1 the system](#1-the-system), [2 plan](#2-plan),
[3 DHCP server](#3-the-dhcp-server), [4 rings](#4-the-ring-buffers),
[5 boot parameters](#5-boot-parameters-and-run-mode),
[6 download](#6-the-ota-download), [7 ping](#7-ping),
[8 AT interpreter](#8-the-at-interpreter), [9 HTTP client](#9-the-http-client),
[10 thread table](#10-the-thread-table),
[11 runs and bounds](#11-runs-bounds-and-fairness), [12 proofs](#12-proofs),
[13 limits](#13-only-model-checked-and-not-modelled).

## 1 The system

### Parts

| part | source | state it keeps | operations | what is hard |
|---|---|---|---|---|
| DHCP server | `net/dhcps` | address table (latch bits, MAC per host), one server-wide message state, one pending offer, one requested address, pool | packet handler (tcpip thread), init/deinit/range/pool (application) | exchanges of several stations interleave over one pending offer; restarts keep some statics and clear others; words of 32 bits |
| rings | `utils/RingByteBuffer.*`, `utils/RingBuffer.h` | array, two indices, wrap bits or free-running 16-bit counters | push, pop, unpush, unpop, clear | full or empty, wrap of the counters |
| boot parameters, run mode | `atcmd/at_test/ota_test.c`, `utils/utils.c` | two flash sectors, two firmware partitions | update, first boot, mode switch; bootloader | power cut between erase and write; a failed write |
| OTA download | `ota_test.c`, `utils/ota_hash.c` | header, sector buffer, offset, static skip count | take a piece of the file, skip, write, finish, check | every split of header, image and sector over the pieces; retries |
| ping | `net/ping/ping.c` | a flag, two semaphore handles, a thread | start, stop, the thread | start and stop against a thread of lower priority |
| AT interpreter | `atcmd/at_cmd.c` | line buffer, counting semaphore, command list, mode | receive interrupt, task, add/remove | the interrupt against the task; commands that never return |
| lwIP port | `lwip_v1.4.1/port/sci/freertos/sys_arch.c` | thread table, mailboxes | thread new/delete, post/fetch | critical sections that start too late; a thread that runs before its entry |
| HTTP client | `net/httpc` | socket, kind and length of the response, what is left of a body or chunk, whether there is more | connect, request, receive a piece, close | the network cuts a response anywhere; the peer closes or resets; pieces, chunks and buffers end at different places |
| DHCP client driver | `net/dhcpc/dhcpc.c` | a local state | one polling loop | a disconnect at the same time |
| start-up | `startup/system_start.c` | none | tasks, order of initialisation | order |
| HAL, driver, `os_api`, bootloader | headers and binaries | – | – | external |
| FreeRTOS, lwIP, mbed TLS, MQTT, CMSIS | vendored | – | – | not this project's |

### How they interact

* The AT task (priority idle + 2) runs every command to its end: the update,
  `ping_init`/`ping_stop`, and before any command `mode_switch_hdl`. An update and
  a mode switch therefore never overlap.
* `wlan_task` settles the boot parameters (`ota_init_boot_params`), starts lwIP and
  looks at the run mode.
* The ping thread (idle + 1) is below the AT task, which can stop it between any
  two statements but never the other way round.
* The DHCP server's handler runs in lwIP's tcpip thread; its configuration calls
  come from application tasks.
* The update takes its bytes from the HTTP client in pieces of 2047 bytes
  (the response buffer less its terminator) and writes flash through the HAL.

### What makes each part correct

* DHCP server: an acknowledged address is latched and stays so; no two stations
  are bound to one address; the server's own address is never granted; a station
  eventually gets one.
* Rings: a bounded queue, in order, nothing lost or seen twice.
* Boot parameters: at every instant, what the bootloader may start is whole; an
  update never touches the running partition; the run mode is the one asked for.
* Download: only the image built for the target partition is ever accepted, and a
  good file is.
* Ping: one sender; a stop returns, and then its ping is over.
* AT interpreter: each announced line is executed once, unmixed.
* lwIP port: the thread table holds exactly the living threads, each once.
* HTTP client: the pieces are the body, a success is all of it; every receive ends;
  every socket is given back.
* DHCP client: an address, a static fall-back or a stop.

## 2 Plan

1. (done) `AddressBook`, `Dhcps`, `DhcpsClients`: the server, its promise, its stations.
2. (done) `BoundedDeque`, `RingByteBuffer`, `RingBuffer`.
3. (done) `OtaBoot` and `OtaStream`: what is in flash, and how it gets there.
4. (done) `Ping`.
5. (done) `AtCmd`: interrupt, line buffer, task and command list.
6. (done) `Httpc`: receive and retrieval over a TCP stream that is cut, closed or reset.
7. (done) `ThreadRegistry`, `SysArch`: the thread table under preemption, as a set.
8. (done) Proofs of every safety property.
9. (done) `PieceSource`, `OtaLoop`: the client and the update meet at one contract, which
   `OtaLoop` implements; `OtaStream` takes the lengths of its pieces from it.
10. (done) `LineQueue`: what the AT interpreter promises a host that waits.

Left: `Dhcps` with init and deinit preempting the handler, for which the mutex of the
binary `os_api` must be assumed.

Modules to be proved about have no `RECURSIVE` operator, named assumptions and
one action per operation.

## 3 The DHCP server

`Dhcps.tla` is `code/net/dhcps/dhcps.c`. The table is the set `latched`, the MAC
array, and `Range5` for the word whose mark never works. One action per message
type and state (`Discover`, `RequestOffered`, `RequestIdle`, `DeclineOrRelease`,
`OtherMessage`) sits inside `Packet`, the whole receive handler, including the
reply it sends; the configuration calls are `DhcpsInit`, `DhcpsInitNoPcb`,
`DhcpsDeinit`, `DhcpsSetIpRange`, `DhcpsSetAddrPool`. An address is a
(subnet, host) pair; nothing else of a packet matters but its type, MAC and
options. The shift by -1 in the lookup and by 128 or more in the mark are
undefined in C and modelled by the outcomes the build can produce (`MaybeHits`,
`Range5`).

`AddressBook.tla` is what the server promises: addresses are noted and never
un-noted in a session. `ImplementsBook` is the refinement.

`DhcpsClients.tla` composes the unchanged handler with stations that discover,
request, renew, inform, reboot and lose packets. `ConflictNeedsAnInform`,
`BoundIsLatched` and `EventuallyBound` are about the whole; the first two except the
fifth word, whose addresses are never latched.

A finding is the run `dhcps_fifth_word`, which TLC must find violated: an acknowledged
`.129`–`.160` is not latched. `NeverGrantsOwnAddress` excepts a session in which an offer left
over from an earlier configuration was acknowledged (`staleAck`), and nothing else. `KnownClientKeepsAddress` excepts the holder of a multiple of
32, whose bit the lookup seeks in the next word (`MaybeHits`).

Two more things the model knows of. An INFORM of a bound station while an offer is pending
makes the server offer that station's address, and a delayed REQUEST of another then takes
it: `ConflictNeedsAnInform` says that nothing else gives two stations one address (without
its premise TLC finds the conflict in seconds). And two stations the server knows (a lost ACK
is enough) that start over together can keep replacing each other's pending offer for ever:
`EventuallyBound` is therefore about fresh stations and no losses; with a loss or a reboot it
does not hold.

## 4 The ring buffers

`RingByteBuffer.tla` has the indices and the two wrap bits of the C structure,
`RingBuffer.tla` the free-running counters of the macros, modulo `CounterMax`.
Both implement `BoundedDeque.tla` (`ImplementsDeque`). A caller checks for room
before a push and for content before a pop, as the headers ask.

The item ring's size need not divide the range of its counters (`Divides`): the UART headers
declare rings of 3 (`code/atcmd/at_esp/wlan_uart_utils.h:10`). Then the counters do not wrap at a
slot boundary: slot 0 follows slot 0, and a live item is overwritten. `ImplementsDeque` says that
this is the only way to fail: a ring whose size divides the range is the queue in every step,
another in every step that does not leave the write counter wrapped and the read counter not
(`Straddles`). It is proved for every size; the run has a size that divides.

## 5 Boot parameters and run mode

`OtaBoot.tla` has the parameter sector (`upg_addr`, `orig_addr`, `boot_addr`, the
signature), the run mode word, what each partition holds, and which one is
executed. Every write of a sector is `Flash`, `EraseSector`, `WriteSector`: the
steps of `flash_write_core`; `PowerCut` may come between any two. The actions are
named after the functions. Each call that needs a sector buffer may find none.

The bootloader is a binary. What is assumed of it is what `ota_init_boot_params`
compares afterwards: it starts `upg_addr` or falls back, and stores which in
`boot_addr`; with no original address it starts `FLASH_OTA1`, the partition
`ota_init_flash_params` takes for the original one then. It may write the sector
itself and be cut. It need not check an image: the properties hold for either choice.

* `EveryBootChoiceIsWhole`: at any instant, every partition the bootloader may
  choose if power is cut now is whole.
* `TargetIsSpare`: an update erases only the partition that is not running.
  What its choice of the target relies on, `OriginalIsRunning`, is no property of a run
  but part of the proof (section 12).
* `ModeIsAsAsked`, `ModeIsOldNewOrMp`: the run mode after switches and cuts. The
  erased word is the mask of manufacturing mode, so a cut write lands there.

`unsaved` excepts one case, which is real: when `ota_init_boot_params` gets no
buffer, the failure is only logged, the parameters still name the old partition as
original, and an update started in that boot erases the running one. `excused`
excepts a mode switch that was cut or got no buffer (`set_s907_run_mode` returns
success regardless).

## 6 The OTA download

`OtaStream.tla` follows the bytes of an update file, named by their place in it,
through `ota_skip_and_get_ota_header`, `ota_write_flash_dual`, `ota_write_flash`
and `ota_finish_write_flash` into the partition, over any number of attempts in
one boot. A header collected at a place that is no header's says anything (`Junk`).
`Passes` is what `ota_check_image` compares, with a digest that tells any two images apart; the
check may also get no memory, and then fails like a wrong image (`starved`). The pieces are as
long as the contract with the client says (section 9).

* `VerifiedIsTheTargets`: whatever the skip did, only the whole image built for
  the target is accepted.
* `StoredIsAPrefix`, `GoodFileVerifies`: the bytes are where they should be, and a
  good file is accepted, but for `SkipAstray`, the two ways the skip of the first
  image fails: its static count is left over from an earlier attempt in this boot,
  or a piece of the file ends exactly where the image does. In the second case the
  code goes on before the response buffer; the model stops there (`"wild"`).
  `GoodFileVerifies` also excepts a file whose length is a multiple of the piece: its last
  piece is full, so the client says there is more; the length left, 0, is then taken for
  a first pass (`ota_test.c:573`) and the whole length counted again; and one whose check is
  starved.
* `ProgrammedOnce`: unless the skip goes astray, flash that holds something is not written again
  before it is erased: each sector goes out once, and the zeros behind the image over none that
  a piece completed. Astray, a header of the other partition may be stored under, and a second one
  behind it.

Of `OtaStream`, `OtaBoot` uses that a verified partition is whole.

## 7 Ping

`Ping.tla` has the flag, the semaphores of every start, the AT task in or out of
`ping_stop`, and each thread's place. What the AT task does up to its next wait is
one step, since its priority is the higher; a thread's statements are steps.

* `OneSender`, `StoppedIsOver`, `ZeroOnlyAtFirst`, `StopEnds` (liveness).

`hasty` excepts a start between a thread's last two statements (flag cleared, wake
not yet sent): the old thread then wakes the new ping's stop, which frees
semaphores in use. `failed` excepts a ping without thread or socket, which nobody
wakes: `ping_stop` then waits for ever.

## 8 The AT interpreter

`AtCmd.tla` has the one line buffer, the counting semaphore the receive interrupt
gives, the task's copy of the buffer, the command list, and start-up and exit
statement by statement. The interrupt comes between any two steps. A line is its
number; it arrives in two halves and is copied in two, so that a copy can be mixed.
The list is a sequence, and `wl_list_add` what the linked list does with a node that
is in it already: it becomes the last, and what was behind it is reached no more.

* `ImplementsQueue`: to a host that begins no line before the last is copied the
  interpreter is the queue of `LineQueue.tla`: a line is run whole, once, in the order and
  after it came, and at most two wait, one in the task's hands and one in the buffer.
  `hurried` excepts any other host: the semaphore counts its
  lines but there is one buffer, and the lock `at_cmd_hdl` holds is looked at by nobody.
  The queue is then `void` and promises nothing.
  The wake-up of `at_hdl_deinit` is no line, and an idle task runs the last one again
  before it looks at `exit`; the queue has a step for it (`RunBuffer`), taken once.
* `LastLineRuns`: the last line of any host is run, whole, and something is run as
  often as a line came.
* `GivesWhatIsThere`: nobody gives a semaphore that is not there. `crowded` excepts a
  deinit of a busy task, which can see `exit` and free the semaphore first.
* `FindsWhatWasAdded`: the list has the commands of the tables added, and no others but
  those `at_remove_cmd` leaves: its loop never goes on to a table's second command. When
  such a table is added again (`again`), commands of other tables can be lost.
* `DeinitEnds` (liveness): a deinit brings the task to its end, but for a task in a command that
  never returns (`"stuck"`: `ping_stop` or the receive loop of an update, sections 7 and 9) and one
  whose creation failed (`"failed"`), which nobody looks at.

At this commit nobody calls `at_hdl_deinit`, and the SDK's own commands are in the two
built-in tables, added at start-up; the others stand for an application's, for which the
header declares `at_add_cmd` and `at_remove_cmd`.

## 9 The HTTP client

`Httpc.tla` is the receive half of `net/httpc` for its two kinds of caller: `httpc_common`
(one piece, then close) and the loop of `ota_http_download_new_fw` (`Again`). The request
is one step. A response is a sequence of tokens, and every `httpc_recv` takes as many as
the network happens to have brought: the first line, the header loop (`HeaderReceive`,
`HeaderEnd`, `HeaderLine`), the raw copy until the peer closes, the chunk sizes and the
copy of a chunk or of a body of known length are steps of their own, since each waits for
the network. The peer sends any beginning of its response, stays or closes, and may reset.
A line is two tokens, its text and its end, so a CR and its LF are never parted; a header
line keeps only what the parser makes of it.

* `PiecesAreTheBody`: what the caller has been handed is the beginning of the body, and a
  piece that says there is more is full.
* `OkMeansWhole`: a success is the whole response, with its own code.
* `ErrorsHaveAReason`: where the network cuts a response does not decide whether it is
  refused, but for a first line that did not come whole.
* `ReceiveEnds` (liveness): a response that is sent whole is received.
* `SocketsComeBack`: the sockets open are those of the updates that got one, which nobody
  closes, and that of a request under way.

What they except is what the code does otherwise, and each exception is needed, which TLC
shows when it is taken out. `stale`: `is_more` of a response that was not read to its end
is left for the next request of that client. `Overflows`: when a piece is full in a chunked body,
what the local buffer still holds is lost. `sent = 0`: a peer that closes without a byte
is a success with the buffer and the code of before. A body that ends with the connection
may be cut unseen, as HTTP has it. A peer that closes early in a header, in a body of known length or before
a chunk's size, or resets while the size is awaited, leaves the caller in a loop.

`OtaLoop.tla` extends `Httpc` with the locals of `ota_http_download_new_fw`. The loop tells the
length of a piece from what is left of the response before and after the receive
(`cur_data_len`), and gives so many bytes of the response buffer to the flash.

It adds nothing to the client and keeps it from nothing (`UpdateSpec` implies `Spec`, which is
proved), so the run `httpc` checks both modules at once.

* `PiecesAreInPlace`: these are the bytes the buffer holds, and the ones that follow in the
  file, until all of it was given.
* `ReceivedIsAll`: a download is taken for one only if it was the whole file; a file whose
  length is a multiple of the piece is not, though it was received (`ota_test.c:573` again).
* `ImplementsSource`: the contract below.

`PieceSource.tla` is what client and update agree on: a file of known length comes in order, in
full pieces but the last, until the connection breaks. `OtaLoop` implements it with what is read
from the network. `OtaStream` is driven by it: the length of each of its pieces is the
contract's `NextLen`, for a file of its own length, so whatever it does is done with the pieces the
client is shown to deliver. The last writes of the flash, which may fail, are left to
`OtaStream`: `received` is the result if they went well. A response without a length has no
number to subtract: `cur_data_len` may then be -1, which the write takes for a length, and
the final comparison refuses the download (`ReceivedIsAll` holds for these as well).

## 10 The thread table

`SysArch.tla` is the table of `sys_arch.c` with `sys_thread_new` and `sys_thread_delete` called
by any tasks, those in the table included: the test of `s_nextthread`, the creation, and the
critical section are three steps, of a deletion the test and the critical section. A handle
may be given out again after its thread is gone. The model stops when an entry has been
written behind the table, since what lies there is the linker's choice.

`ThreadRegistry.tla` is what the table promises: a set of threads and how many more it has room for.

* `TableIsExact`: every entry in use is a living thread, once, or the mark of a creation
  that failed; the others are clear.
* `OnlyNewcomersAreUnknown`: a living thread that a deletion would not find is between its
  creation and its entry, or its creator was deleted there (`orphans`).
* `OverflowNeedsARace`: the table overflows only if two tasks were between the test and the
  table at once. That it does then is what TLC shows when `raced` is left out.
* `ImplementsRegistry`: until then it is a set; a failed creation takes room for ever.

## 11 Runs, bounds and fairness

| run | instance | why it is enough |
|---|---|---|
| `dhcps_server` | 3 clients, 2 subnets, hosts 31–33 and 64 | own address, pool and exhaustion, both sides of a table word; each server address is a lease of the other subnet |
| `dhcps_fifth_word` | 2 clients at the edge of the fifth word | the finding |
| `dhcps_overlap` | 3 stations, a loss, a renewal, a reboot, an INFORM | an offer can be replaced and the replaced one still claimed |
| `dhcps_fresh` | 3 fresh stations, no losses, an INFORM | every overlap of their exchanges; with a lost ACK the livelock of section 3 appears |
| `byte_ring` | size 3 | every start index, wrap and limit |
| `item_ring` | size 4, 4-bit counters | both counters wrap many times; sizes that do not divide the range are left to the proof |
| `ota_boot` | no bound | the state space is finite |
| `ota_stream` | header 2, piece 3, sector 4, partition 8, images of 2–9 | order of the real sizes; image ends at every place in a piece and a sector, and beyond the partition |
| `ping` | 3 pings of 0, 1, 2 requests, 3-bit counters | an old thread, a new one and a later stop |
| `at_cmd` | 3 lines, built-in tables of 2 commands and 1, application tables of 1 and 2, 3 changes; the task is created or not, a command returns or not | two lines wait behind one being copied; a table is added, removed and added again |
| `httpc` | client and loop; local buffer and pieces of 5 tokens, bodies of 0–12 in up to three chunks, 2 requests, 1 socket | lines, chunks and bodies end before, at and behind the end of a receive and of a piece, files fill one piece, two, or a part of the next; a second request finds what the first left, or no socket |
| `sys_arch` | 3 handles, 1 application task, table of 3 | the last slot is taken by two at once, by a failed creation and after a deletion; a thread deletes itself, another, its creator; a handle comes again |

Symmetry of the clients is used in safety runs only. Deadlock is checked except
where the system may stop: stations that are all bound, a verified image (the
device resets), a stop that waits for ever, an AT task that has ended or has no more lines, an HTTP
caller whose requests or sockets are used up, a thread table that was overrun.

Fairness. `DhcpsClients`: the tcpip thread serves a packet that arrived, and a
station keeps retrying (RFC 2131 stations do).
`Ping`: `WF` of the thread, whose waits all have a timeout and which runs when
the AT task waits, and of a `ping_stop` that has been woken. `AtCmd`: `WF` of start-up
and of the second statement of `at_hdl_deinit`, which nothing blocks, and of the AT
task when the semaphore has a count; that a command returns is not assumed (it may get stuck).
`Httpc`: `WF` of the receiving call, which is enabled
only when there is something to take or to be told: the task runs, and what TCP has sent arrives.
No other run needs any.

## 12 Proofs

| module | theorems | from |
|---|---|---|
| `DhcpsProofs` | types, the safety invariants of `Dhcps` and of `DhcpsClients`, `IdleAckOnlyRenews`, `KnownClientKeepsAddress`, the refinement of `AddressBook` | the assumptions of `Dhcps` and `DhcpsClients` on their constants |
| `OtaBootProofs` | types, the three safety invariants, `OriginalIsRunning`, `ModeIsOldNewOrMp` | the two partitions and the erased word are three addresses |
| `RingByteBufferProofs` | types, wrap bits, refinement of the deque | `Size` positive |
| `RingBufferProofs` | types, refinement of the deque | `SizeAssumption`: `Size` is below `CounterMax` |
| `PingProofs` | types, one sender, a stop means over, the divisor | `PingAssumption` |
| `AtCmdProofs` | the refinement of `LineQueue`, `LastLineRuns`, `GivesWhatIsThere`, `FindsWhatWasAdded` | `AtAssumption`: no command is in two tables, or twice in one |
| `SysArchProofs` | the three safety invariants, the refinement of `ThreadRegistry` | handles, applications and the null handle are different; `Max` positive |
| `DownloadProofs` | `VerifiedIsTheTargets`, `StoredIsAPrefix`, `GoodFileVerifies`, `ProgrammedOnce` | `LayoutAssumption` |
| | `SocketsComeBack` | nothing of the constants of `Httpc` |
| | `PiecesAreTheBody`, `OkMeansWhole`, `ErrorsHaveAReason` | `SizesAssumption`: the buffers are not empty, and the local one is no larger than the caller's |
| | `PiecesAreInPlace`, `ReceivedIsAll`, `ImplementsSource` of `OtaLoop`, and that it implements `Httpc` | the same |

Each is an inductive invariant, `IInv`, established by `Init`, preserved by one
lemma per action, and strong enough for the property.

* `Dhcps`: the properties are about addresses granted and offered; what makes them
  inductive is that what was granted is latched (`GrantedIsLatched`), that the table names
  only whom it was granted to (`RecordedWasGranted`), that host 0 is never latched, that the server's own and gateway
  address are latched (or in `Range5`) while it is up. The search lemma says a found host is unlatched and in the
  pool; the lookup lemma that a hit is recorded or undefined.
* Stations: `CInv` says of each station, besides the server's invariant, that what it was
  acknowledged was granted it and, while no INFORM was spent, that it asks only for what it
  was offered, that it is bound only by what it asked for, and that the server has its MAC at
  the address. The packets under way carry the same (`StationInv`). Two bound stations are
  then two MACs recorded at one host.
* Byte ring: the lengths of both sides of the wrap, told apart by the bits (`BitsTellLaps`).
* Item ring: the counters' distance is at most `Size`, which is arithmetic of the counters alone;
  that two items in the ring never share a slot is where divisibility is used, or that the
  counters lie on one side of the wrap.
* Ping: `Threads` (only the last thread may send, old ones are past the flag),
  `Counting` (what is left of each count) and, while no start has been hasty,
  `Calm`: old threads are gone, and a raised wake or a freed semaphore of the last
  ping means its thread is gone and the flag down.
* AT: `Life` ties the semaphore, the armed interrupt and the task's place to the step
  start-up has reached; `Giving` says that a deinit which found the task idle finds the
  semaphore live; `Orderly` counts: lines announced are lines executed, one in the task's
  hands and those of the semaphore, at most one of them uncopied, and says which halves
  of the buffer and the copy are of which line. For a host that waits, `Counted` says that
  whatever came was run, is in the task's hands or is counted by the semaphore, and `Waited`
  that at most one line is not copied yet; a step is then `Come`, `Run`, `RunBuffer`,
  `AskToEnd` or `Hurry` of the queue, or a stutter. The list is a sequence, and taking a
  node out of it a fold over its places: what the fold returns is found by the least place
  at which it would be wrong (`WFMin` of the library), since induction over it is out of reach.
* Boot: what makes "every choice is whole" inductive is what each phase has already
  settled. `Safe` says of a parameter sector that whatever the bootloader makes of it is
  whole; it holds of the stored one, of the blank one that an erase leaves, and (`Writing`)
  of the one about to be written, so a cut at any of the three is harmless. The blank one
  asks that `OTA1` is whole while the sector is written, which follows from
  `Tells` and `Aimed` in each phase that writes one: they tie the running partition, the target
  and the stored addresses to each other.
* Thread table: `SysArchProofs` needs, besides the properties, that the handles on their way into
  the table are alive, different, not yet in it and not on any other's way; a deletion
  preserves it although the caller, or a creator, is the thread deleted.
* Download: that only the target's image passes needs no more than what the header is taken to
  be (`HeaderIsTold`: a header that is none names nothing that passes) and the check itself.
  The prefix and a good file's acceptance need `OnCourse`: after so many bytes of the file, an
  attempt which is not astray is at its start, skipping, or storing, with the skip count, the
  offset and the flash that belong there; `Stored` says that flash and sector buffer together
  are the prefix of the image and erased bytes behind it. What is stored next lies there, so no
  flash is written twice; the extra pass of a file that fills its last buffer stores nothing.
* HTTP: between two requests no socket is the client's, so a new one is on nobody's account.
  For the responses, `ResponseInv` says where in the stream the client is: the tokens in the
  local buffer and those on their way are the ones of the stream from that place on (`At`),
  what was handed over and what the caller's buffer holds are the bytes of the body before
  it (`Given`, `Piece`), and what is left of a body or chunk (`readLen`, `retrieve_len`) ends
  where the header or the chunk's size says (`OnBody`, `InChunk`). A response that is left
  over (`stale`) or overflows is outside of it (`Tame`), as in the properties. Where the
  tokens are (`StreamIs`) is told by the sums of the chunk sizes and by the chunks laid end to
  end; both are folds, so what they return is again found by the least place at which it
  would be wrong (`Ladder`, `UptoIs`, `FlattenIs`).
* Update over HTTP: every step of `OtaLoop` is one of `Httpc`, or stutters there, so `ResponseInv`
  holds. `UpdateInv` adds what the loop has counted: before the next pass `total_recv_len` is what
  was handed over, a multiple of the piece, and `last_retrieve_len` the rest of the file
  (`CountKept`); a response without a length has told none (`NoLength`), and a chunked one without a
  byte hands over nothing (`Empty`). A pass is then the `Take` of the contract (`PassIsTake`).

## 13 Only model-checked, and not modelled

Only model-checked: liveness (`EventuallyBound`, `StopEnds`, `DeinitEnds`, `ReceiveEnds`), which
is out of the prover's reach.

Not modelled:

* of parts that are: packet layouts, option bytes and lease time of the DHCP server (the
  lease is never looked at) and a `dhcps_deinit` in the middle of a packet; MD5; times and
  packet contents of ping, and the heap its semaphores take; how a line is split into a command and its
  values, and the AT pass-through modes, which only the ESP command set enters; the
  single-image OTA path and the ESP command set (compiled out); URLs, the text of a
  request and the TLS transport of the HTTP client; mailboxes and semaphores of the lwIP
  port, which pass each call on to FreeRTOS;
* `dhcpc.c`: a loop around the DHCP client of lwIP, whose state machine is vendored code;
* binaries (HAL, driver, `os_api`, bootloader): only what the open code relies on;
* vendored code. FreeRTOS, two versions of lwIP and of mbed TLS, MQTT and CMSIS are by far most of
  the lines of the repository, so the share of it that the models cover is small;
* the test commands of the shell, each of which passes its arguments to one function of a binary.

To run: `tlc -config X.cfg M` for the pairs in `PROJECT.json`, `tlapm XProofs.tla`
for the proofs.
