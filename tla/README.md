# m3dev: specifications and proofs

m3dev is a debugger for ARM Cortex-M targets: a probe (firmware on a small
microcontroller) that speaks Serial Wire Debug, and host programs that drive it
over USB. These TLA+ modules model the part of it where threads, lost packets,
failing accesses and a running target meet; TLC checks them on small instances
and TLAPS proves the most important results for every instance. Paths below are
relative to `src/`.

## 1. Inventory

### How the parts interact

    console thread --+                                       target
    gdb thread ------+-- q_exec --> usb.c ==USB==> probe  ==SWD==> DP / AHB-AP
    debugger_monitor +      ^                      main.c          FPB, DWT,
                            |                      swdp.c          CDBG_CSR
                       swd_reader <== USB ==        |
                       (replies, async messages,    +-- usb-v1/usb-v2/usb.c
                        SWO data, target console)

Host threads share the *transport* under `swd_lock` and the *target* under
`_dbg_lock` (`debugger_lock`). Everything a command does to the target is a
sequence of transactions; a transaction is one USB packet of messages the probe
executes one SWD access after the other.

### Components

| component | source | state | operations | what is hard | what makes it correct |
|---|---|---|---|---|---|
| host transport | tools/rswdp.c, usb.c, debugger-core.c | `swd_txn_id`, `_data`, `_status`, `swd_online`, `swd_error`, `usb` handle, sequence number | q_exec, swd_reader, swdp_reset, swdp_clear_error, debugger_lock, monitor | three threads and the reader; replies later than their callers; unplugging at any moment; errors latched in the target | a caller gets its own reply; no write through a dead stack frame or a closed handle; no lost wake-up; the link comes back |
| target memory access | tools/rswdp.c, m3debug/main.c | loop of a block transfer; AHB_CSW, AHB_TAR, read buffer, sticky error | swdp_ahb_read/write(32), core registers, watchpoints | auto-increment and its page wrap; posted accesses whose error shows later; failure midway | exactly the accesses asked for; success only if all were made |
| gdb breakpoints | tools/gdb-bridge.c, rswdp.c | fp_addr/fp_state, bp_addr/bp_state; FPB and DWT comparators, DEMCR | Z, z; watch-pc, watch-rw, watch-off, reset | two units of limited size; two owners of one comparator | the core stops where gdb asked and nowhere else |
| run control | tools/rswdp.c, gdb-bridge.c, debugger-commands.c | CDBG_CSR, `swdp_step_no_ints`, F_RUNNING | halt, step, resume, wait for halt; c, s, ?, ^C; the poll of gdb_server | the core runs between any two accesses; the console and gdb both resume it | a step is one instruction; a halt is reported, once it happened |
| gdb packets and console text | tools/gdb-bridge.c | rxbuf, txbuf, receive state, F_ACK, F_CONSOLE | gdb_recv, prologue, epilogue, qRcmd, qXfer | text of other threads in the buffer of a reply; sizes | every packet acknowledged and answered once |
| gdb memory packets | tools/gdb-bridge.c | a 1 KB buffer | m, M, write_memory | odd addresses and lengths | the bytes asked for, no other byte written |
| lkdebug | tools/lkdebug.c | list of threads read from the target | find, fetch, select | a list in a running target's memory, sound or not | the threads there are, each once; none kept after it is freed |
| async messages, SWO | tools/rswdp.c, swo.c | `swdp_targetinfo`, SWO packet state, line buffer | process_async, process_query, process_swo_data | packets cut anywhere; limits | nothing dropped, nothing past a buffer |
| console | tools/debugger-core.c, debugger-commands.c, debugger.c | variables, scripts, frames | commands, scripts, operands | operands read before the lock is taken | a command's accesses are its own |
| flash agents | agents/, debugger-commands.c | a buffer and registers of the target, its flash | setup, erase, write; flash, erase, download, run | a program run on the target, in pieces; it goes on when the host gives up | image written whole or an error |
| STM32 serial boot tool | tools/stm32boot.c | where it is in the exchange with the ROM | erase, flash, exec | late answers; a ROM left in the middle of a command | the same |
| probe firmware | m3debug/ | executor, SWO buffers, serial | usb_handle_rswdp, process_txn, SWD wire | interrupts against the main loop; WAIT answers | a reply for each request |
| older probe | swdp/ | the same for STM32F103 | the same | the same | the same |
| USB device drivers | arch/lpc13xx/usb-v1.c, usb-v2.c, arch/stm32f1xx/usb.c | endpoint states, transfer pointers | ep0, xmit, recv, interrupt | interrupt against main; bus resets | no byte lost or repeated |
| boot loader | lpc13boot/, tools/lpcboot.c (also `dfu`) | GPREG words, flash, timeout | E, W, X, Q, A | power lost while flashing; both ends agree on replies; a killed lpcboot | OKAY means done; the timer starts an image, and only when nobody wants the loader |
| chip support | arch/, board/, libfw/, libc/, include/ | device registers | clocks, pins, SPI, serial, IAP, printing | | |
| small host tools | tools/usbmon.c, usbtest.c, uconsole.c, socket.c, bless-lpc.c, mkbuiltins.c | | | | |
| linenoise | tools/linenoise.c | | line editing, third-party | | |
| build, docs | build/, docs/, Makefile | | | | |

The hazards of each, with the line where each bites, are in `PROJECT.json`.

## 2. Plan

In the order of how much rests on each; all of it is done.

1. `Rswdp`, `TxnCall`, proofs: every other part uses the transport.
2. `AhbTransfer`, proofs: what a transaction does to the target.
3. `Breakpoints`, proofs.
4. `RunControl`, proofs.
5. `Boot`, proofs: the boot loader and `lpcboot` composed, with power loss.
6. `GdbServer` over `LkThreads` and `GdbMemory`, proofs: packets, threads, memory.
7. `UsbBus` with `UsbV1`, `UsbV2` and `UsbStm32`, composed in `Usb`, proofs: the drivers under one host.
8. `FlashTarget` with `FlashAgent`, `Stm32Boot` and `Dfu`, composed in `Flash`, proofs:
   every way to load a target.

`Usb` and `Flash` compose what share a host or a target; `GdbServer` composes
the packets with the walk of the target's list. `Rswdp` implements `TxnCall`,
what a call promises its caller; the modules above it take a call
as one step that succeeds or fails, as `TxnCall` says it may, except
`AhbTransfer`, which opens the transaction itself.

What earlier plans had and no module has, with the reasons, is section 5.

## 3. Modules

### Rswdp, TxnCall, RswdpProofs: the transport

`Rswdp` has the console and gdb threads (`Clients`), `Monitor` and `Reader`.
One action is one critical section of `swd_lock`: `q_exec` holds it across
`usb_write` and gives it up only in `pthread_cond_wait`, `swd_reader` gives it
up around its read. Sleepers on `swd_event` are a set, woken by broadcast; one
packet can be in flight each way (`LinkDepth`), besides the one in `swd_reader`'s hand. A packet carries, besides its
id, the history variable `call`: whose it is, `Nobody` once that caller gave up.
Ids wrap (`SeqMod`); unless `IdReuse`, an id is not taken again while an unread
packet carries it: to take it again needs 65,536 calls during one delay in the code, three here. The USB handle is null, open or dead. Faults, at most
`MaxFaults`: the device is unplugged, a read fails, a write fails before or
after the probe got it, a reply is lost (*runt*). The probe executes requests in order. What
they do to the target's DP is `DpAfter`: while a sticky error is latched every AP access is refused;
an error reply *tells* the host of it; but the probe has done with a write when the DP has taken its
data, so a transaction that ends in one may latch an error *silently*, with status 0, which the next
access will tell. `swdp_reset`, which forgets `swd_error` before each of its transactions,
is part of `debugger_lock` and may be part of any command (`ResetTarget`: attach, and db after a failed read).

`TxnCall` is what a caller may rely on: its request is executed at most once; it
returns the reply, or an error whether or not the request was executed.
`CallsSpec` says every thread's part of `Rswdp` implements it. It is not the
case that an error means "not executed": a reply may be delivered and the link
fail before its caller wakes, and the status is then overwritten.

| run | shows |
|---|---|
| rswdp_locked | one call of q_exec at a time, as under `_dbg_lock`, though the console also reads operands without it (`OneAtATime`): own reply, TxnCall, online only by a fresh answer, no write through a dead buffer or a closed handle, no lost wake-up, and until the first fault no error of the DP that the probe has told of is forgotten |
| rswdp_live | every call returns, every disconnect is acknowledged, the link comes back |
| rswdp_race (violation) | `parse_number` runs before `debugger_lock`: two q_execs share `swd_txn_id` and one takes the other's reply |
| rswdp_query (violation) | the version query is written once and its result ignored |

`swdp_clear_error` forgets the error before its write is known to have been made, so
`ErrorRemembered` ends with the first fault of the link; and it says nothing of an error
latched silently until an access has shown it.

*Bounds.* A client and the monitor are two callers: enough for a race, since a third
would stand where the second does; two faults let a failure fall into the recovery from
another; with three ids a stale packet, the packet of the call under way and the next call have
one each. 4.6 million states, 355,000 in rswdp_live. *Fairness* of rswdp_live: weak fairness of each thread's own steps and
of `swd_reader` (a runnable thread runs), of plugging the device in again, strong fairness of
the monitor's `Lock` (the mutex is contended but given up each time) and of the
probe (a device that is plugged in and out for ever promises nothing). Lost
replies are excluded there: q_exec has no timeout, so a lost reply does leave
its caller asleep with `_dbg_lock` held until the link fails.

*Proof.* `SwdLockSafe` proves the inductive invariant `SwdLockInv`: types, which
thread the shared id and buffer belong to, who may hold the handle, and who may
sleep in which state. The buffer stays live because q_exec leaves its wait only when the status is no longer WAIT, and
`swd_reader` fills the buffer only while it is; that a handle is not used after close needs the two waits of the
disconnect protocol. These hold for every set `BareReads` of threads that
call q_exec without the lock, and with ids reused. Where ids are fresh
(`FreshIds`, the negation of `IdReuse`), `OnlineIsFresh` holds for every `BareReads` too: only the
connection's own query is answered under its id (`QueryInv`).

What a call gets needs, besides, that no two threads are inside q_exec at once (`OneCall`).
`LockSerialises` derives this from the lock where all calls are made under it; the code's
operand reads break it (that is rswdp_race) unless they fall between commands. Over the
behaviours with `OneCall`, `ReplyIsOwn` relates each unread packet to its caller;
`QExecImplementsCall` is the refinement of `TxnCall`, from an invariant that follows a
request through the link, the probe and back (each step of `Rswdp` is, for each thread, a step
of its call or none); `ErrorsAreRemembered` says where the news of an error is, once the probe has told it,
until `swd_error` has it (`Reported`, `Clearing`).

### AhbTransfer, AhbProofs: what a transaction does

One action is one SWD access of the probe, so a failure can fall on any. The
AHB-AP has CSW's increment bit, TAR (which wraps within a page when it
increments), the read buffer of posted reads and the sticky error, which makes
every access fail until DP_ABORT. The bus records each access made; a word is
known by its address. An access that fails on the wire is taken not to be made. A call fails when its
write does or the connection ends (`LinkFails`), and the probe may go on with what it got
(`TimesOut`), up to its end or until something fails; the link keeps order, so the next call's
transaction comes after that.

An address is a word number and, of a block, the `skew` of its first byte. The count of a chunk,
`(0x1000 - (addr & 0xFFF)) / 4`, is 0 for an address in the last three bytes of a page (`ToPage`):
`swdp_ahb_write32` then sends a transaction without data and its loop is where it was, for ever, and
`swdp_ahb_read32` asks for 0 - 1 words, in a field of 16 bits (`ReadCount`), for which the probe's
`txbuffer` has no room (`HasRoom`, `Overrun`). No caller in the source starts a block off a word by
itself, but `do_text`, `do_download` and `do_run` pass on the address they are given. So `OnlyAsked` and
`BlockFits` are about word addresses (`WellFormed`); what the other blocks leave behind is part of every
behaviour, and `SuccessIsComplete` holds of them too.

The runs use pages of 4 words and buffers of 13 with 10 kept back
(`Overhead`, the least for which no transaction overflows; 1024, 512 and 16 in
the code), block starts 0, 2 and 3 and lengths 0, 1, 4 and 7, which include a
chunk cut by the page, by the buffer, by both, and the empty transfer. ahb_calls
checks every sequence of the calls, with blocks on a word boundary and two bytes off it, in 562,000 states. The console's `db` is among them
(`CallDumpBytes`): it passes an AP register number where a memory address is
expected, and so writes word 0 of the target, which no caller asked for; `OnlyAsked` excepts this call, not those after it.

Two observations the properties are worded around. A single `swdp_ahb_write`
can report success although its posted write failed: the error surfaces with the
next access (`SuccessIsComplete` allows exactly this; `write32` is exact because
its trailing CSW restore is that next access). And after a failed chunk CSW keeps
the increment bit; this is harmless because each transaction rewrites TAR and none
accesses one address twice in a row.

*Proof.* `Good`, the inductive invariant, says where in the asked-for list the
probe is for each kind of call (`BlockPlace`, `ListPlace`), that everything before it
was made (`AllMade`), that the host's data agrees (`DataOK`, `CallOK`) and that
a failure stops the transaction (`FailedEnds`), for blocks on word boundaries and single accesses. That auto-increment does not
leave the chunk's page is the lemma `InPage`. `OnlyAskedAlways` and
`SuccessMadeAll` hold for every page size, buffer size, word address and length.
`SuccessAlwaysComplete` adds `Answers`: the words handed out so far are those of the
list's reads, each at its rank among them (`Reads`, a cardinality and not a recursion, so that it can be proved
about), and only the last access can have failed unnoticed. `BlockAlwaysFits` assumes `Overhead >= 10`;
the code keeps 16.

### Breakpoints, BreakpointsProofs

A command holds `_dbg_lock` and only the debugger writes comparators, so a
command is one action; each of its accesses may fail. Addresses count
halfwords: the FPB matches a word and one of its halves. What disturbs the
debugger is counted in `hazards`, at most `MaxHazards`: an access fails, gdb
repeats a request, the console's watchpoint commands use comparator 0, the target
loses power. Until the first of these, comparators stop the core exactly where gdb asked
(`ArmedAsAsked`); after it the code makes no such promise, because the tables live in the
host and nothing restores the comparators. Whatever happens, no address has two slots of
one unit (`NoneTwice`; the console's commands never touch the tables). bp_slots checks both with two comparators in each
unit and five addresses, on both sides of the RAM boundary and two in one word,
which fill and overflow both units, and two hazards, so that the second falls on the
traces of the first. bp_repeat (violation): an address that has an FPB slot, inserted again
while an access of `handle_flashpatch` fails, takes a second slot, in the DWT, whose table alone is then
searched; its removal frees the first of the two. The opposite order, an address the DWT holds, inserted
again when the FPB has room, ends the same way. Left out is DEMCR: `swdp_watchpoint` writes it
with the reset trap only, which turns the fault traps off, against the comment
above it.

*Proof.* The invariant `Agree` relates each table to its comparators and the
tables' union to the breakpoints gdb has; the free-slot search needs the least element of a set of
naturals, from well-founded induction. `ExactlyArmed` needs `Agree` only while
`hazards` is 0 (`AgreeSoFar`); `NoneTwice` is inductive by itself.

### RunControl, RunControlProofs

One action is one access to CDBG_CSR; the core executes, halts at breakpoints
and honours C_HALT between any two. It leaves halt at once when C_HALT is
cleared (within cycles; an access takes a USB round trip). A write may be
*posted* and lost with success reported, which latches the sticky error, or the
*link* may fail whether or not the write was made. The state of `gdb_server` is
F_RUNNING and whether it polls; the console's commands, `maskints` among them,
contend for `_dbg_lock`. `ran` counts instructions since a halted core was released, up to two.

rc_all checks with every command, and two failing accesses of either kind:
swdp_core_step executes one instruction at most; after a success that left no
error latched the mask is as asked, which depends on the last write repeating the
mask, since the result of the first is ignored; F_RUNNING is cleared only for a core that
halts, unless the halt failed (the code answers S05 to ^C even then); a halt is
noticed although gdb is silent and the console uses the lock; and ^C ends a wait
for a core that never halts. Fairness: an access ends, a poll ends by its timeout,
and `gdb_server` gets a lock that is free again and again; nothing is
assumed of the core, gdb or the user. "Noticed" means while the halt lasts: a console command may resume
the core first. `WaitForHalt` follows its two callers: `swdp_core_wait_for_halt` in a plain step and go
ends on a failed read, while `step` with an address goes on unless the DP still refuses. Not promised is anything about stepping a core that still
runs: the code requests a halt, does not wait for it, and writes C_STEP. The state is finite but for
`MaxFaults`; two faults let the second fall on the repair of the first.

*Proof.* The inductive invariant joins the types with three parts: where each
command may be, given what it was asked (`Place`), what the register and the
instruction count can be while a step is on its way (`Stepping`: a core that runs
again has C_STEP set until it has executed one instruction), and what the mask is, first
in the value to be written and then in the register (`Masking`). The second gives
`StepOnce`, the third `MaskAsSet`; `StopsAreReal`, a property of steps, needs the first
two. They hold for every set of commands and faults and any number of these.

### Boot, BootProofs

The boot loader of `lpc13boot`, on the polled driver of usb-v1.c, and `lpcboot`,
which share nothing but a one-packet buffer each way. One action is a packet, an IAP call, or a
step of `main`; `timeout` counts down the 100-frame receives. Lengths count half packets and the
contents of a flash page are the pieces of files put there, so a short receive,
a page cut by the end of the image and a command taken for data show. `handle` is
followed through each reply (`AfterXmit`). At most `MaxHazards` things go wrong: power is
lost, in the middle of an erasure or a programming too; lpcboot is killed or times out; the
bus is suspended; an IAP call fails; the host deconfigures the device.

boot_all checks, over any sequence of commands: OKAY means done and both ends stay in step
(`OkayMeansDone`, `InStep`) through losses of power and a sleeping bus, but not after a killed
lpcboot or a failed IAP call, of which the loader takes no notice; the timer starts only an
image (`ImageStarted`), never when the loader was asked for (`StaysWhenAsked`), and
by itself (`AutoStarts`); a request for the application is spent by one reset
(`RequestIsSpent`), so a crashing application leads back to the loader; and a
command is answered (`Served`). Two hazards let the second fall on what the first left. Two pages
of two packets, a file that ends in the second page with a short packet (and is
too long for RAM) and one of exactly a page cover the ends of a page, of a
memory and of a file. Fairness: the device runs, frames arrive while the bus is awake, lpcboot goes on;
nothing is assumed of its user.

What the model shows and no property claims otherwise: after a loss of power past the
first page the timer starts a partial image, because only its first word is
looked at; after lpcboot is killed replies stay one behind until the next reset, so
a later `erase` may print OKAY early; and the three seconds are counted in
USB frames, so a bus that falls silent after enumeration holds the application
back for good (`AutoStarts` excepts it).

*Proof.* `LoaderInv` says that the timer is stopped from the first command or
request on (`Timer`), that the request for the application is pending only on
the way to the reset that takes it (`Request`), and that wherever the timer
still runs the flash was seen to hold an image (`Seen`). It gives
`StaysWhenAsked`, `RequestIsSpent` and the first half of `ImageStarted` for all
images, memories and timeouts. The rest needs `Typed` and more invariants. `Tracked` holds for
as long as the ends can be in step (`trusted`): it says for each place of the loader what lpcboot is at,
which packets are in the two buffers (`Talk`, `Sending`), and that the pages written and the
packets received are the file's first ones (`Stored`, `Counted`). `Offline` says
what is empty when the device is off. From these come `OkayIsHonest` and `StaysInStep`. `FlashWhole`
says that while nothing went wrong the flash starts blank, is a whole image, or is being
written, by a loader whose timer is stopped; that gives `StartsWholeImages`. `Ranged` bounds pages
and lengths whatever went wrong, and gives `StaysInMemory`: no packet or page is stored
outside the memory its command is for. How the packets of a file fall into pages is
division with remainder, in lemmas of their own (`Divided`, `Split`, `Below`).

### GdbServer, LkThreads, GdbMemory, GdbProofs

`GdbServer` is `gdb_server`'s thread, one action per byte-wise receive, request,
reply, or turn of its loop, between a socket each way and a gdb that follows its
protocol: one request at a time, ^C only while the target runs. `recv` splits and
joins packets (`PollReads` takes one byte or all there is). `tx` is the one packet buffer that replies
and console text share; `print` is where each thread is in
`gdb_console_puts`, which any thread enters during a monitor command, when
`_dbg_lock` is given up. `LkThreads` is the walk of the target's thread list, an access
or a few at a time, over a memory that changes whenever the core runs: two threads
in a sound list, a list with a torn node, one that never comes back to its
head. `GdbMemory` says what m and M do to a memory of bytes when any of their
accesses fails. At most `MaxFaults` things go wrong: an access fails, a packet is damaged, gdb quits,
a console or monitor command interferes. The last is `Command`: whenever gdb_server does not hold
`_dbg_lock`, so during its own monitor command too, a command may start the core, leave it stopped
after it ran or its memory was written, or stop it, and gdb_server is not told.

gdb_all checks the whole: gdb and server stay in step (`InStep`), every packet is one
text put once (`PacketsWhole`), selected threads are of the list in memory now and not of
one that was freed (`SelectionLive`), the threads gdb sees are those on the
target's list (`ThreadsAsInTarget`) as they were after the stop (`FreshAtStop`), an m is answered with
as many bytes as it asks for, up to the limit, and with the bytes it names (`ReadsExact`), an M writes
the bytes it names and no others (`WritesExact`), and requests are answered (`Answered`). What the code does not promise is excused,
and named in each: a ^C that crosses the stop report is answered twice (`late`);
two threads in the buffer at once mix their text; an m that does not start at a
word may end with bytes of a word never read (the length is rounded up, the start
down); a failed read in `write_memory` writes what the stack held; an endless
list, or one that changes because the halt failed, is walked for ever; a packet longer than the
receive buffer, which `PacketSize=2004` invites (:320) and :79 discards, gets no answer; and from a
failed halt, or a command that moves the core while gdb takes it for stopped (`astray`), until gdb next
resumes it or a halt succeeds, `FreshAtStop` promises nothing: monitor go, step or reset do leave
gdb with a list of threads from before.

A reply that fills `tx` is dropped (gdb-bridge.c:113). No text in the model can: the longest reply to m is 2048
characters, a line of console text 256; a thread list of some 900 threads could. A failed read of
VTOR does not end the walk: the list is then looked for from address 0 (lkdebug.c:148), which finds the
same or nothing. The memory an M writes to is not the memory the thread list is in.

*Bounds.* One fault and one line from each of two printing threads; addresses up to 3
and lengths up to 5, so that a request starts and ends at every offset of a word, and a write
has any two of head, body and tail; `MaxRead` one word, so that an m is cut off. 1.3 million states.
*Fairness*: the server and the printing threads run and gdb reads what it is sent; nothing is assumed of
the core.

*Proof.* `WritesAreExact` and `ReadsAreExact` hold for every address, length and
`MaxRead`. They rest on `WriteFacts` and `ReadFacts` about `write_memory` and m by
themselves: head, body and tail of a write are adjacent pieces of the data at
adjacent addresses (`Split`, `Joined`), and each read-modify-write changes its
piece only (`PatchedFacts`). `IoSteps` shows that nothing else touches the record of an access.
`PacketsAreWhole` follows the text through the shared buffer: while one thread was in it alone,
what is there is the beginning of that thread's text. `SelectionIsLive` needs to know when gdb has been
told of a stop, or is about to be (`Told`). `ThreadsAreTheTargets` holds for every list in memory:
`Walking` says that the nodes passed are on the list and none was passed twice, unless the walk
will never come to the head, and `ListIsTarget` what a finished walk has found. `LkThreads` says by sets
when a list comes back to its head (`Closed`, `Within`), as recursion could not be proved about.

`GdbStaysInStep` rests on an invariant of the whole exchange. What gdb_server has not understood
yet (what it has of a packet, of what `recv` gave, of the socket) is one stream of bytes, in
frames, with at most one whole packet, which is what gdb asks; so a request is in one place at a time: on
its way, in hand, running, or coming back. What gdb has still to read holds at most one
message it waits for, which fits what it asked (`Exchange`, `InOrder`). A ^C on its way as
the stop report is sent ends this (`late`). `StopsAreFresh` adds, for each
place of the loop, whether the core may run and since when the threads are read, unless the core went `astray`.

### UsbBus, UsbV1, UsbV2, UsbStm32, Usb, UsbProofs

`UsbBus` is what the three drivers have in common: the host (it reads a
descriptor, sets the configuration, gives up a control transfer and starts over,
resets the bus at any moment, sends full, short and empty packets), the endpoints
of the controller, the interrupts pending, and the program, which calls `usb_recv` and
`usb_xmit` in turn as the probes' main loops do. Each driver module has the actions of its
handler and of its two calls: `UsbV1` is polled, so a pass of its handler is one
step; in `UsbV2` the handler runs as the interrupt and is called as well, each
working from the interrupt status it read; `UsbStm32` is polled too, but a reset disables the
endpoints before it knows, and endpoint 1's toggle bits are flipped, not written. `Usb` runs each.

usb_all checks all three: no packet is lost, repeated or reordered (`Pipes`),
enumeration ends (`Enumerates`), what the host sends is received (`Delivered`).
`Pipes` is about resets that found the driver at rest (`clean`). What the model
shows of the others, and nothing in the source claims otherwise:

- v2: a reset with a packet pending leaves a full packet of nothing (usb-v2.c:523) or a
  call that never ends; a control transfer given up, or an interrupt inside the
  called handler, leaves `in_len` set and the next descriptor is refused; after an
  empty packet endpoint 1 is not armed again (:532).
- stm32: a toggle flipped across a reset arms what it should disarm (usb.c:299, :349); a packet
  received before the reset is handed on after it (:335).
- v1: the host's empty status packet is read as a request (usb-v1.c:274), which does
  no harm, because the words are the last request's or unknown.

Left out are addresses, configurations other than 1, the second endpoint pair (the
same code), timeouts, and that the stm32's read and write of an endpoint register may clear a
flag set in between: there a handler is one step. *Bounds*: two packets a session each way, as
an endpoint holds one; one reset, one given-up transfer. 271,000 states.
*Fairness*: the calls keep polling, interrupts are served, the host does each thing it can.
The run allows deadlock: the host has a last packet.

*Proof.* `PacketsFlow` is `Pipes` for all three, for any number of packets, given-up transfers
and resets at rest: what was sent is what was received and the packet under way (`Flow`), so an
endpoint must be empty when a packet goes in. In v1 the registers say so. In v2 (`OnV2`) two
handlers may have read the same interrupt: once the next packet is in the buffer neither still has to
handle that the last has gone, and what `usb_handle_out` noted is what the buffer holds. As a handler
that finds endpoint 1 disabled, or is told to configure it, would forget packets, nothing may be under way until
the host has configured the device (`Quiet`), which follows the one request from the SETUP latch to its
acknowledgement (`V2Control`). In the STM32 driver (`OnStm32`) the packet under way is in the
buffer or with the call that waits for it (`Held`), and no call writes an endpoint's status while a
reset is still to be handled, so no toggle slips.

### Flash, FlashTarget, FlashAgent, Stm32Boot, Dfu, FlashProofs

`FlashTarget` has the target's flash, eight cells in two or three sectors, each holding
a word of an image, something old, or nothing; and what commands share.
`FlashAgent` is `run_flash_agent` (and `do_run`, `do_download`): a stage for each access whose loss
matters, for many results are ignored; and the agents' functions, which run on the
target meanwhile and go on when the host gives up or is interrupted. `Stm32Boot` is
the serial tool, and `Dfu` is `lpcboot dfu`, each against the loader in a chip's ROM, modelled
from what the tool expects of it. In `Dfu` the image goes to RAM, behind a header.

flash_all runs any two commands through any of the five paths, with two faults:
success means that the image is there, and nothing stale in the sectors that
were erased (`OkMeansFlashed`); no command touches another sector (`OnlyItsSectors`).
Two commands let the second find the target as a failed first left it: a function that
still runs, a ROM that waits for the rest. `lost` marks what the code cannot notice:
when a register write of `invoke` is lost, the core may halt at once where the agent would have
returned, with 0 in r0 (debugger-commands.c:543). A lost reset while
the boot ROM of an earlier command was interrupted is likewise excused (:613). What a core gone wild does to memory
is not followed. The run allows deadlock: commands run out.

What the model has because the code does, and no property objects to: an erase of
length 0 erases one sector of an STM32F (stm32fxxx.c:90); stm32boot sends the first
32 KB of a longer file and says nothing (stm32boot.c:332), and rounds the last
chunk up wrongly, so that the ROM may refuse it (:338); dfu does not wait as long as the
ROM asks and so may fail.

*Proof.* `OtherSectorsKept` is `OnlyItsSectors` for every geometry, command and fault.
`PageInSector` says that a page starting at a multiple of the page size lies in one
sector, `UnitInside` that what an agent's next operation touches is in the sectors of the
cells its call has left (`CoreKnows`), and `GoesOn` that this is so again
after the operation. These cells are the command's own because the host calls with what it
checked after `setup` (`HostKnows`), and a function that goes on after its host
gave up keeps its arguments. A lost register write breaks this; the property
lets such a command touch every cell. The serial tool's RAM commands never reach
the flash (`SerialKnows`), also when their frames are lost or left over; its other
commands are about the whole flash. That a cell has a nearest sector start before it
is the least number principle, from the library's well-founded induction (`LeastOf`).

`FlashedWhenOk` is `OkMeansFlashed`, again for every geometry, command and fault. For an agent
(`AgentOk`), the cells an erase has come past are erased (`Erasing`), and before the place a
write has come to they hold the image (`Writing`); `EraseUnit` and `WriteUnit` say that an
operation that does not fail takes up just where the loop is. A function's return of 0 therefore
means what the host called it for (`Did`), as long as r0, lr and the arguments are those of
`invoke`, no earlier function is left running when a call is set up (`Prepared`), and the boot ROM
was not interrupted (`Ready`). On the serial line an ACK says nothing of what it
acknowledges; it is the answer to the frame sent last because the tool sends a frame only when it has
read all ACKs (`NoAck`), and at most one is on its way while it waits (`AckLast`), although NAKs for
what an earlier run left half sent may still come (`SerialOk`). In DFU the ROM has taken
what the tool has sent, while the handle is that of the device (`SentSoFar`).

Assumed of the constants is that sectors are whole pages, that a buffer is not empty and, for an LPC,
just one page, because its agent programs 4096 bytes whatever it is asked
(lpc13xx_lpc15xx.c); and that what the serial tool reads fits the flash.

## 4. What is proved and what is only checked

Proved by TLAPS, for every value of the constants that the modules' assumptions
allow:

- types of `Rswdp`, `AhbTransfer`, `Breakpoints`, `RunControl` and `Boot`;
- transport: `BufferLive`, `HandleSafe`, `NoLostWakeup`; with fresh ids `OnlineByFreshAnswer` and,
  where no two threads are inside q_exec at once, `OwnReply`, `CallsSpec` (the refinement of
  `TxnCall`) and `ErrorRemembered`;
- memory access: `OnlyAsked`, that success means every access was made, `SuccessIsComplete`, `BlockFits`;
- breakpoints: `NoneTwice`, `ArmedAsAsked`;
- run control: `StepOnce`, `MaskAsSet`, `StopsAreReal`;
- boot loader: `StaysWhenAsked`, `RequestIsSpent`, `OkayMeansDone`, `InStep`, `ImageStarted`, and
  that nothing is stored outside its memory (`WithinMemory`, which no run has);
- gdb: `InStep`, `FreshAtStop`, `WritesExact`, `ReadsExact`, `PacketsWhole`, `SelectionLive`, `ThreadsAsInTarget`;
- USB: `Pipes`, of each of the three drivers;
- flash: `OnlyItsSectors`, `OkMeansFlashed`.

Only model-checked: all liveness (fairness and ENABLED are out of the prover's
reach: `CallReturns`, `DisconnectAcked`, `ConnectionComesOnline`, `GdbTold`, `AttnEndsWait`, `AutoStarts`, `Served`,
`Answered`, `Enumerates`, `Delivered`). Every invariant that a passing run checks is a theorem.

Violated properties state what a comment, message or test of the source says;
PROJECT.json quotes it under "findings".

## 5. What is not modelled

- *Async messages, SWO* (`process_async`, `process_query`, swo.c): sequential parsers whose
  result is text, fed by an external probe, for this repository's probe
  never sends SWO data. Where their packets fall between replies is in `Rswdp`,
  where their text goes in `GdbServer`. Read, not checked: CMD_SWO_DATA falls out of the loop, so
  that messages after it are dropped (rswdp.c:115); `process_query` does not count its
  words down (:140); `console_ptr` is not reset when the line is full (swo.c:42).
- *The console's* expressions, variables and scripts, and its printing commands: sequential
  text processing. What its commands do to the target, and that operands are read before the lock is
  taken, is in the modules above.
- *Probe firmware*: the executor is in `AhbTransfer` and the request loop in `Rswdp`; the SWD wire
  (bits, and WAIT, retried for ever) is inside one access. No build configures its serial port.
- *The older probe* (swdp/): the same protocol, sequentially; unlike the other it does not retry
  WAIT and pads a reply at 64 words. Its USB driver is `UsbStm32`.
- `clear_lk_threads`, which destroys the target's list before a reset, so that no later walk finds an old one.
- Chip support, boards, libfw, build files and register definitions (straight-line device
  set-up, formatting), linenoise (third-party), the small host tools (sequential I/O without
  state).

In the modelled parts: message texts, `swd_verbose`, disassembly, the contents of
registers, and of memory words except in `GdbMemory` and `FlashTarget`.

## 6. Running

    tlc -config Rswdp_locked.cfg MCRswdp        # likewise every cfg with its MC module
    tlapm RswdpProofs.tla                       # AhbProofs, BreakpointsProofs, BootProofs,
                                                # FlashProofs, GdbProofs, RunControlProofs, UsbProofs

`<Module>_<question>.cfg` is run with `MC<Module>`, or with `<Module>` where there is none. Definitions ending in `_bug`
are plausible mistakes; substituted for the definition they follow they break the property
PROJECT.json names, which shows that the property depends on the code.
