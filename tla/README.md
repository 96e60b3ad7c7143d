# A TLA+ verification of Foenix/MCP

Foenix/MCP is the kernel of the C256 Foenix and A2560 computers. It runs one
program at a time on bare metal: a user program calls it through TRAP #15, and
interrupt handlers run between the instructions of whatever is executing. There
are no threads and no memory protection. What is hard about it is therefore of
three kinds: tables that are never cleaned up (channels, file descriptors,
directory handles outlive the call, and often the program, that took them);
data shared between the main program and an interrupt handler (key queues, the
floppy motor's switch-off time, interrupt masks); and devices that time out,
fail or vanish in the middle of an operation.

## 1. Inventory

| Component | State | Operations | What makes it correct |
|---|---|---|---|
| Channel table, `dev/channel.c` | `g_channels`, `g_channel_devs` | `chan_open`, `chan_close`, `chan_swap`, `chan_device`, read/write dispatch | a number in use means one thing; nothing stays allocated that no one holds |
| Open files, `dev/fsys.c` | `g_fil_state`, `g_file`, the descriptor in `chan->data[0]` | `fsys_open`, `fsys_close`, `fchan_*` | two open files never share a descriptor; a failed open gives everything back; closing commits the writes |
| Directories, `dev/fsys.c` | `g_dir_state`, `g_directory` | `fsys_opendir`, `readdir`, `closedir`, `findfirst`, `findnext` | a handle belongs to one scan; handles do not run out |
| Loaders, `dev/fsys.c` | `g_file_loader`, memory being loaded | `fsys_register_loader`, `fsys_load`, PGX/PGZ/ELF loaders | a file that was refused never starts; the file is closed on every path |
| Word ring, `ring_buffer.c` | `buffer`, `head`, `tail` | `rb_word_put` (interrupt), `rb_word_get` (main program) | words come out once, in order; a word is dropped only when the ring is full |
| Keyboards, `dev/kbd_mo.c`, `dev/ps2.c` | scan-code and character rings, modifiers, BREAK flag, make-code state machine | the interrupt handlers; `getc`, `get_scancode`, `break` | the state machine stays in step with the keyboard; no key is stuck or lost |
| Interrupt control, `interrupt.c` | mask and pending registers, `g_int_handler` | `int_enable`, `int_disable`, `int_clear`, `int_register`, dispatchers | an acknowledge loses no other interrupt; a mask change loses no other change |
| Floppy, `dev/fdc.c`, `dev/rtc.c` | motor bit, `fdc_motor_off_time`, the RTC's periodic interrupt, `g_fdc_stat` | `fdc_motor_on/off`, watchdog, commands, read, write, reset | the motor is on when a command runs and is off some time after the last one |
| Hard disk and SD card, `dev/pata.c`, `dev/sdc.c` | controller status, `g_sdc_status`, time-outs | wait loops, read, write, insert interrupt | a ready device is not reported as timed out; a removed card is noticed |
| Block devices and FatFs glue, `dev/block.c`, `fatfs/c256_diskio.c` | the driver table | `bdev_*`, `disk_read`, `disk_write`, `disk_ioctl` | every sector lands where it was asked for |
| Console, `dev/console.c` | escape-sequence buffer and key buffer of a channel | `con_write_b`, `con_read_b`, `con_readline`, `ioctrl` | the escape buffer stays in bounds; a sequence acts once, text passes unharmed |
| Text screens, `dev/txt_*.c` | cursor, region, attributes per screen | put, scroll, fill | the cursor stays in its region |
| Mouse, `dev/ps2.c` | `g_mouse_state`, the pointer's registers | the interrupt handler | packets are put together from their first byte |
| Serial, parallel, MIDI | device registers | open, read, write | none beyond the registers |
| Processes and memory, `proc.c`, `memory.c` | the argument buffer, the running program, top of memory | `proc_run`, `proc_exit`, `mem_reserve` | the arguments fit in their buffer; what a program leaves behind is all that is lost |
| Variables, `variables.c` | linked list on the heap | `var_get`, `var_set` | no block is lost when one does not fit |
| Command line, `cli/cli.c` | line buffer, place in it, history, the key decoder's state | `cli_getchar`, `cli_readline`, `cli_repl`, `cli_rerepl` | the row shows what the buffer holds; a key is understood as the key pressed |
| Boot, `boot.c` | boot choice | boot record checks | the chosen device boots, else the command line appears |

How they interact. A program opens a file (`fsys_open`): a descriptor is
claimed, then a channel, then FatFs is asked; the descriptor's number is kept in
the channel's data block. Reads and writes go through the channel table to the
driver of the record's device, for a file to FatFs, from there through
`c256_diskio.c` and `block.c` to the disk driver, which polls its controller
against the jiffy timer. `chan_swap` exchanges what two channel numbers stand
for, so that a file can take the console's place. Keys arrive by interrupt in a
ring, are made characters by the keyboard driver and fetched by the console; the
command line puts the characters of a key together again, edits its buffer and
tells the screen, through the console's escape sequences, what to show. The
line entered runs a program: `proc_run` copies the arguments, the loader reads
the file, and `proc_exit` starts the command line anew. The floppy's motor is switched off by the
RTC's periodic interrupt while the main program may be anywhere in `fdc.c`.

## 2. Plan

The order follows what every program depends on: first the tables of channels
and files and the queue between interrupt handlers and programs, then the
interrupt controller and the drivers whose state an interrupt or the user's
hand can change in the middle of an operation, then what a user sees.

| Step | Modules | State |
|---|---|---|
| 1 | `Channels`, `FileChannels` (composes the channel table with the descriptors and FatFs's buffering), `DescriptorTable` (its abstract specification) | done; every property of the run proved, the refinement too |
| 2 | `DirHandles`, `RingBuffer` with `WordQueue` (its abstract specification) | done; every property proved, `RingBuffer`'s refinement too |
| 3 | `Interrupts`, `FdcMotor` | done, every safety property proved |
| 4 | `FloppyMedia`, `DriveWait` | done, every safety property proved |
| 5 | `KeyboardMo`, `ConsoleAnsi`, `TextScreen` | done, every property proved |
| 6 | `Ps2Keyboard` over `RingBuffer`; `DriveCall`, `PataDrive` and `SdCard`, composed by `DiskTransfer` | done, every property proved |
| 7 | `Programs` (processes, loaders, variables), `CommandLine` over `TextScreen` | done, every property proved |

What the plan has left is in section 7: components whose state lies in hardware
the repository does not describe.

A run checks the modules that share state or stand for each other on a
machine: the keyboards of the models with the console they feed, the two drives.

## 3. The modules and the code

**Channels, FileChannels, DescriptorTable** (`dev/channel.c`, `dev/fsys.c`).
`number[c]`, `dev[c]` and `data[c]` are the fields of the record `g_channels[c]`:
the two the code tests and resets to mark it free, and `data[0]`, which for a
file is its descriptor. Numbers below `CDEV_FILE` are
the plain devices', which are handed out without a test, the others the pool.
`Open`, `Close` and `Swap` are the system calls on channels; `FsysOpen`,
`FsysClose`, `FchanWrite`, `FchanFlush` those on files; each disjunct is a path
through the function to one of its returns. FatFs is an interface: opening may
fail, a write stays in a buffer until a sync, which the disk may refuse.
`held` is what callers believe they own. `DescriptorTable` says what all this
promises: a set of open files, each with a descriptor no other has.

**DirHandles** (`dev/fsys.c`). Handles, the directory each one scans, and who
holds it. `findfirst` and `opendir` differ in what they do when all are taken.
Its names begin with `Dir` (`DirInit`, `DirSpec`): `FileChannels_proofs` extends
it and `FileChannels`.

**RingBuffer, WordQueue** (`ring_buffer.c`). `rb_word_get` is one action per
read or write of `tail` and the buffer, `rb_word_put` one action, since it runs
in the interrupt handler. `WordQueue` is what a driver gets: a queue which, when
full, drops the word put in or, because of the full test at the wrap, all that
wait.

**Interrupts** (`interrupt.c`, `m68k/startup_m68k.s`, with the handlers that
mask or clear: `rtc.c`, `kbd_mo.c`). Lines in groups that share a mask and a
pending register. `int_enable`, `int_disable` and `int_clear` are a read and a
write of the register; Vicky's dispatcher takes a snapshot and acknowledges
later. `lost`, `late` and `crossed` are histories of what each race did.

**FdcMotor** (`dev/fdc.c`, `dev/rtc.c`). `fdc_motor_on` is cut at every access
to what the watchdog shares: the motor bit, the off time, the registration.
Time is relative to the off time, so it needs no bound. The watchdog runs to
completion between any two steps, and may cut a motor that a stalled
controller leaves without an off time.

**FloppyMedia** (`dev/fdc.c`, `dev/fsys.c`, `fatfs/`). Which floppy is in the
drive, the controller's change line, `g_fdc_stat`, what FatFs has mounted and
the mount id each open file carries. Calls by path go through
`fsys_update_stat`; calls on an open file do not. The user changes the floppy
between any two steps. Its names begin with `Media` (`MediaInit`, `MediaSpec`):
`Floppy_proofs` extends it and `FdcMotor`.

**DriveCall, PataDrive, SdCard, DiskTransfer** (`dev/block.c`, `dev/pata.c`,
`dev/sdc.c`, `fatfs/c256_diskio.c`). `DriveCall` is a call of a driver: one
sector between the medium and the caller's buffer, with the history `allowed`
of what each sector may hold. `PataDrive` and `SdCard` are the two drivers, one
step per access to the controller or to what an interrupt shares; any wait may
end in a time-out. The drive and the card are external processes which go on
with a command after the driver has given it up; the user takes the card out
and puts one in between any two steps, which is `sdc_handler`. `DiskTransfer`
is the glue: `disk_initialize`, `disk_read` and `disk_write` move a run of
sectors by calls of the driver in use.

**DriveWait** (`dev/pata.c`, `dev/sdc.c`, `dev/fdc.c`). Four kinds of polling
loop, one step per read of the status or the timer.

**KeyboardMo** (`dev/kbd_mo.c`). `Enqueue` is the whole of
`kbdmo_enqueue_scan`: BREAK, modifiers, the ring. `GetKey` is `kbdmo_getc` with
an empty character ring. A character is <<modifiers, key, place in the key's
sequence>>; what the layout tables say is `Length`. The ring of scan codes is
`WordQueue` (`Ring`), which the code's ring is proved to implement: full, it drops
the code that came, or, when it overruns at the wrap, loses all that wait. A code
in it carries the number of its press, so that it can be told afterwards which
presses were taken; the program has no such number. `SkipBreak` is a turn of
`kbdmo_getc`'s loop: the handler may run between two codes. The ring of characters
is filled only when it is empty, and holds a sequence (`SequenceAssumption`: the
longest has 8 characters, the ring 128 slots). `TestBreak` is one step although
`kbdmo_break` tests the flag and then clears it: a BREAK between the two sets what
is set already, and the 1 returned is for both. Lock keys and the LED matrix are
left out. Its names begin with `Mo`, as those of `Ps2Keyboard` with `Ps`, so that
one module can extend both.

**Ps2Keyboard** (`dev/ps2.c`), over `RingBuffer`. The keyboard sends the bytes
of a key, any of which may be lost; `KbdHandleIrq` is `kbd_handle_irq` with
`kbd_enqueue_scan` and the modifiers, its states in the table `Chain`.
`kbd_get_scancode` is `rb_word_get`, the handler running between any two of its
accesses; word n of the ring stands for the n-th code queued. The mouse's
`mouse_handle_irq` collects three bytes, the first one with its mark, bit 3.
`KeyAssumption` says which codes the keys have: a plain or a prefixed code is not
one of those that begin something longer. `PacketAssumption` says that the first
byte of a packet has its mark; a movement may have the same bit, and out of step the
driver takes it for a first byte. `aligned` is a history: no byte was lost since the
start or since a whole packet none of whose movements has the bit (`Telling`).
`MCKeyboards` puts the two keyboards and the console side by side: `part` says
which of them a behaviour is of, for a machine has one of the two keyboards
(`con_read_b`, console.c:528-541), and the console takes the keys of either as
they come.

**ConsoleAnsi** (`dev/console.c`; its specification is `ConSpec`). One record per console channel: the escape
buffer up to its count, the peek buffer right behind it, and histories; among
them `grown`, that a sequence has once outgrown the escape buffer.
Reading is taken with echo off: an echoed character is a `Write`. `Reopen` is
`con_close` (`Closed`) and `con_open` (`Opened`) of the channel. The character
after the last place of the buffer is put in the peek buffer, as in the code;
what the ones after it overwrite, and what a key read out of an overlong sequence
leaves in the buffer, are not modelled, and the properties promise nothing once
that has happened (`InBounds`). What the sequences do to a screen is
`CommandLine`'s, for those the editor uses.

**TextScreen** (`dev/txt_screen.c`, `dev/txt_a2560k_b.c`; the other driver is
the same code). The operations are functions from a screen to a screen, named
as in the code, so that the ones built by narrowing the region and restoring
it are written as they are there; each system call is an action that applies
one. `scroll` executes the copy and blank loops cell by cell. A loop that
starts past its end, or a cell outside the text matrix, makes the screen
`wild`, and nothing follows. A loop over a sequence is `ForEach`, a recursive
function rather than an operator, so that the provers can unfold it.

**CommandLine** (`cli/cli.c`), over `TextScreen`. A key and its modifiers
become characters (`Character`: the layout's tables, with CAPS LOCK off;
`KbdmoToAnsi`, `KbdToAnsi`: the `kbd_to_ansi` of the two drivers, the PS/2 one
without ALT, which goes by a table of its own), the characters key codes (`GetChar`, the state machine of
`cli_getchar`), a key code an operation of `cli_readline` on the editor, none (`Nothing`) if the
code is one `cli_translate_numeric` does not know. `Heard` is the table of the codes
that come of each key with each set of modifiers. The editor is its
buffer with what lies behind the NUL, the place in it, the history, and the
screen, which it changes by TextScreen's operations. `TextScreen`'s `Init` and
`Next` are those of any program; here `CliInit` and `CliNext` take their place. `EditKey`, `Enter` and
`Interrupted` are a key from the keyboard to the screen. What a command prints
is left out.

**Programs** (`proc.c`, `dev/fsys.c`, `variables.c`, `cli/cli.c`). `ProcRun` is
`proc_run` up to `fsys_load`, with the three things that can happen to the
argument buffer; `LoadOpen`, `ReadChunk`, `ReadFails` and `LoadEnds` are
`fsys_load_ext` with the loader of the file's format, `Resume` the rest of
`proc_run`; a program opens and closes files and exits; `Restart` is
`restart_cli` with `cli_rerepl`. `VarSet` has one disjunct per outcome of
`var_set`'s mallocs. Blocks of the heap are counted, descriptors too.

## 4. What is checked

| Run | Shows | Bounds |
|---|---|---|
| `fsys_handles` | no two open files share a descriptor, nothing stays claimed for nothing, a write is lost only when its file is closed while the disk fails, `DescriptorTable` is implemented; scans of directories do not disturb each other, handles leak only by failed opens. `MCFsys` puts the two tables side by side; they share no state | 2 descriptors, 2 pool channels, an unregistered device and one whose open may fail, 2 files, a disk that fails and recovers: enough for a file to be refused, swapped with a device and cut off by reopening it; 3 handles, 4 directories |
| `interrupt_lines` | every raised interrupt is pending, owed, handled or lost by one of the named races; the mask follows the calls | 2 Vicky lines and 2 direct ones, sharing groups |
| `floppy_motor` | a command has a running motor, a resting motor is watched and stops, never early | 4 calls, time-out 3, commands of up to 4 jiffies: longer than the time-out |
| `floppy_change` | a change of floppy is noticed by the next call by path, which never acts on the wrong floppy; open files are of the mounted one | 2 floppies, 2 files, 4 changes |
| `disk_transfers` | a sector holds what was last written with success, or what an unfinished write since then wanted there, though drives end late what was given up; a read returns the sector asked for; a card is used only when initialised since it was put in | a disk and a card of 2 sectors, a volume of 3 (the medium is shorter), 2 contents, runs of 1 sector, a FIFO of 2 sectors: a late sector waits while the next is read |
| `write_of_several` | (a violation) a write of two sectors puts the second one 512 sectors away | media of 3 sectors, a volume of 2, runs of up to 2 sectors |
| `drive_waits` | success only when it was seen, a time-out only when time is up, and every loop but the nested one ends | time-out of 3 jiffies, any behaviour of the drive |
| `keyboards` | however many bytes are lost, the PS/2 machine is in step again after four whole strokes, and the mouse's after the first whole packet that cannot be misread; no modifier sticks without a loss; the word fetched is the oldest and the ring is a `WordQueue`; the Mo keyboard's characters come out in order, whole and with the modifiers of their press, whatever the ring loses, BREAK is flagged when typed and only then; on the console, text passes once and in order, sequences run whole, and two channels peek and read without doubling or losing a key | 5 PS/2 keys, one of each kind the driver tells apart, 3 packets, two of them with a movement that looks like a first byte, a ring of 3 slots, 6 words: the indexes wrap twice; 3 Mo keys, 3 presses, a ring of 3: three makes and their breaks overrun it; every text of 4 characters of 5 classes (the shortest sequence with an argument has 4), 2 channels, one of them written to, 2 keys, an escape buffer of 4, which these texts do not outgrow |
| `screens` | scrolling moves every cell by the distance, erasing blanks what it names, and more only at the first and last row, output stays in its region | a matrix of 4 x 2 with 3 x 2 visible (a border column), every region in them, distances -1 .. 2, places -1 .. 3: regions smaller and larger than the distance |
| `erase_at_the_edge` | (a violation) erasing to the end of the region on its last row erases the whole screen | as `screens` |
| `command_line` | the command line's row shows the buffer after every key, the history is the lines entered, and every key of the Mo keyboard with any modifiers is understood as itself, or as no key by those the CLI does not know | a panel of 6 columns, lines of up to 3 characters, 2 lines of history, 2 lines entered, which fill the history (what a third pushes out is left to the theorem), all the keys and 32 sets of modifiers |
| `programs` | every descriptor and every block of the heap is accounted for, the arguments fit unless malloc failed before, a file that was refused never starts | a PGX, a bad PGX, a PGZ, an ELF and a file without a loader, of 2 chunks; 2 descriptors, 6 blocks, argument lists of sizes 0, 1 and 2: a larger, a smaller and none |

A symmetry set is used for files and directories in `MCFsys`, and for the contents of sectors in `DiskTransfer`; none of these
runs checks liveness, and no order of these values is ever looked at. Deadlock
checking is off in the two runs that really stop: `screens` when the screen is
wild, and `programs` because `cli_rerepl` hangs when the program of SHELL does
not start.

**Fairness.** Only two modules assert liveness. `FdcMotor` assumes that the
main program goes on, that the clock ticks and that an expired watchdog gets
its interrupt: the RTC is a clock of its own, and the program runs whenever no
handler does. `DriveWait` assumes that the loop is executed and that time
passes; nothing is assumed of the drive. No handler is assumed to keep a loop
from running for ever, and none is assumed not to delay it.

## 5. What is proved

Each paragraph is one module of proofs. The theorems hold for every value of
the constants that the named assumption allows; TLC evaluates these assumptions
on the instances of section 4.

**FileChannels_proofs** (`FileAssumption`; any number of channels, descriptors,
devices and files): `TypeOK`, `DescriptorsOwned`, `ClaimedOpen` and
`PoolAccounted`. The inductive invariant `IInv` is their conjunction:
`DescriptorsOwned` alone is not inductive, since closing a file frees a
descriptor on the strength of `data[0]`, and that this number is another file's
descriptor is excluded only by the conjunct that no two file channels carry the
same one; and `PoolAccounted` needs to know that a record in use has both its
fields set. There is one lemma per action, with one step per conjunct it can
disturb. On this invariant rest the refinement `ImplementsDescriptorTable` -
`Seen` reads off the tables what a program sees of a channel, and one lemma per
call shows the step of `DescriptorTable` it is - and the action properties
`OrphansOnlyByReopen` and `CommitOnClose`: every step but one keeps each open
file on some channel (`NoneOrphaned`), or closes no file (`NoneClosed`).

The directory handles (`DirAssumption`) are in the same module: the action
properties `ScansUndisturbed` and `LeakOnlyByFailedOpen` say of a single step
what it may not do; all they need from the past is `DirTypeOK`, so that the
handle of a scan is never the mark for none. One lemma per call tells which
handle it touches.

**Interrupts_proofs** (`LinesAssumption`; any lines in their groups):
`OwedAccounted` and `MaskFollowsCalls`. `IInv` adds `SnapshotKept` - a flag
pending between the dispatcher's read and its acknowledgement was read, or
raised since - and `ReadStands`: what a half-done `int_enable` or `int_disable`
has read of the other lines of the group is still the mask, but for the lines a
handler has changed meanwhile, which `crossed` records.

**Floppy_proofs**, the motor (`MotorAssumption`; any time-out, command time and
number of calls): `MotorOnForCommand`, `MotorWatched`, `ArmedWithOffTime`, and
the action property `NoEarlyStop`. `IInv` adds to the types what holds at each
point of `fdc_motor_on`: `TimeAhead` (an off time set in this call has not
come), `ArmedHasTime` (a registered watchdog has an off time), `WatchdogKnown`
(the local `needs_handler` agrees with the registration although the watchdog
may have run since it was computed), `MotorCovered` and `MotorUp`. It is
`WatchdogKnown` that the properties hang on: the decision to register is taken
before the off time is renewed.

The disk (`MediaAssumption`; any floppies and files): `ChangeNoticed`, `FilesOfMounted` and
`PathCallsRight`. `MediaInv` adds that inside a call by path, before FatFs looks
at the flag, a mount of another disk is still flagged (`MountPending`), and that
a volume without a mount has no valid files. The lemmas `DoneKeepsSign` and
`FailKeepsSign` say for all transfers at once what becomes of the sign of a
change: it is lost only by the `fdc_init` of a retry, which `hidden` records.

**DiskTransfer_proofs** (`TransferAssumption`; any media, sectors, contents, lengths of runs and cards):
`WritesStand`, `ReadIsAsked`, `SingleSectors` and `FlaggedIsInitialised`. The
argument is what the driver may conclude from the device's status although the
device goes on after a time-out: for the disk, that the status it waits for
tells of the command it gave and not of one given up before (`StatusTrue`,
`WriteFollowed`, `ReadFollowed`), and that what the drive may still store was
asked for since the last write that succeeded (`StoreAsked`); for the card, that a
transaction stays on the card it was started on (`TransferStays`) and that the
one that has ended well is that of the call (`WriteEnded`, `ReadEnded`,
`InitEnded`). `MovedStays` carries the result past the driver's return to FatFs.

The polling loops (`WaitAssumption`; any time-out): `ResultJustified`. `WaitInv`
says with what knowledge a loop is left: the status seen, or the time read last
late (`LeftForReason`, `OuterForReason`). Both sides may have changed since, but
time only goes on.

**Keyboards_proofs**, the ring (`RingAssumption`; any size and number of words):
`FetchedIsOldest`. `IInv` adds where `tail` is while the word is being loaded
(`TailPastSlot`), and that its slot still holds it (`SlotHoldsOldest`): the
handler would overwrite it only with `head` at that slot, and then
`head + 1 = tail` makes the ring full. The refinement `ImplementsWordQueue`
needs the wrap too, which the full test gets wrong: `WindowGrows`,
`WindowShrinks` and `WindowWraps` say how the sequence of stored words follows
the two indexes, and `PutIsPut` that the put which catches up with `tail` is the
queue's loss of all its words.

The PS/2 keyboard and mouse (`KeyAssumption`, `PacketAssumption`; any keys of
the four shapes a set-1 keyboard sends): `BackInStep`, `NoPhantomModifier`,
`PacketsShown`, and `RingIsUsed`, that the keyboard's steps are the ring's, so
that the ring's theorems are about the driver. `Rank` counts how far a state of
the make-code machine is from IDLE: a stroke of several bytes leads to IDLE from
any state, a single byte brings the machine nearer, and hence four strokes are
enough. Once in step (`Stroking`), the machine is where the sequence of the
stroke has it and nothing of it has been queued before its last byte.
`FlagsHeld` is the strengthening of `NoPhantomModifier` to the bytes of a stroke
under way. It is essential that no two keys but those meant to share a flag do,
which is why the assumption names the codes. The mouse's `MouseInv` follows the
bytes of a packet from where the machine was when it began: from any place, a packet
without a movement like a first byte ends with the machine at its start, and then
each packet is taken whole, whatever its movements.

**Console_proofs**, the Mo keyboard (`KeyboardAssumption`, `SequenceAssumption`; any keys, sequences and size of the ring).
`MoInv` is a chain over the codes waiting in the keyboard: before each of them, a
modifier that is a single key's is set exactly as it was after the code before.
From it follow `BreakFlagged`, if each modifier of a BREAK is that of a single
key (`SoleBreakKeys`), and `KeysInOrder`, if every modifier is
(`SoleModifiers`); each is a hypothesis of its theorem. Without it the property
is false: let go of one of two CTRL keys and the driver clears the flag of both.
The run's keys satisfy both (`MoAssumption`). The order of keys is proved over a ring
that loses codes: `OrderInv` adds that the presses waiting are numbered in order,
after the last one taken, and carry the modifiers really held, so that whichever of
them the ring loses the others stay in order, and that a press is lost only once a
code has come with no slot left. `KeysInOrder` compares
what `FlattenSeq` makes of two sequences that grow; the lemmas about it
(`FlattenAppend`, `FlattenConcat`, `FlattenEmpty`, `FlattenFrom`) are proved by
induction on the length, which `Induction` states for a set of numbers, so that
it needs no operator for a parameter: the library's `WFMin` gives the least
number outside the set.

The console (`ConsoleAssumption`; any channels, characters, texts and keys, and
a buffer of any size): `OutputHandled` and `KeysOnce`. `ConInv` says of each
channel (`Owes`) that what has been done of the output, with what is in the
buffer, is what was written, and that the buffer holds a sequence which has begun
and not ended (`Unfinished`): so the letter that ends it makes it whole, and
flushing or dropping it never passes a whole one. `OutputHandled` needs no
bound for that; it says less than `ConInv` because the model says nothing of the
memory behind the buffers. `KeyInv` is about all channels
together: the keys still to be fetched are the last ones typed (`Waiting`), and
the channels share the first ones (`Shared`), each in order, no key with two of
them, and none missing that no closed channel has lost. `Fetched` and `Lost` are
the two ways the shares change. That a write leaves the peeked key alone
(`KeepsKey`) is where `InBounds` is needed: the character after
the last place of the buffer overwrites the peeked key, and flushing a sequence
that long clears it.

**Programs_proofs** (`ProgramAssumption`; any files, variables and sizes of
argument lists): `FilesAccounted`, `ArgsHaveRoom`, `RefusedNeverStarts`,
`HeapAccounted`.
`IInv` adds `SizeKnown`, that the recorded size is the buffer's until malloc has
refused one, and `RefusedNoStart`, that a loader which refused its file has not
set the start address: `proc_run` sees nothing else of the load. `HeapInv` is
`HeapAccounted` with the types of what it adds up; a loader holds its chunk only
while its file is open, so that opening the next file cannot forget one.

**Screens_proofs**, the screen (`ScreenAssumption`; a matrix, a visible part and
tab stops of any size, any characters, any distances): `ScrollMoves`,
`ErasesReach` and `RegionHolds`. What `scroll` does is a loop over rows around a
loop over columns, each turn reading a cell that an earlier turn may have
written. `CopiedAtOnce` says when that makes no difference: if no turn reads what
one before it wrote (`Ahead`), the loop leaves what copying all cells at once
would; `LimitsKeepAhead` that the direction `Limits` picks from the sign of the
distance is such a one on both axes. Then `ScrolledAt` says of each cell what it
holds. The operations that narrow the region rest on that and on `Blanked`; `AtTheEdge`
says of each part they narrow it to whether it is that part or, empty, the whole
screen, so that `ErasesReach` holds in every row and column; and
`Kept` says for all of them at once that cells outside the region stay.
`RegionHolds` needs the cursor inside (`Inside`), which set_region does not see
to: section 6, `DisplayRestricted`.

The keys (`CliAssumption`, `KeyAssumption`; any letters, all the keys of both keyboards and every set of
modifiers): `KeysUnderstood`. What a key's code does to the
line is one turn of `Edit`, so the argument is about `GetChar`: `Reads(s, chars, t)` is
that the machine goes from s to t over these characters; sequences of them are
put together (`ReadsOn`), a number printed in decimal is read as
that number, and the four bits of the modifiers come back out of one more than
their sum.

The editor (`ScreenAssumption`, `CliAssumption`; a panel, a buffer and a history
of any size): `ShownAsHeld` and `HistoryNewestFirst`. Neither is inductive.
`CliInv` says that the buffer ends in NUL and the place in it is at most the
length of its string (`Editors`, `Placed`), without which `Right` and `Backspace`
would work behind the NUL, and that the screen is the whole panel, with nothing
below the cursor's row (`Panels`), without which a new line would begin on old
text. `Sound` is the step of the proof: an operation keeps this, leaves the
history as it is, and does to the row what it does to the buffer; one lemma per
key code. It is here that `TailHidden` is needed: `Type` into a buffer with
bytes behind its end shows one character and adds several.

`TypeOK` of these modules, `ClaimedOpen`, `MotorWatched`, `ArmedWithOffTime`,
`CliInv` and `RingIsUsed` are proved and not among the properties of the runs:
they are steps of these arguments, and what a reader wants to know of an
instance follows from the others.

**Left to TLC.** `WatchedMotorStops` and `TimedWaitsEnd` only: liveness under
fairness needs ENABLED, which is out of the prover's reach. Every other property
of a passing run is stated by a theorem. Where an argument needs an induction
over data (a loop's turns, a sequence's length), the theorem states the outcome
for a set of numbers or a list of states and uses that a set of numbers which is
not empty has a least one.

## 6. Where the code departs from what it says

Writing the models showed places where a comment or a declaration promises
something the code does not do. Each promise is a definition at the end of its
module, after the properties; it is not checked by a run, except for
`WriteLands` (`write_of_several`) and `ErasesAsked` (`erase_at_the_edge`). To see how the code breaks it, add it to the
run's .cfg as an INVARIANT (`MotorStops`, `WaitEnds` and `NothingComesBack`: as
a PROPERTY); TLC prints the steps, or, of `Ps2KeysUnderstood` and
`FunctionKeysHeard`, in which no state occurs, that it is FALSE. What does hold instead is the property in the last column.

| Promise | Where | What happens | Holds instead |
|---|---|---|---|
| `NoOrphans` | channel.c:86 | `chan_alloc` gives a plain device the record of its own number; if an open file was swapped there its descriptor is lost for good | `OrphansOnlyByReopen` |
| `OnlyHeldChannelsOpen` | channel.c:231 | a driver's open fails and the channel stays allocated | `PoolAccounted` |
| `NoSilentLoss` | fsys.c:188 | `fsys_close` drops the error of `f_close` | `CommitOnClose` |
| `NoHandleLeaked` | fsys.c:241 | a failed `opendir` or `findfirst` keeps its handle | `LeakOnlyByFailedOpen` |
| `HandlesNotShared` | fsys.c:387 | `findfirst` with all handles taken uses handle 0 | `ScansUndisturbed` |
| `StoredWordsKept` | ring_buffer.c:19 | with `tail` at 0 the full test is never true; the ring overruns and all words are lost | `ImplementsWordQueue` |
| `MaskAsAsked` | interrupt.c:65 | a handler changes the mask between the read and the write of `int_disable` or `int_enable`, and its change is undone | `MaskFollowsCalls` |
| `ClearKeepsOthers` | interrupt.c:145 | `int_clear` writes back every pending flag of the group, which clears them all | `OwedAccounted` |
| `AckKeepsAll` | interrupt.c:161 | `int_vicky_channel_a` acknowledges lines raised after it looked | `OwedAccounted` |
| `MotorOnIsOn` | fdc.c:314 | the watchdog fires within `fdc_motor_on`, which returns success with the motor off | `MotorOnForCommand` |
| `MotorStops` | fdc.c:302 | the controller times out after the motor was switched on: no watchdog is registered | `WatchedMotorStops` |
| `NothingMisplaced` | fdc.c:1109 | a file of the floppy taken out is written on the one put in | `FilesOfMounted` |
| `FlagKept` | fdc.c:649 | a retry resets the status that says the media changed | `ChangeNoticed` |
| `WriteLands`, `ReadFillsBuffer` | c256_diskio.c:121, :77 | with several sectors the buffer is not advanced, and a write adds bytes to the sector number (`DiskTransfer_write.cfg`) | `SingleSectors` |
| `WaitEnds` | pata.c:109 | the nested loop reads the timer only while DRDY is off | `TimedWaitsEnd` |
| `ReadyIsNoTimeout` | pata.c:55 | the time read last decides, not the status | `ResultJustified` |
| `ModifiersFollowKeys` | kbd_mo.c:365 | two shift keys share a bit (`MoKeys == {shiftL, shiftR}`, without `MoAssumption`) | the same, one key per modifier |
| `ZeroMeansNone` | kbd_mo.c:582 | a key without a character yields 0 with more keys waiting | `KeysInOrder` |
| `MouseBackInStep` | ps2.c:876 | "out of synch", bytes without bit 3 are ignored until one has it; a movement may have it, and mice that move so keep the driver out of step for ever | `PacketsShown` |
| `ErasesAsked` | txt_screen.c:540 | erasing to the end with the cursor on the last row, or to the cursor on the first, erases the whole screen (`Screens_erase.cfg`) | `ErasesReach` |
| `LineToCursorErased` | txt_screen.c:613 | mode 1 of `txt_clear_line` leaves the cursor's cell as it is, and at column 0 erases the whole screen | |
| `LineModesAsDocumented` | txt_screen.c:585 | the header has modes 0 and 1 of `txt_clear_line` the other way round than the code and the comments in it | `ErasesReach`, by the comments in the code |
| `DisplayRestricted` | txt_a2560k_b.c:335 | the cursor stays outside a region that shrinks | `RegionHolds` |
| `ScrollsToView` | txt_a2560k_b.c:530 | scrolling further than the region is high misses the loop's end | `ScrollMoves` |
| `DeletesCount` | txt_screen.c:686 | at column 0 `txt_delete` deletes nothing | |
| `ReturnGoesToColumn0` | txt_screen.c:437 | CR leaves the cursor where it is | |
| `PeekedIsTyped` | console.c:176 | the 17th character of a sequence becomes a key (`BufSize = 3`) | `KeysOnce` |
| `ReleaseMatchesPress` | ps2.c:638 | the release of Print Screen is queued as 0xD0, which is another key's release: 0x60 with bit 7 set is 0xE0 | `BackInStep` |
| `FifoDrained` | sdc.c:193 | a read that times out leaves its sector in the FIFO; with two there every later read is refused as too long | `ReadIsAsked` |
| `NothingIsNoSector` | sdc.c:192 | a count of 0 is no error to `disk_read`, which reports a sector that was never filled | `SingleSectors` |
| `StartedWhole` | fsys.c:1416 | a read that fails after the header leaves PGX its start address, and ELF does not look at its reads at all: half a program is started | `RefusedNeverStarts` |
| `NeverHung` | proc.c:56, cli.c:1024 | when SHELL's program does not start after an exit, `cli_rerepl` loops for ever | |
| `Ps2KeysUnderstood` | ps2.c:739-762 | the PS/2 driver sends modifiers and a semicolon before every code, not plus one and with other bits: the CLI takes them for other keys | `KeysUnderstood` |
| `FunctionKeysHeard` | cli.c:47 | twelve function keys have a code, F11 and F12 are translated to none | `KeysUnderstood` |
| `NothingComesBack` | cli.c:698, :661 | recalling a short line leaves the longer one behind its NUL; the next character typed overwrites the NUL and the tail is back | `ShownAsHeld` |
| `RunsEntered` | cli.c:914-943 | HELP and CTX SWITCH in the middle of a line execute it, without a place in the history | `HistoryNewestFirst` |
| `UpRecalls` | cli.c:697 | an empty line entered last stops the walk through the history | `HistoryNewestFirst` |
| `DownIsNewer` | cli.c:708 | after UP the index is one past the line shown, so the first DOWN shows the same line again | `HistoryNewestFirst` |

Met while modelling, and not stated as a definition because the state it needs
is abstracted:

- `fsys_load` (fsys.c:1408) and `fsys_register_loader` (fsys.c:1466) clear an
  array of `MAX_EXT` characters with `i <= MAX_EXT`.
- `var_set` (variables.c) allocates the length of a name or value without its
  terminator.
- A program may hand its own arguments to `proc_run`, which frees the buffer
  they lie in before it copies them.
- `cli_readline` (cli.c:661) does not compare its index with
  `MAX_COMMAND_SIZE`; the model stops there. A line longer than the row runs
  into the next one, and `ShownAsHeld` excludes it.
- `disk_initialize` (c256_diskio.c:54) returns a driver's negative code as a
  status byte, in which the bit FatFs looks at may be clear.
- `pata_flush_cache` is called by nothing: CTRL_SYNC does not flush the drive.
- `pata_read` (pata.c:296) has "TODO: Wait ~500ns": a drive slow to raise BSY
  would pass the next wait. The model's drive raises it at once.
- `ps2_init` (ps2.c:1232-1238) clears the pending interrupt after it drained the
  controller: a key between the two raises no interrupt until the next one.

## 7. What is not modelled, and why

- **Boot, serial settings, `con_readline`.** `boot.c` and `foenixmcp.c` are a
  straight line of initialisations and a menu. The UART, parallel and MIDI
  drivers write registers and keep nothing. The kernel's own command line does
  not use `con_readline`; `CommandLine` models the editor that runs.
- **System calls, sound, logging, indicators, the commands of the command
  line.** Stubs, output and parsing, without state of their own.
- **The controllers' byte protocols** (floppy commands and DMA, the PS/2
  controller's commands, the drive's identification) depend on hardware the
  repository does not describe; its drivers are modelled where they wait, give
  up or share state.
- **Modes, fonts, colours, resolutions, borders** of the screens, lock LEDs and
  keyboard layouts: registers and tables.
- **FatFs** is vendored. It is modelled where the kernel decides what it does:
  mounting, the mount id of an open file, syncing on close, the transfers it
  asks for. Its own code, its tables of code pages (`ffunicode.c`, a quarter of
  the repository's lines), the register headers, the disassembler and the
  vectors of other processors make up most of the lines of `src/`; they hold
  tables, constants, or an algorithm this repository does not maintain, which is
  why the share of lines the modules stand for is small although the kernel's
  own stateful components are nearly all modelled.
- **The stack**, which an interrupt storm or `fdc_init` calling itself through
  `fdc_recalibrate` could exhaust, is not part of any model.
