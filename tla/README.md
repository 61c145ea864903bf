# Verification of the Autelan access point software

The repository is an OpenWrt tree for a vehicle access point (LTE uplink, Wi-Fi,
ar71xx).  Most of it is OpenWrt and vendored packages.  The vendor's own code is
in `trunk/package/{autelan-app,autelan-lib,autelan,smalltool,autelan-shell}` and
in the scripts under `trunk/files`.  This project models that code in TLA+,
checks it with TLC on small instances and proves its central invariants with
TLAPS for all instances.

## 1. Inventory

| part | state it keeps | operations | interacts with | what makes it correct |
|---|---|---|---|---|
| um user table (`um/user.c`, `um.h`) | list of users, hash chains by mac and by ip, count | update (find or create), delete by filter, aging, lookup | called by the poll, the aging timer, the reload and ubus; calls back to `ubus.c` for every event | a user is in exactly the chains its keys say; no station is listed twice; the events tell exactly the table |
| um daemon (`um/l2user.c`, `um.c`, `uci.c`) | interface lists `cfg` and `tmp`, two timers, the position of a poll | wifi timer, aging timer, reload | child processes (`iw`), `/etc/config/wireless` | a station that stays is kept, one that leaves goes, removed interfaces are dropped |
| um ubus side (`um/ubus.c`) | one message buffer, the connection, the retry timer | notifications, report, getuser, reload, reconnect | ubusd and its subscribers | subscribers come to know the table; a request is answered with what it asked for |
| um portal users (`um/l3user.c`) | none | compiled out (`#if 0`) | - | - |
| timer library (`autelan-lib/src/timer`) | tick count, four rings of 256 slots | insert, remove, change, trigger | callbacks of its users | a timer fires on its tick, on no other, and once |
| message channel (`utils/channel.h`) | ring buffer: reader, writer, count | read, write | - | a bounded queue |
| partool (`autelan-lib/src/partool`, `autelan-app/src/partool`) | a flash partition of variables; per command a copy, a list, a lock | crc, empty, load, show, new, create, update, delete, delete by prefix | `cp`, `mtd`, `flock`; the boot and OEM scripts read it | a command is all or nothing, what it answers is true of the partition, it ends, and does not undo another's |
| appkey (`autelan-lib/src/appkey`, `utils/appkey.h`) | table of keys and values in shared memory: inited, limit, count, entries; per process the ids it has looked up | attach, first load, reload, look up by name, set by id | every process through shared memory, without a lock; the files of `/etc/appkey` | for loads that do not overlap: the table stays within its memory; an id keeps its key; no key is entered twice; a load leaves what the files say |
| slice (`autelan-lib/src/slice`) | head, data, tail, end of a buffer | put, push, pull, trim | - | the four cursors stay ordered |
| acc_mod (`autelan_mod/acc_mod`) | ignition flag, debouncing and delay counters, three kernel timers, a tasklet, a semaphore | readings in two stages, announcement, delay, restart and boot; ioctl, fasync, hello | GPIO; `acc_monitor` through netlink, SIGIO and the device file | one timer or tasklet has the watch; ignition off long enough shuts down, ignition back in time does not |
| acc_utils (`acc_monitor.c`, `acc_setget.c`, `scripts/`) | trigger, delay, controllers, battery level, last message; three threads | start, create, reload, SIGIO handler, netlink thread, battery thread, off_delay.sh | acc_mod; the power supply; ubus | it acts on what is meant and recent; the kernel uses the delay it reports |
| rgps (`rgps.c`), gobi_apps (`gps.c`) | position files | read, write, hand over | modem, upload scripts | no record lost between reader and uploader |
| loopcheck (`smalltool`) | none between rounds | send a random frame, await one, compare | a network interface | a frame comes back unchanged |
| scripts (`files/`, `autelan-shell`) | configuration files | - | everything above | - |

How the modelled parts interact.  `umd` is one uloop thread: timers and ubus
requests call into the table, the table's events are sent by `ubus.c`, a poll
runs `iw` once per station and value.  `partool` is started once per command, by
scripts and by hand, so its processes meet in the partition and in the lock
file.  The timer wheel and the channel are libraries without a user in this
repository.  `acc_mod` reports every change of the ignition twice, by a netlink
message and by SIGIO; `acc_monitor` reads the line itself in its signal handler,
reads the messages in a thread of their own, and sets the delay by ioctl.  The
kernel module does not need the process to end a delay: it restarts the box by
itself (`kernel_restart`, `check_acc.c:93`).  Only the process and its scripts can
have the power cut.  The appkey table is filled by whichever process attaches it first and read
and written by all of them without a lock.

## 2. What is hard

* A poll is a sequence of child processes which each see another station list.
* One message buffer serves every message of the daemon.
* The connection to ubusd is lost and re-established; what was sent meanwhile
  is lost.
* Every reload compares with what earlier reloads left behind.
* The rings of the timer wheel turn one after the other, and timers are hung
  again in between.
* A partool command copies the partition before it takes the lock, answers
  before it writes, and rewrites the only copy of the data.
* Three kernel timers and a tasklet hand the ignition watch on to each other,
  while the key is turned, the delay is tested, copied and set by an ioctl, and
  reports wait in a socket.
* Every access to the appkey table meets those of other processes, and a process
  killed between two of them leaves a half-made entry in memory that outlives it.

`PROJECT.json` lists these and the smaller ones as hazards, at their lines.
Known and not on that list, because no model here reaches them:

* um: a removed user structure is never freed (`user.c:50`); a station's
  statistics are read by line number from later dumps and may be another's
  (`l2user.c:574`).
* timer: many changes of one timer wrap `expires` (`timer.c:381`), a pending timer
  inserted again is linked twice (`timer.c:337`), so is a one-shot timer whose
  callback inserts it as a cyclic one (`timer.c:233` looks at the flag after the
  callback), a callback that removes the next timer of its slot leaves the loop on a
  zeroed node (`timer.c:217`).
* acc: `acc_poweroff` does not read the ignition again (`acc_monitor.c:555`), the
  battery's class is fixed by its first reading (`acc_monitor.c:595`), the list of
  controllers has no bound check (`acc_monitor.c:363`), `alloc_skb` may fail
  (`check_acc.c:343`).
* appkey: a process that attaches while the first load runs caches what it finds
  (`appkey.c:519`); `os_shm_create` returns a positive errno (`shm.h:84`); a look-up
  that meets a name while it is copied may take its beginning for another key.

## 3. Modules and the code

`UserTable` is `user.c`: `head` is `struct um_control.head` (the list, the two
families of chains, the count), `user` the user structures, `told` the stations
announced and not yet retracted.  `um_user_update`, `um_user_delby` and `aging`
are the operations, `TableSpec` any sequence of them.

`UserManager` extends it with `l2user.c`, `um.c` and `uci.c`.  Every uloop
callback is one step, except the poll, which is one step per station
(`WifiTimer`, `L2Total`, `L2Sta`, `L2NoMem`, `L2Done`).  `Join`, `Leave` and
`Reconfigure` are the world.  `turn` is the timer due first: both have the same
period and are re-armed when they fire, so they alternate.

`UmUbus` extends `UserTable` with `ubus.c`: `buf` is the shared message buffer,
`link` and `retry` the connection, `sub` a subscriber that applies every event
and report it receives.

`TimerWheel` is `timer.c`: a slot's list is the set of pending timers whose
`ring_idx` and `ring_slot` name it; one step of `os_tm_trigger` is one tick with
all carries and callbacks, `tm_trigger` being a recursion over the rings and
`weight[r]` the ticks a slot of ring `r` stands for.  `Alarms` is what `timer.h` promises.

`Channel` is `channel.h`; `Fifo` is the bounded queue it implements.

`Partool` is the library and the program together.  A process goes through
`mtd_2_tmp`, `Open`, `Flock`, `Apply`, `WriteBegin`, `WriteEnd`, `Unlock` and
`Unlink`; `execute` is the command itself: its early returns, then the command
proper (`perform`).  Lists are filtered by `kept` and cut to the partition by
`room`, both recursive functions over the list.  `CopyFails`, `LockFails`,
`WriteFails` and `PowerLoss` are the failures.  `KvStore` is the store of
variables it should be: a command that changes it is first pending (its list is
changed and not yet written), and then its whole effect happens, or none, or the
store is damaged; while nothing is pending the store is neither changed nor damaged.

`AccMod` is `check_acc.c`: a timer is the seconds until it fires, `Softirq` runs a
timer or the tasklet that is due, `KernelTick` lets a second pass.  `Ignition` is
what it promises in terms of readings alone: so many readings that found the
ignition off begin a delay, one that finds it on ends it, a full delay takes the
box down.  The ioctl that sets the delay tests `acc_flag` (`takes`), copies and
writes (`acc_ioctl`) in two steps, with softirqs in between, so a request that was
taken (`taken`) may change a delay that the tasklet has begun since; no request is
taken while a delay runs.  `AccMonitor` composes the module with the process: `Main`
(start with or without the device, requests), `signal_f`, `netlink`, `Recv`,
`acc_shutdown` and `system` (the second thread decides, then a shell acts),
`vcc_monitor` (the third), `off_delay` (the scripts), and its death.  `asked` is what
was asked of the supply and of init, `power` what became of it: a box that
restarts boots again (`Boot`), with the ignition on or off and everything else as
after `acc_init` and `default_config_init`; a box that is off stays off.

`AppKey` is `appkey.c` with the directory scan of `sfile.h`: `inited`, `limit`,
`count` and `keys` are the shared table, `pc` and `frame` a process's place in a
load, `akid` the ids it keeps.  Each access of a load to the table is a step: the
check of the count (`ak_new`), the second read of it, the store of the count plus
one, the names, the value.  `Kill` may come between any two, and `Edit` changes the
files.

`MCUserManager`, `MCUmUbus`, `MCPartool`, `MCAccMonitor` and `MCAppKey` hold the
values of the constants.  `UserTableProofs`, `UserManagerProofs`,
`UmUbusProofs`, `TimerWheelProofs`, `ChannelProofs`, `PartoolProofs`, `AccProofs`
and `AppKeyProofs` hold the theorems.
Definitions named as mutants are plausible bugs; each one is shown to break a
property when it takes the place of the definition it mutates.

### What is abstracted

* Users, macs, ips and messages are members of small sets.  Station statistics
  are left out; no decision depends on them.
* A removed user is never freed by the code; the model uses its place again.
* `get_sta_macaddr` returns the address of a local array.  The model takes the
  contents to be still there.
* In `TimerWheel`, a timer that is pending is not inserted again and a callback
  touches its own timer only; it inserts a one-shot timer again as one-shot.
* In `Partool`, a value is its length, and names and values have no blanks: with
  them `part_line_read` would split the line at the first, trim it and reduce the
  others, and read back something else than was stored.  Without blanks the length,
  and whether the name begins with `#` (`Comments`), say what fits into the
  partition, what a line too long hides, and that a comment or an empty value is not
  read back.  A write is torn from its first to its last block; two writes that
  overlap may leave a mixture.  `-load` is given a file of one line.
* The mac and ip masks of a filter are left out.
* In `AccMod` and `AccMonitor`, softirqs and the SIGIO handler run within the
  second in which they are due, and SIGIO goes to the main thread.  The supply, the
  battery and the ignition line are external.  `off_delay.sh` reads the ignition and
  acts in one step.  The ioctl in `signal_f` does not fail, and the configuration
  has one acc section.  Between the test and the write of the delay-setting ioctl the
  main thread is in the kernel, so neither SIGIO nor the end of the process comes there.
* In `AppKey` four things that touch several words are one step each: the search
  for a name, the test of the count against the limit (the limit only goes from 0 to
  its value, so no order of the two reads adds an outcome), the copy of an entry's two
  names, and the check and use of an id in `appkey_set`.  `shmget` does not fail.  The
  limit is the same for all processes: `os_sfgeti` calls `fopen` with its arguments
  swapped (`sfile.h:257`), so the limit file is never read and `APPKEY_LIMIT`, 1023,
  applies.  `Past` entries behind the table are followed; a store beyond them is left
  out.  (What lies there is the end mark of the table and then memory of no meaning.)

## 4. Runs

### um

* `um_tracks`: three stations that join, leave and roam between the interfaces of
  two radios while they are polled; interfaces are removed and restored; four
  changes of the world between any two steps.  Three stations are the fewest with
  which a station that leaves shifts a line between two that stay; `AgTimes` 2 has a
  round that spares and a round that deletes.  The table is consistent throughout, a
  station that stays is kept (`PresentStationKept`), no reload deletes a station of
  an interface that stays, and when the world is quiet the table becomes the set of
  associated stations (`Converges`).
* `um_reload_drops` (violation): `tmp` is never emptied, so an interface that
  two configurations in a row had is kept when it is removed (`uci.c:271`).
* `ubus_events`: a subscriber is exact while no event is lost, and becomes exact
  again when the connection is back; a request for a listed station is answered
  with it.  Four operations: enough for a station to come, get, change or lose its
  ip, age and be asked for.
* `ubus_notfound` (violation): a request for an unknown station is answered
  with the last message in the buffer (`ubus.c:209`, `239`).

### Timers and channel

* `wheel_exact`: three rings of two slots, so that every second tick carries and
  every fourth carries to the top, for 18 ticks, twice past the point where the
  whole wheel wraps; two timers, cyclic and not, changed and re-armed.  It refines
  `Alarms`.  `MaxLife` keeps a timer that is changed over and over from living
  for as long as the whole wheel turns.
* `channel_fifo`: a ring of four slots is a bounded queue.

### partool

* `partool_alone`: one process after the other, all commands, two names of which
  one is a prefix of the other, two values, with failures of copy and lock and a
  power loss at any step.  What a command answers is true of the partition
  (`AnswerIsTrue`) and the partition refines `KvStore`.  `-load` is held to what
  the code does: after its ok no variable is left, although its help text says "load
  file(human readable) to mtd" (`partool.c:766`); `-crc` prints two numbers and is not
  held to anything.
* `partool_together`: three processes, as many as it takes for a lock file to be
  unlinked under a waiting process while a third creates a new one, with failing
  writes and power losses.  What the lock still guarantees is `LockPerFile`; a
  name never gets two lines; nobody waits for ever.
* `partool_stale` (violation): the read callback does not see the partition but
  an earlier copy (`partool.h:82`).

`AnswerIsTrue` holds in `partool_alone` because every variable fits (two lines of at
most `MaxLine` 40 bytes into 100), no name is a comment, no value is empty or as long
as a line may be, and writes do not fail: the hypotheses of the theorem
`AnswersCorrect`.  With `Space` 9, a name in `Comments`, a value 0, a value of `MaxLine`
or the fault "write" TLC finds a command that
answers ok and has not stored its variable: `part_line_wirte` drops what does not
fit, and the exit code of `mtd` is not looked at.

### acc

* `acc_shutdown`: two debouncing readings, announcements every second, two of
  them, a sleep of one second in `acc_shutdown`, integers of three bits, a socket that
  holds one message; delays that are ordinary and negative as an int, asked for together with controllers; the process
  starts at any time or never, with or without its device, and may die; the box boots
  again after every restart.  The bounds are the smallest at which every counter takes a
  value between its first and its last or wraps, an announcement is repeated, a message
  waits while the thread sleeps, and the socket overflows.  The watch is held once
  (`OneWatch`), the module refines `Ignition`, the process follows it (`TriggerAgrees`,
  for a signal handled before the line moves again), shuts down only when it is meant
  (`ShutdownIsMeant`) and does not decide to cut the power of a vehicle that has been
  running (`CutNotStale`).  A shutdown that began ends (`EndsWhatItBegan`), and in a
  vehicle parked for good the box does not run on (`ParkedEnds`): it restarts or
  loses its power again after every boot, with or without the process.  It is not
  promised that it is ever off for good, and without the process it is not: the
  kernel module restarts it for ever.  The box may be off, so deadlock is not checked.
* `acc_timer` (violation): the monitor reports a delay that the kernel has refused
  (`acc_monitor.c:338`).

### appkey

* `appkey_ids`: two processes, two keys, three entries of which the third lies
  beyond the width of an offset, as the entries from 964 on do in the code; one
  content of the files has a key on two lines, one a file that cannot be opened.  While
  loads do not overlap, the table stays within its memory (`WithinTable`), an id keeps
  its key, no key is entered twice, and a load that is not disturbed leaves what the
  files say, whatever a killed one left behind.  With overlapping loads none of this
  holds, and TLC finds each of them violated without `alone`: ids change their key,
  keys are entered twice, and two loads that both pass the check at the last entry
  take the count past the limit and write over the end mark.  `Past` is 1, all that
  two processes can reach.  After an overlap only the states in which nobody has an id
  are followed (`IdsWhileAlone`), as no property speaks of the others.

### Seen while modelling, without a run

* `os_maskmatch` (`bits.h:37`) compares with `!=`: a mac filter with a mask rejects
  the users that agree with it in every masked bit.
* `-load` leaves the partition empty (library `partool.c:796`): the file is read into
  the cache, and the empty list is written over it.  It answers ok even if the file
  cannot be read.  `execute` models it so and `AnswerIsTrue` says so.
* `os_sfgeti` swaps the arguments of `fopen` (`sfile.h:257`), so `libappkey.limit` is
  never read.

### Fairness

* `UserManager`: weak fairness of the timers.  uloop runs every timer that is due
  and the commands a poll starts end.
* `UmUbus`: weak fairness of the report timer, and of a reconnect that succeeds:
  the retry timer re-arms itself, and procd restarts ubusd.
* `Partool`: weak fairness of each process's next step.  No strong fairness of
  `flock` is assumed: because every command unlinks the lock file, the processes
  that can still overtake a waiting one are finitely many.
* `AccMonitor`: weak fairness of the kernel's timers and ticks, weak fairness of the
  end of a system call (`SetDelay`: the kernel finishes what it has begun), and strong
  fairness of the delivery of a signal: SIGIO waits while the main thread is in the
  ioctl, and the kernel looks for pending signals on every return to user mode.
  Nothing is assumed of the process's other steps, of the supply or of the boot.
* `AppKey` states no liveness.

## 5. Proofs

`UserTableProofs`.  `TableInv` is the conjunction of the type invariant,
`IndexConsistent`, `CountExact`, `MacUnique`, `AnnouncedExact` and
`AgingInRange`.  None is inductive alone: that a mac is unique needs the lookup
to find every user with a good mac, hence exact chains; that the announcements
are exact needs unique macs, or one `um.delete` would retract two users.  The
lemmas `ReinsertKeepsTable` and `DeleteKeepsTable` treat the two ways the table
changes, and one lemma per operation applies them.  `TableCorrect` follows for
any number of users, any hash function and any aging limit, from the assumptions
named in `UserTable`.

`UserManagerProofs`.  `DaemonTypeStep` shows the daemon's type invariant, and
`StepIsTableStep` that each step of the daemon is a step of the table or leaves
it alone.  `DaemonImplementsTable` (`Spec => TableSpec`) transfers the table's
invariants to the daemon, whatever stations, configurations and failures it meets.
`DaemonOnlyKnownMacs` adds that the bytes a failed scan leaves in place (`ScanOK`)
are zeroes or the access point's mac.

The second part of `UserManagerProofs`.  `StationKept`: `PresentStationKept` for any number of stations,
interfaces and changes.  `TrackInv` says that a tracked station has a user with the
radio and wlan of an interface it is on, with two aging rounds left between a poll and
the aging round (`TrackedPlaced`); that a poll whose dump has not shifted has each of
its stations ahead of it or placed (`PolledOrAhead`); and that stations are on
configured interfaces (`AirConfigured`), which is why a reload spares them.  It assumes
`WellConfigured`: at least two aging rounds (`um.key` says 2), names that determine
their numbers, and no configuration with an interface on a radio it lacks.  With one
aging round, or with an interface kept while its radio is removed, the property fails.

`ChannelProofs`.  `ChannelInv` is the type invariant and `SlotsFilled`: writer
and reader are `count` slots apart and exactly the slots between them hold
messages.  The arithmetic of the wrapping index is in `AlignRange`,
`AlignShift`, `AlignInjective` and `AlignLap`; `WriteIsPut` and `ReadIsGet` map
the steps to the queue's; `ChannelIsFifo` is the refinement, for every limit.

`UmUbusProofs`.  `UbusInv` joins `TableInv` to `SubscriberExact` and
`HitIsAnswered`.  The table's part is needed: a subscriber that drops a mac is
right only because macs are unique, a report is right only because every user is
local, and a request is answered only because the chains are exact.

`TimerWheelProofs`.  Here the recursion is over the rings, so what it computes is
proved by induction: `Least` finds the smallest number that lacks a property (from
`WFMin`, as the library's induction theorems take an operator, which no installed
prover can instantiate), `Induction` and `Iterates` follow from it, the latter being
the existence and the equations of a function defined by recursion.
`WheelInv` is the type invariant, `RingsCountTicks` (ring `r` stands at digit `r` of
the tick count in base `Slots`), that no timer was created later than now or lives
longer than `MaxLife`, and
`SlotInTime`: the ticks until a timer's slot comes up are no more than the timer has
left, and exactly those it has left when it hangs in ring 0.  In the middle of a tick
the lower rings have turned and the upper ones have not; `Mid` is the invariant
there, with the set of the rings that are still to turn (`Late`), and the lemma per
ring shows that a timer hung again by one ring is not missed by the next.  From it
`Exact` says of each round which timers have fired and which have not, and
`FiresOnTime` is the refinement of `Alarms` for any number of rings, slots and
timers.  Its one hypothesis is that `os_tm_change` is not called with 0: such a timer
is hung into the slot that has just been served (`timer.c:379`, listed as a hazard),
and the refinement fails.  The other three theorems do not need it.

`PartoolProofs`.  `LockInv`: two processes between `part_lock` and `part_unlock`
have different files open, and unless locking can fail each has one
(`FileExclusive`, `HoldsFile`).  `NewFileExists` counts the inodes.  `LocksPerFile`
follows for any finite set of processes; it assumes that `flock` does not fail, as
a command goes on without its lock then.

The second part is about the lists.  A list is reasoned about as its set of lines and
whether its names are distinct (`Lines`, `Unique`); `KeptIs` shows, by induction over
the length, that `kept` is a filter, and similar lemmas say what reading, writing and
each command do to the set.  `DataInv` is that every copy and every list in the hands
of a process has each name once; the partition alone would not be inductive, because a
list is written back whatever the partition has become meanwhile.  `NamesCorrect` and
`TypeCorrect` follow without any hypothesis.

The third part is about commands that do not overlap (`Alone`: one process that
runs one command after the other, and may lose power at any step).  `AloneInv` says
that the copy is the partition until it is written, and that what is written is the
command's outcome on the copy.  `AnswersCorrect` and `PartitionIsStore` assume
`Ample`: no name is a comment, values are not empty, lines are shorter than `MaxLine`,
and there is room for all names.  `AnswersCorrect` also assumes that writes do not fail,
as their exit code is not looked at; the refinement does not, as a pending change of
`KvStore` may end in damage.  `StoreStep` sorts the steps into those that begin a
change, end one, or leave the store alone.  The instance
of `partool_alone` satisfies all of them.

`AccProofs`.  `AccInv` is the type invariant and what relates the parts: who has
the watch (`OneWatch`), that the counters are the length of the run of readings that
found the ignition off (`Counters`), who is connected (`Links`), that the end of a
delay is announced only after it (`Meant`), how old a trigger can be (`Fresh`), and
what a pending signal will find (`Pending`).  None of the properties is inductive
without them.  `AccIsIgnition` shows that each step of kernel or process is a step
of `Ignition` or a stutter, the test of `acc_flag` and the write of the delay being
two (`Take` and `SetDelay`).  All of it holds for any debouncing, delay, number of
announcements, width of int, queue and set of requests.

`AppKeyProofs`.  `KeyInv` is the type invariant, that a load works on an entry the
table has (`WorkType`), and, while loads have not overlapped (`alone`), that one
process loads, unused entries have no name, a load's entry is the one its key
belongs to, ids were made for entries that are still their key's, and names are
distinct.  `TableHolds`, `KeysUnique` and `IdsKeep` follow.  Without `alone` only the
types hold, with a count that the bound `Past` limits and the code does not.

The last part of `AppKeyProofs` is `LoadsApply`.  `LoadInv` says of a load that nothing
has disturbed (`alone`, `calm`) that each key of the lines before the current one has
the value of its last line so far.  It needs `KeyInv`: a value goes to the entry of
its own key, which is no other key's, and `ak_new` takes an entry without a name, so
nothing loaded before is overwritten.  That the last line of a key exists (`Wanted`
chooses it) is the lemma `LastOne`.

Every invariant, action property and refinement that a passing run checks is the
statement of a theorem (`TypeOK` of `AppKey` as a part of `KeyInv`).  Only model-checked are the liveness properties, as the prover
has no fairness: `Converges`, `SubscriberCatchesUp`, `EveryCommandEnds`,
`EndsWhatItBegan` and `ParkedEnds`.

## 6. Not modelled

The parts that `PROJECT.json` lists as `not_modelled`, with their reasons: modem
drivers and the gps reader (hardware I/O through closed libraries), rgps (one loop
that parses text and starts shell commands), loopcheck and slice (straight-line
code; slice has no caller), the crash test tool, shell scripts, and everything
vendored.  The vendored OpenWrt tree, its kernel drivers and the modem vendor's
headers are nearly all of the repository's lines, so the models cover a small
share of the repository although they cover most of the vendor's own stateful code.

Of the modelled parts, these operations are left out: the acc_mod ioctls that read
and write pins and registers, and unloading the module; status, setgpio, getgpio,
watch and the voltage log of `acc_monitor`; the printing commands of appkey.

## 7. Plan

1. Models: a timer wheel whose callbacks touch other timers; the mask filters
   together with the table.
2. Proofs: the safety half of the liveness arguments, as invariants (what bounds the
   processes that overtake one that waits for partool's lock; how many seconds of
   ignition off are left until the box of a parked vehicle restarts).
