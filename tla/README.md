# A verification project for the Zyxel EX5601-T0 sources

The repository is the published source of a router's firmware: OpenWrt 21.02
with MediaTek's changes, and under `package/public-zyxel` the vendor's own
libraries. The daemons that use these libraries (zcmd, the ESMD, the web
server and others) are binaries and not part of it. This project models the
parts that carry concurrency and state: of the vendor's libraries the timer
library and the messaging library through which all daemons of the router talk
to each other; of MediaTek's drivers, which are source files of the repository
and not patches, the bad-block management under the router's flash and the
rings of the Ethernet driver.

    libzyuitimer    uitimer.c      ->  UITimer, UITimerProofs, UITimerFateProofs
                    timer_list.c   ->  TimerList implements TimerSeq, TimerListProofs
    libzcfg_msg     zcfg_msg.c     ->  ZcfgMsg implements ZcfgRpc, ZcfgMsgProofs
                                       ZcfgEid, ZcfgEidProofs
    nmbm            nmbm-core.c    ->  Nmbm, NmbmProofs
    mtk_eth_soc     mtk_eth_soc.c  ->  MtkTx (transmit, open, stop, reset), MtkTxProofs
                                       MtkRx (receive), MtkRxProofs

`MC*` modules add only symmetry sets and a state constraint for TLC. Paths below
are relative to `src/package/public-zyxel` for the libraries; `nmbm-core.c` is in
`src/target/linux/generic/files-5.4/drivers/mtd/nmbm`, `mtk_eth_soc.c` in
`src/target/linux/mediatek/files-5.4/drivers/net/ethernet/mediatek`.

## Inventory

### libzyuitimer, timers (`libzyuitimer/libzyuitimer-2.0/uitimer.c`)

State: two lists of heap-allocated `CMTimer_t` blocks, `time_list` (one-shot)
and `periodic_time_list`; `temp_list`, the expired timers of the current round;
`timerMutex` for the lists; a status (IDLE, PROC, DEL) in each periodic timer;
`timer_thread_running`.

Operations: `UITimer_Init`, `UITimer_Destory`, `UIAddTimer`,
`UIAddPeriodicTimer`, `UIDelTimer`, `UIDelPeriodicTimer`, their `_retDataPtr`
forms, `UIDelAllTimer`; the thread `UITimerProc`, which in each round moves
expired timers to `temp_list` under the mutex and then runs their callbacks
without it. Callbacks call back into the library.

Hard: everything between the release of the mutex and the end of the callback
loop: a timer may be deleted, re-added or freed while `temp_list` points to it.
Also the end of the thread, and deadlines as pairs of seconds and microseconds.

Correct when: no pointer to a freed block is followed, every block has one
owner and is given back, a one-shot timer runs once, not early, and not after
it was deleted.

### libzyuitimer, linked list (`timer_list.c`)

State: a count and a chain of nodes; an iterator with the node it is at and the
address of the pointer that leads there. Operations: add, get and remove by
position, iterate, remove at the iterator, free all. Correct when it behaves as
a sequence and neither loses a node nor keeps one that was freed.

### libzcfg_msg, transport (`libzcfg_msg/libzcfg_msg-2.0/zcfg_msg.c`)

State: the request index `_zcfg_msg_req_idx` of the process; for each request
a datagram socket bound to a path made from EID, thread id and index; the
server's socket with its bounded queue. Operations:
`zcfg_msg_sendAndGetReply`, `zcfg_msg_serverRecv`, `zcfg_msg_serverSend`.

Hard: a datagram carries nothing that says which request it answers; a call
takes the first that arrives. Timeouts, signals, full queues, crashes of either
side and stale paths all leave answers behind that may arrive later. Correct
when a successful call returns its own answer, a request is carried out at most
once, and a call that can return does.

### libzcfg_msg, EID registry (same file)

State: `_msg_data`, 16 entries of EID, thread id and server socket; the paths
bound by server sockets. Operations: `zcfg_msg_eidInit`,
`zcfg_msg_serverInit`, `zcfg_msg_eidGet`, `zcfg_msg_sckIdGet`. Hard:
`serverInit` works on its entry after it has released the mutex; entries are
found by thread id, and thread ids come back. Correct when a thread gets the
EID it registered and a server that was set up can be reached.

### NMBM (`nmbm-core.c`)

State: on the flash two copies of a table (write count, state of each block,
physical block of each logic one) and the bad marks; in memory the same tables,
where the two copies lie and which spare blocks are left. Operations: attach,
detach, erase, write, read and mark a block; below them updating the tables,
rebuilding them and three rescue procedures.

Hard: each of these is a series of flash operations, any of which may fail and be
moved to another block, and between any two of which the power may go off; a
block that fails while a table is written makes that table out of date. Correct
when what was written is read back, the tables found at the next attach lead to
it, and no two logic blocks share a physical one.

### Ethernet driver (`mtk_eth_soc.c`)

State of the transmit side: a ring of descriptors with `next_free`, `last_free`
and `free_count`; the DMA's registers; NAPI; a queue for each of two devices,
which share the ring; `dma_refcnt`; MTK_RESETTING. Operations: `mtk_start_xmit`,
the interrupt and `mtk_napi_tx`, `mtk_open`, `mtk_stop`, the watchdog and
`mtk_pending_work`. Receive side: a ring with a page fragment behind each
descriptor, `calc_idx`, and `mtk_napi_rx`.

Hard: transmitter and poll work on the ring without a common lock; interrupts are
acknowledged, masked and enabled in between; queues are stopped and woken on a
counter that others change; a reset takes the rings away under all of them.
Correct when nobody uses a ring that was freed or a buffer the DMA still has, no
completion and no wake-up is lost for good, and a failed allocation never takes a
descriptor from the DMA.

### Not modelled

`libzcfg_fe_rdm_access` (front end to the data model), `libzcfg_fe_rdm_string`,
`_struct` and `libzcfg_fe_schema` (conversions), `libzos` and `libzyutil`
(wrappers of system calls and flash I/O), `libzlog`, `libzcfg_fe_dal` and
`libzcfg_fe_tr98` (field-by-field translation of objects), smaller helpers, the
third-party USP agent with its vendor layer, the MTD layer over NMBM, the rest of
the Ethernet driver (statistics, ethtool, LRO, HNAT), other drivers, OpenWrt,
kernel and toolchain. `PROJECT.json` gives the reason for each. The repository has
over a million lines; nearly all of it is third-party code or conversion of one
object after the other, and the modelled files are a small part of it.

## The models

### UITimer

A pointer is a member of `Ptr`, `alloc` the set of allocated ones, `blk` the
contents. The lists are sets, for their order decides only the order of the
callbacks of a round, and the model allows every order. `OneShotElem` copies the
block as the code does, `PeriodicElem` keeps the pointer.

`mutex` is the holder of `timerMutex`. An unlock does not ask who that is: the
mutex is free afterwards. POSIX leaves that undefined; the C library does it with
a mutex of the default kind, and `UITimer_Destory` counts on it when it unlocks
one it never locked (line 98). So the mutex may be lost in the middle of a
section, and a section is therefore not one step. An API function has one in which it locks
and searches (`AddSearch`, `DelSearch`, `DelAllLock`; `work` keeps what it
found) and one for the rest and the unlock; an add has an earlier one that
allocates the block and reads the clock. `UITimerProc` has one for the loop test
and the walk up to an expired timer (`ScanOneShot`, `ScanPeriodic`), and one for
what it then does with that timer, without looking at `timer_thread_running`
again (`MoveOneShot`, `MarkPeriodic`); likewise `TakePeriodic` and `Rearm`. Where
`SectionsExclude` holds, finer steps within a section would show nobody anything
new; where it does not, the pointer found in the first step is what goes wrong.

A step that would read a freed block is not enabled, since what comes then is
undefined; `MemorySafe` says that no pointer that will be followed dangles.

The code does not survive every use. `Rules` holds the rules that callers keep,
and `Disciplined` callers keep all six. They are what the code needs of its
callers, and it states none of them. The repository has no caller that could be
held against them. Each is needed: taken out of `Rules` in UITimer_safety,
TLC finds `MemorySafe` violated.

| rule | callers do not | because |
|---|---|---|
| readd | add a periodic timer again while its expiry is pending | line 424 makes it IDLE, a delete then frees what `temp_list` points to |
| delete | delete a periodic timer that is being processed, as from its own callback | it is IDLE and freed at once, line 304 reads it |
| retDataPtr | delete a pending one with `_retDataPtr` | it stays listed and is freed in line 305 |
| delall | delete all timers, or stop the library, while a periodic timer is in `temp_list` | line 642 frees it whatever its status |
| start | call `UITimer_Init` while a client is inside a call | line 78 makes a new mutex, free, under the one the call holds |
| stop | call `UITimer_Destory` while a client is inside a call, or call anything before it returns, other than from a callback | line 98 frees the mutex under the scan or the call that holds it |

The last two are also what `SectionsExclude` needs, and it is violated without
either. The window of a stop is this: `UITimerProc` has passed the test in line
206 or 239, line 97 clears the flag, line 98 unlocks the mutex, and a client's
delete locks it and frees the block that lines 214-228 or 247-260 are about to
unlist, copy, mark and free. The same unlock opens the section of an add or a
delete. With the rule kept the unlock may still come in the middle of a scan or
of a callback's call; then there is nobody else to use it. Without
the third rule the code also breaks a promise of its own comment (below).

Ghost variables: `arms` numbers add calls, `fires` counts the runs of each,
`cancelled` and `stopped` hold those a delete removed or said it had removed,
`leaked` the blocks the code is known to drop (the new block of an add that
finds its id listed, and what a stop abandons). `due` is the exact deadline.
`NotBeforeDue` is about one-shot timers only; periodic ones do run early (below).

Left out: `malloc` returning NULL, ids that are not positive and NULL
arguments, which return without a change of state; the ESRCH branch of
`UITimer_Destory`, which ends the process; a callback that calls
`UITimer_Destory` (it would join itself); more than one thread that calls
`UITimer_Init` and `UITimer_Destory`, whose test of the flag has no lock;
the failure of reading `/proc/uptime`.

### TimerList and TimerSeq

`next` maps the field `li->node` (`HeadField`) and the nodes to what they point
to; the iterator's `prev`, a pointer to a pointer, is the owner of that field.
A call is a step, as all callers hold `timerMutex`. `valid` says that the list
was not changed other than through the iterator, after which the callers always
call `get_first` again. `ret` records function, position and result of the last
call, so that the refinement compares calls and not only contents. `TimerSeq`
has a sequence, a cursor and the answers. Positions below -1 do not occur.

### ZcfgMsg and ZcfgRpc

The address `<<t, i>>` stands for the path `<prefix><eid>-<tid | i << 16>`, so
thread ids are taken to be below 65536 (the kernel's default limit is 32768).
`pc[t]` is in `_msg_send` or `_msg_recv`; `sock[t]` is the receive queue of the
call's socket; `srvq` the server's. `Request` takes the index and binds, in one
step as no other thread knows the path. `sendto` finds room (`SendOk`), gives
EAGAIN (`SendAgain`, `SendGiveUp`) or finds no server (`SendFail`). Requests
with a reply try again for ever: that is a step that changes nothing. Answers
carry ZCFG_NO_WAIT_REPLY, so that the server drops them when there is no room.
`RecvError` stands for a signal during `select`, no memory and a datagram of
unexpected length, and for ZCFG_MSG_WAIT_NONE finding no datagram.

The server's loop is not in the repository; it takes a request, works on it and
answers it. `ServerCrash` and `ClientCrash` are the environment's. After
`ClientCrash` the same thread ids come back, the index starts from 0 and the
paths of open requests remain (`stale`); a bind on such a path fails, and the
call removes the path as it returns.

Errors before the index is taken (no EID, no socket) change nothing and are left
out, as is one server's answer to another's path.

`ZcfgRpc` is what the callers rely on: call, refuse, handle at most once,
return the own answer or a failure, die. Mapping: the open call of a thread is
the request in `job`.

### ZcfgEid

`tab` is `_msg_data`, `path` says which socket is bound to the path of an EID,
`bound` which sockets are bound at all. `eidInit` and the look-up of one's entry
hold the mutex and are steps; `serverInit` goes on in steps for `socket`,
`unlink` and `bind`, each reading the entry anew as the code does. `Share` lets
threads without an entry call `serverInit` on that of the process; `Recycle`
lets threads end and their ids come back. A thread registers once and two
threads do not register the same EID. The run has `Share = FALSE`, and so
`ServerKept` says nothing of servers on a shared entry (below).

### Nmbm

The chip is an array of blocks below the signature: data blocks, then the
management area. A table fits one block, as 12 KiB do for every chip of the
router, and a logic block holds one datum. A block's contents are erased, torn (an
ECC error), a datum or a table. One call runs at a time, since `nmbm-mtd.c`
takes the device for each; within a call every flash operation is a step, and
`PowerCut` may come before any, leaving the block of that operation as it was, as
it will be, or torn. `BlockFails` is the failure of all tries of an operation;
the bad mark that follows may fail too. `ctl` holds the place in the code and the
local variables: `next`, `ret` and `built` are return addresses of the three
levels of procedures.

`LoadTables` is what `nmbm_load_info_table` finds and decides; it is used by the
actions of attach and, at every state, by the property `Survives`, which says that
the tables it finds lead to what users were promised and lie below the blocks that
replace others. Ghosts: `disk`,
what users may count on; `skipped`, that `nmbm_map_block` had to pass over a bad
block, after which it hands out blocks wrongly (below); `ReadsBack` and `Apart` are
stated up to there.

Promises end (`Exposed`) while the only table is rewritten in place, and when not
even one could be written, where the code says "Please save your data".

Left out: writing and finding the signature, the read-only flag, the branch of
`nmbm_rescue_main_info_table` after line 1408, which cannot be reached as the
temporary table is the limit of the write before it, and the read of data with
corrected bit flips.

### MtkTx

`page_lock` is `xmit.pc # "idle"`: one transmitter at a time, in steps for the
test of `free_count`, the mapping, the second look at `free_count` and
`netif_stop_queue`. The poll's steps are the acknowledgement, the read of the DMA
pointer, each reclaimed descriptor, completion with the decision to wake, the
wake-up, and after `napi_complete` the enabling of the interrupt. `job` is the
holder of the rtnl lock: a close, or a reset over all devices, in steps for
`netif_tx_disable` with the count, `napi_disable`, `mtk_stop_dma` and
`mtk_dma_free`. `netif_tx_disable` waits for a transmitter of its own device only.
External: the DMA (`Send`), and `dev_close` (`Deactivate`), which lets the
transmitters of a device out before `mtk_stop`.

`Drift` is `dma_refcnt` minus the open devices. It is not zero for ever after a
reset with a device down, or one that failed to reopen a device: that is the
code's behaviour, the properties do not promise much then, and the constraint
`Counted` stops there, after having checked the state itself.

Left out: the MT7628, whose ring is PDMA's; phylink; failing clocks; probe and
remove. `mtk_open` failing leaves everything as it was, so it appears only in the
reset, where it leads to `dev_close`.

### MtkRx

One device, since which of the two allocates or frees is MtkTx's subject.
`data[i]` and `addr[i]` are the driver's and the descriptor's idea of the
fragment behind descriptor `i`; `mapped`, `stack` and `leaked` say where
fragments are. The descriptors lie in SRAM and keep their contents over a stop.
`PollDrop`, `PollSkip` and `PollReceive` are the three ways through the loop body.
An allocation of the ring may fail at each descriptor (`OpenFails`), and the
cleanup then does what the code does: before the ring was complete once,
`dma_size` is 0 and everything allocated so far is lost (`leaked`).

Left out: hardware LRO and RSS (not on the MT7986), the contents of frames.

## Runs

| run | checks | states |
|---|---|---|
| UITimer_safety | one thread in the sections of the mutex, memory safety, owners, unique ids, no lost block, fate of each add, one-shot timers never early | 1,794,332 |
| UITimer_liveness | due timers run, deleted timers are freed, Destory returns | 67,246 |
| TimerList | chain and iterator, refinement of TimerSeq | 49,322 |
| ZcfgMsg_calls | one answer, no silent loss, refinement of ZcfgRpc, every call returns | 62,617 |
| ZcfgMsg_wrap | own answer while the index wraps and the server crashes; types | 3,603 |
| ZcfgMsg_restart | refinement, which includes the own answer, across restarts of client and server | 53,334 |
| ZcfgEid_register | a thread keeps its EID, a server stays reachable, there is an EID to send with, entries stay | 19,860 |
| Nmbm | data read back, tables found after a power cut at any step, blocks kept apart, every call returns | 534,873 |
| MtkTx_safety | ring used only while allocated, ring and queue counters add up, no lost wake-up but the two known ones | 3,877,014 |
| MtkTx_liveness | descriptors reclaimed, stopped queues started again | 170,358 |
| MtkRx | own buffers, budget, every frame handled, the DMA never left without descriptors | 92,666 |

`MtkTx_reset_bug` shows the code in disagreement with its comment, "stop all
devices to make sure that dma is properly shut down": a reset also stops and
opens devices that are down, `dma_refcnt` then counts one device twice once its
user opens it, and the next reset does not reach zero. The DMA is not shut down,
and since `mtk_open` finds the count above zero nothing starts it after the
hardware reset has turned it off.

### Other disagreements

These have a property in their module that the code violates, and no run of
their own. To see one, take the configuration named, change the constants as
said and check the property.

- UITimer, `ListedIsNotFreed` (UITimer_liveness with Spec, MaxNow 3,
  `Rules` without retDataPtr, and only UIAddPeriodicTimer, UIDelPeriodicTimer and
  UIDelPeriodicTimer_retDataPtr in ClientApi, nothing in CallbackApi):
  `UIDelPeriodicTimer_retDataPtr` leaves a pending timer in the list and
  `UITimerProc` frees it, the case that the comment in line 272 sets out to avoid.
- UITimer, `StoppedNeverRuns` (likewise, with UIAddTimer, UIDelTimer and
  UIDelAllTimer): `UIDelTimer` on an empty list answers success for a timer that
  is already in `temp_list` and runs afterwards; the comments in lines 516 and 628
  promise 1 for an id that is not listed.
- UITimer, `PeriodicNotEarly` (UITimer_safety with one id, MaxNow 5, MaxArm 2 and
  only UIAddPeriodicTimer): the re-arming of a periodic timer in line 287 has no
  carry, which the add functions were given in 2009 (comments in lines 351 and
  402), and the timer runs early.
- ZcfgEid, `EidIsMine` (ZcfgEid_register with 3 slots): a thread with a recycled
  id gets the EID of a thread that has ended; the comment in line 494 says
  "Initialize EID per thread."
- ZcfgEid, `ServerPerThread` (ZcfgEid_register with `Recycle = FALSE`,
  `Share = TRUE`, `SocketFails = FALSE`): two threads that share the entry of the
  process are in `serverInit` together; one is told success and has no server.
- Nmbm, `OneUser` (SigBa 9, FactoryBad {{7}}, MaxFail 3, MaxOff 0):
  `nmbm_map_block` takes the next good block below `mapping_blocks_top_ba` and
  then lowers the latter by one, not to below that block (line 1612). After it
  has passed over a bad block it gives the same one to two logic blocks; its
  comment says "Map a bad block to a unused spare block".
- Nmbm, `ReadOnlyReads` (as in the run): "Device is now read-only" (line 2033),
  but the read functions return -EROFS too while the device is protected.
- Nmbm, `Recorded` (as in the run): `nmbm_update_info_table` goes on "until no new bad block found
  during updating" (line 1566), but a block found bad while the main table is
  written is forgotten by `nmbm_mark_tables_clean` at the end of that write.

Bounds. UITimer: one client, the callbacks and the main thread are three callers
at the side of the timer thread; two ids and two blocks give a second timer and a
block that is reused after a free; a second of 3 ticks and a length of 2 make
deadlines cross it; three adds are an add, a re-add and one more by a callback.
TimerList: three elements have a first, a middle and a last. ZcfgMsg: four
requests of two threads, and queues of one or two so that they fill; the wrap
run has one thread, three index values, a queue of one, and eight requests, so
that the index goes round more than twice. There the server can hold two
requests (one queued, one in work), one less than there are index values: the
code relies on 65535 being more than a server can ever hold. With two threads
that is not enough, since one may stay in its EAGAIN loop while the other goes
once round; with 65535 values that takes 65534 requests in between. ZcfgEid: three
threads for two entries, so that the table is full.

Nmbm: two logic blocks, six management blocks and one spare block between the
tables are the least that has a main table, a spare, a backup and blocks to
replace others. One chip starts with a bad data block, so that the creation maps a
logic block, the other with hardly a good management block, so that there is
no room for a backup or a rescue. Two failures and two losses of power are a
failure during the repair of an earlier one and a loss of power during the
attach after another. Two branches of `TmpWritten` need three failures and were
run separately with one loss of power (1.06 million states). With four failures
`Survives` does not hold: the erase of the backup table and its bad mark may both
fail, and the result of marking is looked at by nobody, so that an old table stays
readable. Nor does it hold when a chip with two bad data blocks lets users get at
a marked block (FactoryBad {{0, 1}}, two failures and two losses of power):
`nmbm_mark_bad_block` marks the block, the power goes off before the tables say so,
and the next attach maps it again. `nmbm_erase_logic_block` looks at the mark
(line 2430) and `nmbm_write_logic_page` only at the state in memory (line 2712), so
that a write is accepted; once the power is cut again while a table is written,
`nmbm_search_info_table` takes the marked block for bad and the data are gone
(with a third loss of power TLC finds `ReadsBack` violated as well). In the run
neither does harm, and the proof below needs no other condition than these two.

MtkTx: five descriptors, of which two are never used, a threshold of one, packets
of one and two descriptors: the ring fills, wraps and stops queues both before and
after a packet. A budget of one makes every poll end early. Two devices for
safety; one for liveness, where the DMA, the poll, the watchdog and the reset are
what matters. MtkRx: three descriptors and four fragments, so that there is one
fragment to exchange with and none while the stack holds it; a budget of two is
used up in one or two rounds.

ZcfgMsg_restart has no timed requests. A request that timed out leaves no path
behind, and if the process then dies and the same thread id and index come back
before the server answers, the answer is taken by the wrong request. The
protection that the run checks is only that of the paths.

CHECK_DEADLOCK is off where the bounds on requests, sockets or registrations let
the model end; the timer, list and ring models never stop.

Fairness. UITimer: the clock advances, the kernel schedules the threads, so that
one that holds `timerMutex` does its work and unlocks it, a callback that has
begun an add goes on, and so does a thread inside `UITimer_Destory`; callers are
never obliged to call. The timer thread, and an add of its callbacks, needs strong
fairness: clients may lock and unlock the mutex for ever, and a thread that waits
gets it at some time. ZcfgMsg: threads in a call
are scheduled, `select` times out, the server takes and answers what it has and is
started again; receives need not fail and processes need not crash. Weak
fairness is enough, as a step of a thread that waits stays enabled until that
thread takes it; a send into a full queue is served because the liveness run's
requests are finite in number. Nmbm: a call that was begun goes on; the power need
not go off. MtkTx and MtkRx: code that has begun goes on, interrupts are delivered
and softirqs run, the DMA sends what it was given, the watchdog's timer expires.
The reset needs strong fairness, as it competes for the rtnl lock with opens and
closes and a mutex of the kernel is handed out in turn. Nobody has to transmit,
open or close, no frame has to arrive and the stack may keep its skbs.

## Proofs

TLAPS proves, for any number of timers, threads, entries, requests, blocks,
descriptors and devices, that is for every value of the constants that the
`ASSUME`s of the modules allow; TLC evaluates these in every run. The bounds that
only make the models finite (`MaxArm`, `MaxReq`, `MaxFail`, `MaxOff` and the like)
are constants too, so that the theorems hold however large they are. Each proof
has an invariant that is kept by every step, one lemma or step for an action.

UITimerProofs. `TypeCorrect`. `SectionsAreExclusive` asks only for the rules start
and stop. Its invariant is `Exclusive`: whoever is in a section holds the mutex,
except the timer thread once a stop has unlocked it, and then no client is in a
call. With disciplined callers `MemorySafety`, `IdsAreUnique` and
`BlocksHaveOneOwner`. `MemorySafe` is not inductive: that `temp_list` does not
dangle after a delete rests on the status of the timer, that UITimerProc's free
does not hurt a list on DEL meaning unlisted, and that what was found in a search
is still listed on `Exclusive`. The invariant is `TypeOK`, `Control` (where
UITimerProc is, and what it has in hand), `Exclusive`, `OneOwner` (no block belongs
to two) in `Owners`, `StatusTells` (the status says who may free), `UniqueIds`,
`Hands` (what a function has found is what its search would still find, and the
rule it was called under still holds), and that the timer thread makes no call
outside a callback.

UITimerFateProofs, on top of it. `OneShotsRunOnce`: each add call that may still run
has exactly one carrier, a listed block or a copy in `temp_list`, and has neither
run nor been cancelled (`Fates`). `NoTimerIsEarly`: deadlines are normalised pairs
whose value is the exact deadline, and UITimerProc's snapshot of the clock is not
ahead of it (`Deadlines`). `NoBlockIsLost`: a pending timer is in `temp_list`, and
what is in `temp_list` is listed, marked to be freed or a known leak (`Reach`).

TimerListProofs. `ListStaysChained` and `ImplementsSequence`, for lists of any
length. The invariant `ListInv` says that there is a sequence of cells from the
head field over different nodes to NULL which are exactly the allocated ones, and
that the iterator stands on it. The cells are a recursive function of the pointers;
what a step does to them is proved by looking at the first cell that would
differ, since the induction theorems of the library cannot be used. The refinement
has one lemma for each call, which compares contents, cursor and answer.

ZcfgMsgProofs. `MsgTypeCorrect`; and while addresses are not reused (`NoReuse`:
no restart of the client and no more requests than index values) `RepliesMatch`,
`OneReply` and `ImplementsRpc`, whatever times out, fails, fills or crashes at
the server. Invariant: open calls have a job (`OpenJobs`), index and number of a
request agree (`Numbered`), a request is in one place on its way to the server
(`AtMostOnce`), and what is queued on a call's socket is its own answer
(`Answers`). `NoReuse` is stronger than the code needs: the wrap run shows the
index going round, but what keeps it safe is a count of queued requests that the
proof does not follow. `ToldRequestsArrive` (`NoSilentLoss`) needs no such
condition.

ZcfgEidProofs. `EidTypeCorrect`, `EntriesStay` (an action property); until a thread
of the process has ended `EidsAreKept`; if besides threads register before they
serve, `ServersReachable`. Invariants: entries in use are complete (`InUse`), the table
says of each thread what it registered (`OwnEntries`), a thread in `serverInit`
is alone with its entry (`Private`), sockets are new (`FreshSockets`), and each
step of `serverInit` finds what the last one left (`Progress`). The conditions
are those without which `EidIsMine` and `ServerPerThread` fail.
`EveryThreadCanSend` holds without them, since the first entry is taken before any
other (`FirstTaken`) and no entry is ever given back.

NmbmProofs. `NmbmTypeCorrect` says that no operation leaves the arrays over the
blocks; its invariant is `TypeInv`, the exact types of memory and tables with the
return addresses of the procedures (`Control`). The data of users rest on
`Session`: as long as `nmbm_map_block` has not passed over a bad block, the tables
lie in order below `mapping_blocks_ba` and that below the top (`Layout`), every
range that is written or erased lies there too and where its procedure expects it
(`Ranges`), no map in memory or on the flash has a block twice and none maps into
that area (`Separate`), nothing is promised of the block a call works on (`Caller`)
and what was promised is in place (`Kept`). Every step keeps it, failures and
losses of power included, except for what an attach starts from, which is a
matter of what is on the flash. Hence `FirstSession`, without a condition, from
the creation of the tables to the first time the device is turned off; and
`SessionsReadBack` and `SessionsKeepApart` from then on, under `[]Recovers`: each
attach finds what `Survives` says.

That it does is `TablesSurvive`: `Survives` at every state, so wherever the power
goes off, under `[][Marked]_vars`. `Marked` says of a step that an operation and
the marking of its block do not both fail (`MarksWork`) and that users do not write
to a block that is marked (`MarksHeeded`); these are the two ways to lose data of the
bounds above, and without either the theorem is false. Operations may still fail,
and the power go off, any number of times. `PowerCutsReadBack` and
`PowerCutsKeepApart` follow from it for `ReadsBack` and `Apart`, with nothing
assumed of what an attach finds.

`Survives` is far from inductive, as it speaks of one reading of the flash. The
invariant `Tabled` describes the flash itself. `Copies` are the blocks that an
attach can find a table in; `InOrder` says that there are at most two and that they
belong together (`Pair`: neither knows the other's block to be bad, the one written
more often has the later states, equal counts mean equal maps, and in front of the
first there is no block that would take a table). While the device is off, every
copy leads to what was promised (`Leads`). While it is up (`Known`), the copies are
those that the procedure at work keeps and the one that it has just written, but for one
that will be written over next (`Whole`, `Keep`, `New`); the memory is later
than any copy (`Older`) and has the same block for what was promised (`Agree`);
there is no room in front of the tables (`Placed`), the map on the flash is that of the
memory or is about to be written (`Current`), the table being written is that of the
memory but for blocks that failed meanwhile (`Cached`), and the one that stays
knows the bad blocks in front of it (`Ahead`). Each procedure has a lemma that it
keeps this; the loss of power (`OffTables`) follows since the block in flight is
neither a table that is kept nor promised to anyone (`InFlightIs`), and the attach
(`AttachTables`) since `LoadTables` sees exactly the copies (`LoadSees`). TLC checked
`Tabled` before it was proved, with three failures and two losses of power on chips
with two bad data blocks and with hardly a good management block.

MtkTxProofs. `TxTypeCorrect`, `RingOutlivesUsers`, `RingAddsUp` and
`QueuesAreWoken`. The invariant follows the order once round the ring (`RingOrder`:
`last_free`, the DMA, what the DMA was told of, `next_free`, with
`free_count` and the owners between them), the life of ring, NAPI and DMA from the
first open to the last close (`Lifetime`, `References`), what the transmitter
inside the lock may rely on (`Transmitter`), the packets the stack counts
(`Counts`), whom a reset has waited for (`ResetOrder`), and who is going to
wake a stopped queue (`Waking`).

MtkRxProofs. `RxTypeCorrect`, `RingOwnsBuffers` and `WorkIsReported`. Invariant:
every descriptor of a live ring has a fragment of its own that is mapped and that
neither the stack nor the allocator has (`Fragments`); the descriptors that the
DMA has filled lie between `calc_idx` and the DMA (`RingOrder`); what a poll has
done and what it may still do add up to its budget (`Rounds`). Allocation hands out
the k-th free fragment, which exists by a lemma on ranks in finite sets.

Only model-checked: what must eventually happen, which needs fairness and is out
of the prover's reach (`OneShotServed`, `DeletedIsFreed`, `DestoryReturns`,
`CallsReturn`, `OpsReturn`, `Reclaimed`, `Unstuck`, `Handled`, `Replenished`);
`Survives`, and beyond the first session `ReadsBack` and `Apart` of Nmbm, where
marking fails or marked blocks are written to, which the run's bounds allow
and which does no harm there; `ReplyMatches` and `RpcSpec` beyond
`NoReuse`, that is with the index wrapping (ZcfgMsg_wrap) or the client restarting
(ZcfgMsg_restart). The theorems of the library that take a predicate as a parameter
cannot be used with the provers at hand, and so induction appears as a least
counterexample.

## Plan

1. Nmbm: a weaker condition than `MarksWork`, which allows the marking of users'
   blocks to fail: only a table that could not be marked does harm. What holds
   after `nmbm_map_block` has passed over a bad block (`skipped`).
2. ZcfgMsg: a weaker condition than `NoReuse`, which follows the requests that a
   server holds.
3. Models: the front end `zcfg_fe_rdm_access.c` on top of `ZcfgRpc`, with what a
   caller knows of a write after a timeout; the signature of NMBM; a composition
   of MtkTx and MtkRx on one `dma_refcnt`.
