# Formal models of the Beken FreeRTOS SDK

TLA+ models of the concurrent core of the SDK: the request/confirm protocol
between the Wi-Fi stack and the MAC, the reference-counted scan results, the
role launcher that serialises station and soft-AP requests, the station's DTIM
power save, the byte ring between the audio interrupts and threads, the video
path from the camera's interrupts to the reader of a frame, and the key-value
store in flash. TLC checks the models on small instances; TLAPS proves their
safety properties, all but one, for every instance. Paths below are relative to
`beken378/`.

## 1. The system

The SDK is firmware for single-core Wi-Fi SoCs (BK7231, BK7231N, BK7221U,
BK7252N ...) on FreeRTOS. The MAC, the PHY and the BLE controllers are shipped
as archives, the network, crypto and supplicant stacks are third-party; what
the repository itself implements is the glue between them, the drivers and the
user interface. Concurrency is that of FreeRTOS: strict thread priorities with
time slices between equals, plus interrupts, and critical sections made by
disabling interrupts (`GLOBAL_INT_DISABLE`).

### Components

| component | state | operations | interacts with | what makes it correct |
|---|---|---|---|---|
| MAC requests (`func/rwnx_intf/rw_msg_tx.c`, `rw_msg_rx.c`, `app/app.c`) | list of waiting nodes `rw_msg_tx_head`, list of messages `rw_msg_rx_head`, core queue, `app_sema` | `rw_msg_send`, `mr_kmsg_fwd`, `rwnx_recv_msg`, core and kmsgbk threads | every user of the Wi-Fi stack; the MAC | a node kmsgbk touches exists; answers reach the right call; calls return |
| Scan results (`func/rwnx_intf/rw_msg_rx.c`, `func/hostapd_intf`) | `scan_rst_set_ptr` with its count and list, `resultful_scan_cfm`, the supplicant's `s_scan_result_upload_ptr` | result and confirm handlers, get, release, flush | kmsgbk, supplicant, applications | nothing leaked or dangling, scans not mixed, list sorted |
| Role launcher (`func/joint_up/role_launch.c`) | socket, cache, two timers, two roles with a previous and a following request, status words | enter and launch timer handlers, `rl_*_request_enter`, status setters | `wlan_ui.c`, hostapd, supplicant, lwIP, airkiss, kmsgbk | requests start in order, none is forgotten, a stop sticks, a pause excludes starts |
| Audio ring (`driver/audio/ring_buffer.c` with `audio_adc.c`, `audio_dac.c`) | `wp`, `rp`, memory, device status | `rb_read`, `rb_write`, open, close, play, pause, the two interrupt handlers | audio task, interrupts | a FIFO of bytes; reported counts are true |
| DMA rings (`driver/audio/ring_buffer_dma_*.c`) | one pointer in memory, one in a DMA register | as above, and pause addresses | general DMA | as above |
| Video transfer (`func/video_transfer/video_transfer.c`, `func/camera_intf/camera_intf.c`) | pool of buffers on a free and a ready list, message queue, thread, status | frame and packet interrupts, poll and exit handlers, init, deinit | camera, `send_func` | no buffer lost or used twice, packets sent in order, a session ends cleanly |
| Video frame buffer (`app/video_work/video_buffer.c`) | `g_vbuf` with the reader's buffer, assembly state, semaphore; `g_pkt_seq` | open, close, read_frame, the receiving callback | video transfer, application | a read that succeeds has one whole, fresh frame; close frees nothing in use |
| Flash store (`func/key_value_flash`) | root, name and data sectors | write, read, clean, clear, ensure, erase | applications, flash | what was written last is read back; losing power costs only what was being changed |
| Station power save (`func/power_save/power_save.c`) | `ps_real_sleep`, `ps_lock`, `prevent_sleep`, wake-up way, keep and wait timer, core queue, `wk_list` | enable, disable, sleep, wake-up interrupt, manual wake-up, timer handlers | core thread, MAC, temperature thread, supplicant, applications | the sleep can always end, the radio is awake for its users, nobody waits for ever |
| Transmit buffering (`func/rwnx_intf/rw_tx_buffering.c`), AP idle (`func/power_save/ap_idle.c`) | | | | compiled by no configuration |
| MCU power save (`func/power_save/mcu_ps.c`) | prevent mask, tick compensation | sleep, prevent and clear calls | idle task | never asleep with work pending |
| Driver model (`driver/common/drv_model.c`) | use counts, states | `ddev_open`, `ddev_close` | all drivers | open and close calls balance |
| Music player ring (`func/music_player/driver_audio_if.c`) | read and write pointers | fill, play | audio interrupt | a FIFO |
| everything else | | | | register-level drivers, console, demos, protocol clients, third-party stacks: see section 7 |

### What is hard here

* **Ordering and timeouts**: confirms arrive late, out of order or never, and
  are matched by id only; the waiter's five seconds race the handler.
* **Interleaving**: most shared state is protected by short critical sections,
  some of them inside the MAC library's lists, other pieces by none (the
  pointers of the audio ring, a pick and the pop that follows it), and
  correctness rests on priorities.
* **Partial failure**: a full core queue, a failed allocation or a cancelled
  launch leaves the work of earlier steps to be undone.
* **One-slot mailboxes and one-shot timers** in the launcher: overwriting,
  overtaking, forgetting.
* **Boundaries**: full and empty ring, pointers resting on the capacity, a
  frame that fills its packets exactly, a sector that is full.
* **Loss of power** between two flash operations of one call.
* **Waiting for oneself**: the core thread sends frames through a function that
  may wait for a message only the core thread handles.

`PROJECT.json` lists the hazards at their lines with the properties that cover
them; section 5 adds those that no property covers.

## 2. Modules

| module | role |
|---|---|
| `MacRequest` | the request/confirm protocol |
| `MacMessages` | the table of requests: ids, and which of them wait |
| `MCMacRequest` | its instances for TLC |
| `MacRequestProofs` | its theorems |
| `ScanResults` | the scan result set and its borrowers (a run module itself) |
| `ScanResultsProofs` | its theorems |
| `RoleLaunch` | the role launcher with its callers (a run module itself) |
| `RoleLaunchProofs` | its theorems |
| `ByteFifo` | abstract specification: a bounded FIFO of bytes |
| `RingBuffer` | the audio ring under microphone and speaker (a run module itself) |
| `RingBufferProofs` | its theorems, including the refinement of `ByteFifo` |
| `PacketStream` | abstract specification: packets in order, each at most once |
| `VideoTransfer` | the pool between camera and video thread, shown to implement `PacketStream` (a run module itself) |
| `VideoTransferProofs` | its theorems, including the refinement of `PacketStream` |
| `VideoBuffer` | frames put together for a reader (a run module itself) |
| `VideoBufferProofs` | its theorems |
| `FlashStore` | the key-value store as sequences of flash operations |
| `MCFlashStore` | its instance for TLC |
| `FlashStoreProofs` | its theorems |
| `StationSleep` | DTIM power save and everyone who wakes the radio (a run module itself) |
| `StationSleepProofs` | its theorems |

### MacRequest

A call of `rw_msg_send` is identified by thread, sequence number and id; the
same record names its `MSG_SND_NODE` (`Node`), its message and the answer.
`pc[t]` walks through `rw_msg_send`: `Call` (allocate, link), `Post` or
`PostFails` (`bmsg_ioctl_sender`, which never waits), `Confirmed` or `Timeout`
(`rtos_get_semaphore`), `Withdraw` (the extract after a timeout) and
`ReturnOk`/`ReturnFailed` (release of semaphore and node). `live` are the nodes
allocated, `given` those whose semaphore has been set. `CoreThread` hands
requests to the MAC; `MacAnswer` and `MacIndicate` are the MAC's side
(external: any order, any delay, possibly never) and call `mr_kmsg_fwd`.
kmsgbk's loop is cut at every point where another thread may run: `Pop`, then
`Match`, `Extract`, `Copy`, `Signal`, or `Handle` when nobody waits for the
message.

**The lists.** `rwnx_recv_msg` and `tvideo_poll_handler` call
`co_list_pop_front` and `co_list_push_back` without disabling interrupts, while
the core thread or an interrupt changes the same list. Each call is nevertheless
one step here, because the functions do it themselves: the object code of the
list is in the repository, in every `lib/librwnx_*.a`, and both functions begin
with calls of `portDISABLE_FIQ` and `portDISABLE_IRQ`, read and write the list,
and end with `portENABLE_FIQ` and `portENABLE_IRQ` if they were enabled before:

    ar x lib/librwnx_bk7231n.a co_list.o
    readelf -rW co_list.o         # .rel.text.co_list_pop_front, _push_back
    arm-none-eabi-objdump -d co_list.o

`co_list_extract` has no such calls, and its callers put it between
`GLOBAL_INT_DISABLE` and `GLOBAL_INT_RESTORE`. What is not protected is the time
between two list calls, and there the models let the others in. That the masking
matters is shown by `PollPopsUnmasked`, a form of `PollPops` without it, under
which TLC finds `PoolConserved` violated: an appended buffer is cut off.

Scheduling: the core thread and the MAC run at any time; an ordinary caller
runs only while kmsgbk is blocked (`CanRun`), because kmsgbk's priority is
higher. Threads in `Peers` are scheduled alongside kmsgbk: that would be the
FreeRTOS timer task, in builds where it calls `rw_msg_send`; the runs have
none. `Match` is one step
although the traversal releases the interrupt lock between nodes: only callers
change the list, and ordinary ones cannot run then; with peers this is
coarser than the code.

`answers`, `timedOut` and `dangling` are history variables.

`MacMessages` lists the builders of `rw_msg_tx.c`: all of them allocate, fill in
and call `rw_msg_send`, and differ here only in the id they expect and in
whether a buffer is passed, so that the call waits.

### ScanResults

The build with `CFG_WPA_CTRL_IFACE` (the default of every configuration). A set
is a block of the heap with a count `ref` and a list `res`; `alloc` are the
blocks in use. kmsgbk's handlers `SCANU_RESULT_IND` and `SCANU_START_CFM` are one
step each, because kmsgbk is above the supplicant and the applications; the
borrowers' get and copy is one step with interrupts disabled, their release
another, and kmsgbk may come between. The supplicant's release reads its pointer
first (`WpaCheck`) and takes another way when it was cleared (`WpaReget`). It may
read at any time: its source is not in the repository, and it is told of a
confirm by a signal. A late release of a freed block is a no-op while the block
still holds `ref` 0, hits the new set when that got the same block, and may
corrupt the heap otherwise (`corrupt`, after which the model says nothing).
`sr_get_scan_results` without a set stores to address 0, which is flash: the
model takes that store as lost. An entry is its BSSID, level, whether it was
heard on its own channel, and the scan it came from; `sort_scan_result` is
translated loop by loop: `SortPass` is the inner loop, `Exchange` its body. The
applications are finitely many and the supplicant is none of them
(`ScanAssumption`).

### RoleLaunch

Compiled only in a BK7231N build with `CFG_WPA_CTRL_IFACE` 0
(`config/sys_config_bk7231n.h` sets `CFG_ROLE_LAUNCH` and undefines it when the
control interface is on); the model follows that configuration, without
`RL_SUPPORT_FAST_CONNECT`.

Both timer handlers run in the FreeRTOS timer task, so they exclude each other,
but a start blocks inside the handler. `pc` is therefore "idle", inside a
station start ("sta"), inside an AP start ("ap", "hostapd"), or between the two halves of
`rl_enter_handler` ("enterAp"); `by` is the handler that made the start.
`rl_enter_handler` and `rl_launch_handler` are one step up to the first call
that blocks, and `bk_wlan_start_sta`, `DelifSta`, `bk_wlan_start_scan`,
`bk_wlan_start_ap`, `DelifAp` are the rest of the start together with the rest
of the handler. An AP start blocks twice: waiting for the beacon and stopping
the old AP ("ap"), and, after `bk_wlan_ap_init` has reset the channel switch flag
`csa` that the stop had set, in `hostapd_main_entry` ("hostapd"). Only a start
that fails and a removal leave `csa` at "switched". Application threads, the supplicant and airkiss run while the timer
task is blocked (`CanRun`); kmsgbk's indications (`mhdr_disconnect_ind`,
`ScanCfm`) at any time. `RequestSta` and `rl_ap_request_enter` are
`bk_wlan_start` and the console commands; `bk_wlan_stop` and
`bk_wlan_start_sta_adv` are two steps each, around `sta_ip_down`.

Abstractions: a request is its type and a number; SSIDs and keys are left out.
The supplicant is `sess` with the calls it makes into the launcher; the second
`SCAN_OVER` it writes for an empty result list follows the one of `ScanCfm` and
is folded into it. Entities are all `LAUNCH_TYPE_ASAP` with no relaunch limit,
as `rl_alloc_entity` makes them, and its allocation does not fail.

### RingBuffer

`Isr` says which side is the interrupt: the microphone writes in the interrupt
and reads in a thread, the speaker the other way round. The thread's call is cut
between every access to a shared pointer or cell; the interrupt's call runs to
its end before the thread goes on (`MayRun`). Pointers are read once per
expression, as the -Os build does. A byte is its place in the stream, so the
memory shows whether a reader finds what was written there. `Open` and `Close`
reset the ring, and with it the stream.

### VideoTransfer and PacketStream

The interrupts of `camera_intf.c` (end of a packet's DMA, end of frame) are one
step each and may fall between any two steps of the thread; the thread's
`tvideo_poll_handler` is cut at each list call (see "The lists" above): pick the
oldest ready buffer, `send_func` (which may refuse), pop, recycle. `tvideo_exit` is cut
between freeing the pool, closing the camera and deleting the queue. The
application's init polls the status, which no session resets at its end, and
may give up after its two seconds; its deinit posts `TV_EXIT` once without
waiting. `Preempts` says that the callers run below the video thread (the demo
threads have priority 4, the video thread 2, and a lower number is a higher
priority): without it an init may read the status of the last session.

`PacketStream` is what `send_func` may rely on: packets come in the order of
their arrival, nothing of a frame follows its end mark, each is delivered at most
once, and only arrival may refuse one. The refinement maps `pending` to the
contents of the ready list, without its head once that was sent.

### VideoBuffer

The video thread is seen through its stream: `pending` are the packets accepted
and not yet delivered, and a packet that finds the pool full is lost before it
gets a header. Lengths are counted in packets. `video_buffer_recv_video_data` is
one step (the video thread is above reader and owner); the reader's call is cut
between its test of `g_vbuf`, draining the semaphore, publishing its buffer,
waking, judging and taking the buffer back, and the close between stopping the
transfer, waking the reader and freeing. A reader that is overtaken by a close
between its test and its first use goes to the state `fault` and is not
followed. `SeqMod` is 3 in the run so that `pkt_seq` wraps.

### FlashStore

A call reads the sectors and computes its `plan`, the erase and program
operations it then performs one by one (`FlashStep`); `Crash` forgets the call
between any two. A cell holds a byte of a value or is erased; programming one
that is not erased leaves garbage, as clearing bits does. Entries, masks and
offsets follow the code, including that `bk_set_namespace` does not erase the
sectors of the block it takes; `WriteBack` and `Others` are the loops of
`bk_reorganize_name_data` and `bK_clear_namespace`. `None` stands for no value,
no namespace, no name and no call, and is none of them (`StoreAssumption`).
`kept` is what every key should read, `unsure`
the keys an interrupted call put at risk. The calls come from one thread, a
flash operation is atomic, and the read-only factory partition is left out.

### StationSleep

The core thread takes a message, may transmit, runs the MAC library's events,
checks and sleeps; sections with interrupts disabled are single steps, and the
wake-up interrupt, the timer task, the temperature thread, the supplicant and
the application come between. The core queue drops what it cannot hold, as
`bmsg_ps_sender` does. The library is external: it confirms mode requests later
and in order, reports a beacon or not, and may always refuse to sleep; it does
refuse while a bit of `prevent_sleep` is set or the null frame of a mode change
is out. `heard` and `missed` are history. The build is the one without BLE and
low voltage sleep.

## 3. Runs

The runs take from a few seconds to about three minutes.

| run | question | bounds |
|---|---|---|
| `mac_request` | timeouts racing late confirms, queue with room; nothing hangs although the MAC may be silent | 2 threads, 2 calls each, queue of 4 |
| `mac_full` | what a full core queue leaves behind, and where stale answers go | 2 threads, 2 calls each, queue of 1, 1 other message, 1 indication |
| `mac_full_assert` | ASSERT after `rtos_set_semaphore` with a full queue: **violated** | as above, without the indication |
| `role_launch` | pause handshake, and a queued request gets its turn | 2 station requests, 1 stop, 1 airkiss session |
| `role_launch_ap` | both roles competing, channel switch, stop, adv start | 2 requests, 1 stop, 1 switch, 1 adv start |
| `scan_results` | collection, flush and release interleaved | 4 access points for 3 places, 2 levels, 2 scans, 2 blocks, 1 application |
| `rb_adc` | microphone: refinement of the FIFO | capacity 10, frames of 2 and 4, reads of 1, 4, 6; 26 bytes |
| `rb_dac` | speaker: nothing lost or overwritten | the same |
| `video_transfer` | interrupts against thread, init and deinit; refinement of `PacketStream`; deinit returns | 3 buffers, queue of 2, 5 packets, 2 frames, 2 sessions |
| `video_buffer` | frames against reads with timeouts and a close | frames of up to 3 packets, 3 frames, buffers of 1 and 3, 2 reads, 2 opens |
| `flash_store` | any sequence of calls, with a loss of power anywhere | 2 namespaces of 2 names, 2 blocks of 2 entries and 3 bytes, values of 1 and 2 bytes, 1 crash |
| `station_sleep` | sleeping, waking and waiting interleaved; waiters return | limit 2, queue of 2, 2 calls |

Why the bounds are enough. In `MacRequest` the interesting cases need a timed
out call, a late confirm and a second call of the same id, while another thread
does the same: two calls of two threads. In `ScanResults` the second scan meets
the set of the first, two blocks allow both reuse and another address, and three
entries are the least for which the sort's inner loop matters. In `RoleLaunch`
one request in progress and one queued make two, and stops, pauses, the adv
start and reconnections supply a third. In `RingBuffer` 26 bytes go around a
ring of 10 more than twice, and the mixture of odd and even sizes makes the
pointers meet the end of the memory exactly and across it. In `VideoTransfer`
five packets fill the pool of three and reuse it, a queue of two is full with
one message more, and the second session meets what the first left. In
`VideoBuffer` three frames let a read start in the middle of one, time out
during the next and succeed with the third. In `FlashStore` the third write to
a block reorganises, and moves the live entry that was second to the front;
two live entries across a reorganisation would need a third name, and calls are
not bounded. In `StationSleep` two calls are an enable with a disable, a link
change or a reset behind it; beacons, traffic, timers and sleeps are not
bounded. The theorems remove the bounds for the safety properties they state.

Deadlock is checked in the ring and the flash runs. In the others the bounds on
calls and requests let the system come to rest, so it is not.

### Fairness

* `MacRequest`: weak fairness for the core thread, for kmsgbk and for each
  caller inside `rw_msg_send` (its wait is bounded by five seconds). Nothing is
  assumed of the MAC.
* `RoleLaunch`: weak fairness for the timer task (handlers run when their timer
  expires, and a start ends: its waits poll the MAC), for the return of the
  application's stop and start calls, for the confirm of a scan and the end of
  a channel switch. None for applications, supplicant, disconnections, airkiss.
* `VideoTransfer`: weak fairness for the thread and for the return of a deinit
  that polls. None for camera and application.
* `VideoBuffer`: weak fairness for reader and owner once inside a call. No
  timeout is assumed to end a wait, since a caller may wait for ever.
* `StationSleep`: weak fairness for the core thread, for the wake-up at the
  listen interval, for running timers and for the radio's users; strong
  fairness for `power_save_sleep`: a library that is asked again and again with
  nothing against it lets the MAC sleep at some time. None for the application,
  the link or traffic.

## 4. What the properties say

* `SetSemaphoreSucceeds`: the ASSERT of `rwnx_recv_msg`. It holds with ordinary
  callers as long as the core queue never overflows.
* `OnlyFailedPostDangles`: with overflows, failed posts are the only cause.
* `AnswersAreOneToOne`, `StaleAnswerNeedsTimeout`: a caller that gets 0 got a
  confirm of its id; no confirm is used twice; the only foreign answer is a late
  one to an earlier call of the same thread, after a timeout. An answer that
  nobody receives went to a node that a failed post left on the list.
* `RxDrained`, `CallReturns`: no lost wakeup, no call that hangs.
* `NoSetLeaked`, `UploadPointsToCurrent`: the one set allocated is the current
  one, and the supplicant's pointer is that or NULL, even after late releases.
* `OneScanPerSet`, `ConfirmedIsSorted`: what readers find is one scan, and once
  confirmed sorted and without duplicates until it is freed.
* `CountIsReaders`: references are counted right in every order of readers,
  until a flush takes a set from one that has still to release it.
* `PauseExcludesLaunch`, `StopSticks`, `FollowingHasTimer`, `StaLaunchOrder`,
  `FollowingServed`: see the launcher's row in section 1. `StopSticks` is said of
  a `bk_wlan_stop` by an application, until the application's next request (the
  history `stopped`), and names its one exception (`erased`): from a removal that
  the launcher enters itself to the start of that removal.
* `PublishedBytesPresent`, `FifoImpl`, `WriteCountIsTrue`, `ReadCountIsTrue`:
  the ring. `PublishedBytesPresent` names its one exception: a wrapped
  `rb_write` moves `wp` before its second memcpy, so the speaker's interrupt may
  play up to the wrapped part of old bytes. This is why only the microphone
  side refines `ByteFifo`.

* `PoolConserved`, `StreamSpec`: interrupts and thread share
  the pool without losing or reusing a buffer, and what is popped is what was
  sent. `NoLostPoll`: nothing ready is forgotten, except a packet `send_func`
  refused, which waits for the next interrupt.
* `NothingUsedAfterFree`, `SuccessMeansRunning`, `DeinitReturns`: sessions. The
  first names its exception, the window of `tvideo_exit` in which a handler may
  still copy into the freed pool.
* `SuccessIsWhole`, `FitsTheBuffer`, `UnknownOnlyFromClose`, `ReaderKeepsBlock`,
  `CloseReturns`: a read of a frame. Lost packets leave no gap in `pkt_seq`, so
  the check of the image's length carries the first.
* `ReadsBack`, `WellFormed`, `ProgramsErased`: the store. `ReadsBack` leaves out
  the keys a crash put at risk and says which these are; `WellFormed` (a name has
  one live entry, a namespace one block, live values do not overlap) holds
  whenever power goes; `ProgramsErased` is said of uninterrupted use.
* `SleepCanEnd`, `NoStrandedWaiter`, `RadioUsersAwake`, `CoreNeverWaits`,
  `LossLimit`, `WaiterReturns`: power save. `CoreNeverWaits` is why the core
  thread may call a function whose comment forbids it.

Types: `TypeOK` is proved for every module, on its own for `MacRequest`,
`RoleLaunch`, `RingBuffer` and `StationSleep`, and as a conjunct of
`OneScanPerSet`, `PoolConserved`, `FitsTheBuffer` and `WellFormed` elsewhere.

## 5. Findings

1. `mac_full_assert`: `rw_msg_send` frees a node that is still linked when the
   post fails. `rw_msg_tx.c:91-97` jumps to `failed_or_timeout` without the
   `co_list_extract` of the timeout path; the next confirm with that id, for
   whatever call, goes to freed memory, and `ASSERT(0 == ret)`
   (`rw_msg_rx.c:1368`) fails. It takes a core queue with 64 messages waiting.

On this path `rw_msg_tx.c:94` also frees the message's parameters rather than
the message. That is below the model.

### Seen while modelling, without a run

* The same ASSERT relies on every caller being below kmsgbk. The FreeRTOS timer
  task (priority 6) is not, and calls `rw_msg_send` in role-launch builds.
* `sr_flush_scan_results` forces a count to 1 and frees the set although a
  thread may be between its get and its release; the comment asks for pairs
  (`rw_msg_rx.c:159`, `:178`). `NoSetLeaked` and `UploadPointsToCurrent` limit
  what follows.
* Two threads that wait with the same id get each other's confirms when the MAC
  answers out of order (`rw_msg_rx.c:1345`); the runs give each its own ids.
* `bk_wlan_start_sta` resets RESTART_HOLD after its own stop and so erases the
  hold of a stop that ran meanwhile (`wlan_ui.c:1049`); `bk_wlan_start_sta_adv`
  leaves its flags set when its launch was cancelled (`:1709`).
* After a `bk_wlan_start_sta_adv`, a disconnection makes the launcher enter a
  removal of the station itself (`role_launch.c:585-591`), through the function
  applications use, which resets RESTART_HOLD (`:1038`). If the application has
  stopped the station in the meantime, a request queued before that stop starts
  it again; without its exception TLC finds `StopSticks` violated in 16 states.
* An AP replaced while INITING is let go only after a beacon with the cancel
  mark (`role_launch.c:784`); when `os_malloc` fails, requests stay in the socket
  without a timer (`:520`).
* A scan that finds nothing is confirmed with an earlier, unread set
  (`rw_msg_rx.c:873`).
* `video_transfer.c:159`: a failed allocation of the pool is met by `ASSERT(1)`.
  `:592`: a `TV_EXIT` that a full queue refuses leaves deinit waiting for ever.
* `video_buffer.c:348`, `:354`: the error codes of a timeout and an unknown state
  are the reverse of the comment at `:301-303`. `:316`: `g_vbuf` may be freed
  between a reader's test and its use. `:146`: `frame_len - 7` is unsigned.
* `flash_namespace_value.c:629`: a stored value is read into `data_buf[2048]` by
  its stored length, which only the sector limits (the comment at `:603` says
  2048). `:649`: names of 52 characters are cut and not found again. Nothing
  locks the store.
* `power_save.c:1333-1334`: after a first missed beacon the second keep timer is
  requested, but the status tested at `:1434` is not reset, so it never starts,
  and the station stays awake until something else happens (`power_save.h:27-29`
  says it still can sleep). `:1032`: a disable that comes before the MAC has
  confirmed the enable is dropped, and so (`:980`) is an enable during a disable;
  `docs/en/developer-guide/wifi/bk_wifi_pm.rst:55` knows no such exception.

## 6. Proofs

`tlapm` checks every theorem below. None bounds the number of threads, calls,
requests or bytes beyond the named constants.

**MacRequestProofs.** `TypeCorrect` uses `TypeInv`: the types, that a call in
progress has an id, and what kmsgbk's locals point to between steps (otherwise
`rxMsg.id` is meaningless). The safety theorems use `IndInv`. The ASSERT alone is not
inductive: one has to know that the matched node was linked, that linked nodes
are live or left by a failed post (`LinkedNodesWait`), that a live node belongs
to the call its thread is in (`LiveNodesInCall`), that no node is linked twice
(`ListHasNoRepeats`) so that one extract removes it, and that node names are
not reused (`HistoryIsPast`). Assumption: `Peers = {}`. `OnlyFailedPostsDangle`
is the invariant of run `mac_full`; `AssertHoldsUntilPostFails` is the ASSERT,
for behaviours without failed posts. `AnswersOneToOne` adds `AnswerInv`: a
request is in one place between `bmsg_ioctl_sender` and the copy (`SentOnce`), an
answered node is linked no more (`AnsweredLeft`), and nothing is signalled before
its parameters were copied (`SignalledIsAnswered`). `StaleAnswersNeedTimeout` adds
`StaleInv`: a request on its way belongs to a call that waits, has timed out or
has been answered (`SentCallsEnd`), so that what meets a later call is left over
from a timeout. It assumes that no two threads use the same id
(`DisjointIds`), as in the runs.

**ScanResultsProofs.** `SetInv` joins the two properties, the type of the count
and that borrowed pointers are blocks or NULL. It says nothing of who holds
what, so releases of dangling pointers are covered: whatever is released is the
current set or not allocated. `NoLeak` and `UploadSound` follow for any number of
applications, blocks and scans. `CountMatchesReaders` needs `CountInv`: until a
set is taken away, every borrowed pointer is to the current set. It counts with
cardinalities, for any finite set of applications. `SetsAreOfOneScan` and
`ConfirmedSetsAreSorted` need `ListInv`, and that the sort sorts:
`sort_scan_result` is a recursive function over a recursive function, and the
proof is an induction over both loops (`PassKeeps`, `SortSorts`). The library's
induction theorems cannot be used here, so `InductionFrom` is proved from the
least element of a set of naturals, for a property given as a set; the values of
a recursive function are found by the same induction over its domain.

**RoleLaunchProofs.** `TypeCorrect` for queues, task, status and flags.
`PauseInv`: every start is covered by PENDING or DOING, and airkiss holds PAUSE
while it waits. `TimerInv`: a queued request has a running timer except inside
`rl_launch_handler`, and the launcher has left IDLE. `OrderInv`: requests in
socket and queue are newer than the last one started, and in order. `StopInv`:
after a stop RESTART_HOLD stays set alone until a removal of the launcher's own
erases it, and RESTART_ST is then set only inside a start of the station, so that
the removal, when it starts, holds the station again. Each is preserved action by action;
`StaLaunchOrder` is an action property and follows from `OrderInv`.

**RingBufferProofs.** `IInv`: the distance from `rp` to `wp` is the number of
unread bytes (`Acct`), a sampled pointer can only underestimate the other side
(`WLocal`, `RLocal`), cells between the pointers hold their bytes (`Present`,
`Fresh`), and the reader's buffer holds the oldest ones (`Bytes`).
`RingIsFifo` maps publishing to `Put`, the end of a read to `Get`, opening and
closing to `Reset` and everything else to stuttering, for `Isr = "writer"`.

**StationSleepProofs.** `SafeInv` joins the types and the five safety
properties with what makes them inductive: a mode request is answered awake
(`AnsweredAwake`), so the disable handler, which clears `ps_real_sleep` and
releases nobody, never finds it set; a user of the radio holds its bit of
`prevent_sleep` from begin to end (`BitsHeld`); the core thread that woke the MAC
for a frame keeps it awake (`SendsAwake`); and every sleep without a beacon was
counted by the keep timer first (`LossCounted`). The argument: only the core
thread sets `ps_real_sleep`, in a step that finds no bit and no request, and
whatever clears it while it is set releases the waiters too. Assumptions: the
loss limit and the queue length are positive.

**VideoTransferProofs.** `IInv`: handle, queue and thread live together
(`Linked`), a camera that runs has a pool and a thread (`CameraOwned`), the status
an init polls is that of its own thread (`Honest`), a waiting thread with an empty
queue has nothing ready that was not refused (`Posted`), and each buffer is on one
list or in the thread's hands (`OnePlace`). The last is what makes `PoolIsStream`
work: an interrupt fills a free buffer, which is then not the one being sent, so
that the ready list changes at its ends only. `NewestIsPast` orders what was
accepted last before what comes next, which is the guard of the stream's `Accept`.

**VideoBufferProofs.** `IInv` has two halves. `Handed` and `Settled` say who may
touch the reader's buffer and that whoever is woken by the video thread finds an
outcome: `UnknownMeansClose`, `ReaderIsWaitedFor`. `Arrival` and `Copying` say that
the pieces copied under one `hdr.id` are of one frame and their numbers grow by at
least one, so that n pieces of which the last is number n leave no gap:
`SuccessfulReadIsWhole`.

**FlashStoreProofs.** `WellFormed` is not inductive, because whether the next
operation keeps it depends on the rest of the call. `StoreInv` therefore relates
the sectors to the plan: an entry to come finds its slot free, the slots in front
of it taken, its name not in use or masked before, its data behind all others
(`EntryPlan`); only what is in use is masked (`MaskPlan`); a namespace is entered
once (`RootPlan`); and as long as power was never lost, bytes go to erased cells
(`DataPlan`), since every programmed cell belongs to an entry, there or to come
(`Covered`). Masked entries count, which is why the data of a new entry starts
behind the last entry and not behind the last live one. `NamesStep`, `RootStep`
and `DataStep` show that one operation leaves a plan that can be done;
`GoodPlan` that every call starts with one, by way of `Tight` (values and
entries one behind the other) for the reorganisation and of inductions over
slots (`WriteBackCollects`) and blocks (`OthersAll`). `SectorsAreWellFormed` holds
for any number of losses of power, `OnlyErasedIsProgrammed` before the first.

`KeysReadBack` is about data, and needs more: what every key will read back when
the call returns, and now if power goes. `Run` is the sectors after each operation
of a plan. `Serves` says of the rest of a plan that in every run of it the keys not
at risk are `Safe` at every place, and that at its end so is every key, those the
call changes with the new value unless something not erased was programmed on the
way or the namespace would get a block that was not erased. `KeepInv` is `Serves`
of the plan during a call and `Safe` between calls; TLC checked it on the run's
instance, with two losses of power as well, before it was proved. `Safe` carries
one thing the reader does not see: a namespace without a block must not find old
names in the block it will get. A bK_clear_namespace that loses power after erasing
the root leaves such blocks, and a call that then leaves a key without a block
leaves it unsure (`AtOrphans`). A step of the flash is easy
(`RunLonger`: a run of the rest is a run of the plan but for its first state), and
so is a loss of power (the first state of any run). The work is that the plan of
each call serves: for a write, `SetNameDataWrites` by way of what the
reorganisation moves, slot by slot (`Moved`, `LoopMoves`, `ReorganizeWrites`); for
a clear, the root sector round by round (`RootBack`, `OthersLeads`).

Only model-checked: liveness (`RxDrained`, `CallReturns`, `FollowingServed`,
`DeinitReturns`, `CloseReturns`, `WaiterReturns`), which is out of the proof
system's reach. Every invariant a passing run checks is stated by a theorem.

## 7. Not modelled

* Inside the modelled components: what `rwnx_handle_recv_msg` does with
  indications, except the two that reach the launcher; the core thread's
  handling of frames; fast connect; P2P; the drivers' register set-up; the SPI
  camera and a second video thread after an init that timed out; the factory
  partition of the flash store; sleep lengths, clock drift and `RF_TD` of power
  save.
* `rw_tx_buffering.c` and `ap_idle.c`: no configuration compiles them, so there
  is no program to be faithful to.
* `net_param.c`: one table read, changed, erased and written back whole.
* Not yet: the DMA rings, the music player's ring, `mcu_ps.c`, the driver model.
* MAC, PHY, BLE libraries (archives), FreeRTOS, LiteOS, lwIP, mbedTLS, wolfSSL,
  wpa_supplicant, MQTT, EasyFlash, FatFs: third-party or without source.
* Register-level drivers, AT server, console, demos, HTTP, FTP and TFTP
  clients: I/O, parsing and printing with little state.

## 8. Plan

1. *(done)* `MacRequest`, `ScanResults`, `RoleLaunch`, `RingBuffer`/`ByteFifo`
   with proofs.
2. *(done)* `VideoTransfer`/`PacketStream`, `VideoBuffer`, `FlashStore`;
   `StationSleep` with proofs.
3. *(done)* Proofs: `VideoTransfer` with the refinement of `PacketStream`,
   `VideoBuffer`, the sectors of `FlashStore`, one-to-one answers, the sort;
   `ReadsBack` with losses of power.
4. DMA rings and the music player's ring, as further refinements of `ByteFifo`.
5. `DrvModel`: use counts of open and close; the prevent mask of `mcu_ps.c`.
6. The core queue with its receive counter (`bmsg_rx_count`).
