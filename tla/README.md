# Verification of the MQTT device (STM32F407, FreeRTOS, lwIP, ENC28J60)

TLA+ models of the device's control logic, TLC configurations that check them on
small instances, and TLAPS proofs of the safety properties for every value of the
constants. The code is `Source/` of the repository; line numbers below refer to it
(`mqtt.c` is `lwip-2.1.0/src/apps/mqtt/mqtt.c`, `tcp.c` is `lwip-2.1.0/src/core/tcp.c`,
`timeouts.c` is `lwip-2.1.0/src/core/timeouts.c`, `net_task.c` is `Application/net_task.c`,
`enc28j60.c` is `Drivers/enc28j60.c`, `tasks.c` and `list.c` are in `FreeRTOS/`).

## 1. The system

The firmware keeps one MQTT session to a broker: it publishes a JSON message every
500 ms, subscribes to `DEV00001_DOWN` for commands, and starts over every second while it
is not connected. `InitTask` (main.c) starts four tasks of equal priority: the network
loop (5 ms), the serial queues (10 ms), the monitor (100 ms: watchdog and LEDs) and the
command task (20 ms).

| Component | State | Operations | Interacts with |
|---|---|---|---|
| Network loop, `net_task.c` | `last_send_time`, `last_mqtt_time`, `last_netif_time` | `net_process`: poll the card, run the timers, publish or retry | calls `ethernetif_input`, `sys_check_timeouts`, the MQTT client; writes `sigData.nav_status` |
| MQTT application, `mqtt_client.c` | `mqtt_client`, `mqtt_cmd` | `mqtt_example_init`, `mqtt_connection_cb`, `mqtt_incoming_*_cb`, `mqtt_publish_data`, `json_parse` | called back by the client; `mqtt_cmd` is read by the command task |
| MQTT client, `mqtt.c` | `conn_state`, `conn`, `cyclic_tick`, `server_watchdog`, the request pool and queue, `rx_buffer`/`msg_idx`, the output ring | connect, disconnect, publish, subscribe; TCP callbacks connect, recv, sent, poll, err; `mqtt_cyclic_timer` | TCP below, the application above, `sys_timeout` |
| Output ring buffer, `mqtt.c` 178-270, 446-528 | `put`, `get`, `buf` | append, space check, `mqtt_output_send` | filled by the client, drained into `tcp_write` |
| Request queue, `mqtt.c` 286-444 | `req_list`, `pend_req_queue` | create, append, take, time out, clear | SUBACK and sent events take, the cyclic timer times out |
| Input parser, `mqtt.c` 671-921 | `rx_buffer`, `msg_idx` | `mqtt_parse_incoming`, `mqtt_message_received` | recv callback |
| TCP, `tcp.c`, `tcp_in.c`, `tcp_out.c` | pcbs: state, callbacks, flags, queues | connect, write, close, input, the fast and the slow timer | MQTT client, the card |
| lwIP timeouts, `timeouts.c` | ordered list of timeouts | `sys_timeout`, `sys_untimeout`, `sys_check_timeouts` | everything timed |
| ENC28J60 driver and interface, `enc28j60.c`, `ethernetif.c` | the bank it believes selected, the next packet pointer | initialise, receive a packet, send a packet, reset; each a series of SPI transactions | network loop; the command task (`ENC28J60_Reset`); the card |
| Command task, `data_process.c` | none | reset card and device when `mqtt_cmd.Switch` bit 0 is set | `mqtt_cmd`, the card |
| FreeRTOS kernel, `tasks.c`, `list.c` | ready rings, two delayed lists, `xTickCount`, pended ticks | create, delete, delay, suspend and resume the scheduler, tick, switch | the tasks above, the tick interrupt |
| Serial, `usart.c`, `comm.c` | transmit queues `in`/`out`, `USART_RX_STA` | queue, send by DMA; receive interrupt | serial task, interrupts |
| LEDs, `signaling.c` | `sigData` | `signalingEvent` each 100 ms | `nav_status` |
| Monitor, `monitor.c`, `watchdog.c` | the watchdog counter | feed | none |
| Clock, `tick.c` | TIM5 counter `uwTick`, 1 kHz, 32 bits | read | network loop, `sys_now` |

**What is hard here.** All of lwIP runs in the network task (`NO_SYS = 1`), so handlers do
not preempt one another; but their *order* is free: an answer, a reset, the cyclic timer
and the one-second retry can follow each other in any order, and the retry throws the
client away whatever it is doing. The client is freed and allocated again at the same
address (`mqtt_client_free`, `mqtt_client_new`), so events of an old pcb find a new
client. Closing can fail silently when there is no memory for a FIN. Sends can take a
part. The pool has five pcbs. Nothing repeats a subscription. The clock wraps around. Time
passes while a handler of a timer runs, and handlers change the list that is being walked. The
network card receives and transmits between any two SPI transactions, keeps its state when
the processor restarts, and is reset by a task that preempts the one using it. Ticks come
while the scheduler is suspended, and are made up for later.

**What makes each component correct.**
- session: `conn` and `conn_state` agree; one timer; no event of an old pcb reaches the
  client; every pcb is freed in the end; CONNECT first and once; the subscription
  arrives; the device always dials again; a silent broker is noticed;
- ring buffer: bytes leave in the order they came; what is said to fit fits;
- request queue: no object lost or handed out twice; each request has its own deadline;
- loop clock: acts when the interval is over, never before;
- parser: fragments of a frame add up to the frame, whatever the segmentation;
- timeouts: each runs when due, in order and never early; none is lost or armed twice;
- card driver: a register is accessed with its bank selected; frames come out whole and in
  order; what is sent is what was given; a reset command takes effect;
- kernel: every task in one list; the highest priority runs; a delay lasts as many ticks as
  it says; tasks of one priority take turns; the watchdog is fed in time.

## 2. The modules

| Module | Models | State and actions |
|---|---|---|
| `MqttSession` | `net_process`'s branches, every callback and the timer of the MQTT client, the pcbs under it, the broker | variables named after the fields of `mqtt_client_t`; `pcb` and `link` per pcb; one action per handler |
| `MqttContract` | what the session promises `net_process` and the broker | `phase`, `broker` |
| `MCMqttSession` | symmetry of the pcbs for TLC | |
| `MqttContractProofs` | type and safety invariants of `MqttSession`; `OwnStream` and `ConnectIsFirst`, if FINs find memory; every step is one of the contract | |
| `MqttRingbuf` | the output ring, byte by byte | `put`, `get`, `buf`; `AppendMessage`, `OutputSend`, `Wipe` |
| `MqttRingbufProofs` | its types and FIFO order | |
| `MqttRequests` | the request pool and queue, pointer by pointer | `next`, `pkt_id`, `timeout_diff`, `pend_req_queue`; `Request`, `Take`, `mqtt_request_time_elapsed`, `mqtt_clear_requests` |
| `RequestDeadlines` | what the queue promises: a deadline per request | `left` |
| `MqttRequestsProofs` | the chain is sound; every step is one of `RequestDeadlines` | |
| `MqttParser` | the input parser, byte by byte | `rx_buffer`, `msg_idx` and the local variables; one action per round of `mqtt_parse_incoming`'s loop, with `mqtt_message_received` in it |
| `MqttParserProofs` | `CopiesFit`, `OnlyRefusalCloses` and `HandlersSeeFrames` | |
| `NetClock` | the two timed branches of `net_process` on the wrapping counter | `uwTick`, `last`; `Turn` |
| `NetClockProofs` | its types, timeliness, and no action before time | |
| `SysTimeouts` | lwIP's timers on the wrapping clock | `next_timeout`, `current_timeout_due_time`, `tcpip_tcp_timer_active`; what arms and removes timers, `sys_check_timeouts` step by step |
| `Timers` | what users of timers are promised | `phase`, `left` of each timer |
| `MCSysTimeouts` | the timers and intervals TLC uses | |
| `SysTimeoutsProofs` | its invariants and `ChecksAll`; that it implements `Timers` | |
| `Enc28j60` | the card, its driver and the reset command, by SPI transaction | card registers and memories; `ENC28J60BANK`, `NextPacketPtr`, `todo` (the accesses the running function has still to make) |
| `Enc28j60Proofs` | `BankSelected`, `PointersAgree`, `FramesInOrder` | |
| `Kernel` | the scheduler with the device's tasks | `kernel` (one record of its variables), `uxPendedTicks`, `pc` of each task, the watchdog |
| `Delays` | what `vTaskDelay` promises | `left`, `held`, `missed` |
| `MCKernel` | the tasks and delays TLC uses | |
| `KernelProofs` | `OneList`, `HighestRuns`, `TakesTurns`, `WatchdogFed`; that it implements `Delays` | |

### MqttSession

Each handler runs to completion and is one action. The correspondence:

- `Tick`, `Reconnect`, `Publish`: `net_process` 76-97. `Reconnect` is `mqtt_disconnect`,
  `mqtt_client_free`, `mqtt_example_init` in one go: it closes the old pcb, wipes the
  client and allocates a pcb, which may fail.
- `Connected`, `SentCb`, `Recv*`, `Poll`, `PcbDies`: `mqtt_tcp_connect_cb`, `_sent_cb`,
  `_recv_cb` with `mqtt_message_received`, `_poll_cb`, `_err_cb`, each run for *any* pcb
  the callback is still installed on.
- `mqtt_cyclic_timer`: connect timeout; request timeouts, watchdog, keep-alive. The timeout
  is off the list when it runs, so `mqtt_close` from inside finds none to remove.
- `FastTimer`, `CloseProgress`, `LateData`: `tcp_fasttmr`'s retry of a FIN, the rest of
  the close handshake, data after `tcp_close`.
- `ServerRecv`, `ServerPublish`, `ServerClose`: the broker (external).

Abstractions. A message is one unit of the ring and the TCP send buffer (`RingMsgs`,
`SndBufMsgs`); that a send takes only a part, or nothing, is a choice made at each send.
Every message remembers the pcb its client held (`conn`), which no code reads; `OwnStream`
and the streams need it. TCP delivers in order and exactly once, or the connection dies.
Any allocation may fail; a FIN may fail if `FinCanFail`. The broker conforms to MQTT, may
refuse or close at any time, and grants the subscription it is asked for. FIN_WAIT_1 and
FIN_WAIT_2 are one state. Handlers of a pcb that no longer has the callback installed do
what lwIP's defaults do.

### MqttParser

`Recv` is a segment that arrives; `ParseHeader` and `ParseBody` are the two branches of the
loop, `Return` its end, where the local variables are lost and the next segment parses the
header again from `rx_buffer`. The frames a conforming broker sends are bytes (`Encode`, outside the device); `HandlersSeeFrames`
compares the calls made with `Expected`, computed from the frames and the number of bytes that
have arrived, without the parser's variables. `mqtt_parse_incoming` ignores what
`mqtt_message_received` returns for a frame of length 0 (mqtt.c:873), and so does `ParseHeader`.
Answers to requests other than the SUBSCRIBE, and QoS 2, do not occur: the device publishes and
subscribes with QoS 0. `MaxQos` is a constant, so that a subscription with QoS 1 is covered too.

### MqttRingbuf, MqttRequests, NetClock

The ring is modelled at the level of the C code's indices, with both writes of
`mqtt_output_send` and either failing. The histories `pending` and `filled` state the
property: what was appended and not taken, and whether an append ever used the last byte.

The request queue keeps the `next` pointers (own address = unused) and relative timeouts;
the loop of `mqtt_request_time_elapsed` is a recursive function over its iterations.
`RequestDeadlines` knows only how long each request has left; the refinement mapping adds
up the differences along the chain.

`NetClock` is one turn of the loop per step, of 1 to `MaxTurn` ms; which branch is taken is
free, since the card and the timers may connect or disconnect the client before the test.
The C test reads the counter again when it stores the time; both readings are taken as one.

### SysTimeouts and Timers

The list is a sequence of timers with absolute times, kept in order by `sys_timeout_abs`; a
full pool leaves it as it is, as the code does when its assertion only prints. The users are
the cyclic timers of the stack (`lwip_cyclic_timers` without TCP's), the TCP timer, which
`tcp_timer_needed` starts with the first connection and which ends itself when it finds none,
and the timer of the MQTT client. `Check`, `Expire`, `HandlerReturns` and `Return` are the parts
of `sys_check_timeouts`; between them `Tick` may count the clock on, so a handler can take
longer than its own interval, and a handler may close the client or give up a connection. What
the handlers do besides is in `MqttSession`. `Timers` has no list and no clock: each timer counts
down by itself. The mapping gives each timer the signed distance from `uwTick` to its entry.

### Enc28j60

A function of the driver is the sequence of register accesses it makes, kept in `todo`; one
step is one SPI transaction or several on registers of one bank. `ENC28J60_Set_Bank` is a step
of its own when the bank changes. Accesses made with `ENC28J60_Write_Op` and the like do not
look at the bank (`Raw`; MACON3 is one of them, enc28j60.c:268). `Arrive` and `Transmitted` are the card's steps.
`ENC28J60_Reset` is `data_task` at any point of the network task's sequence: it has the same priority,
and the tick switches between them. While it holds the card in reset the card answers anything;
`NVIC_SystemReset` follows. `Restart` is also the watchdog or the button: the processor's variables
start over and the card keeps its own. `switch` is the bit the command leaves; a later command
overwrites it. A frame is a number, a size of one or two units, and whether it is intact; whether it
contains a command is free.

### Kernel and Delays

A step ends where the tick interrupt may come: critical sections are whole, `PendSV` is taken
with the request for it. `pxReadyTasksLists` holds each ring from `pxIndex` on, with `xListEnd` in it,
so that `uxListRemove`'s step back of `pxIndex` (list.c:225) and the walk of
`listGET_OWNER_OF_NEXT_ENTRY` are what the code does. `vTaskDelay` is four steps: suspend, move to
the delayed list, `xTaskResumeAll` with the pended ticks, `portYIELD` unless that has switched. The
tick can fall between the last two, so that a task gives up the processor once more than it meant to.
The tasks are InitTask, which creates the others and deletes itself, the
idle task, which frees it, and tasks that sleep, work and sleep again; their work may take any time.

## 3. What TLC checks

| Run | Question | Bounds and why they are enough | Result |
|---|---|---|---|
| `session_stale_send` | does each connection carry its own client's messages if the FIN fails? | 2 pcbs (the old connection and the current one), ring of 2, send buffer of 1 | **violated**, see 4 |
| `session_live` | do client, pcb and timer agree with failing FINs? does a device without connection dial, an attempt end, silence get noticed? | 1 pcb, the tightest pool: the old connection must be gone before the retry can succeed (the proofs cover any number); ring and pool of 2, watchdog 3, keep-alive 2, connect timeout 2 ticks | holds |
| `session_contract` | does each connection carry its own client's messages, CONNECT first, and no callback of an old pcb reach the client? does the session implement `MqttContract`? is a device that stays connected subscribed? | 2 pcbs (the current and an old one), ring of 1: the SUBSCRIBE has to wait for room; the FIN does not fail | holds |
| `ringbuf` | FIFO through every position and split? | 5 bytes, messages of 2 to 4, sends of 1 to 5: every position of `put` and `get`, every wrap | holds |
| `parser` | do the handlers see the broker's frames whatever the segments? does every round take bytes, every segment end? | `rx_buffer` of 11, length bytes in base 4, so headers of 2, 3 and 4 bytes; payloads of 0, 5 (fills the buffer exactly) and 14 (goes round it twice), QoS 0 and 1; up to 2 frames after the CONNACK, cut everywhere | holds |
| `requests` | pool sound, deadlines kept? | the build's 30 s and 5 s, 3 of 4 objects: head, middle and end of the chain | holds |
| `net_clock` | on time, never early? | counter of 12, intervals 2 and 4, turns of 1 and 2: overflow of the sum, of the counter, and neither | holds |
| `net_clock_wrap` | on time after a wrap-around? | the same | **violated**, see 4 |

| `sys_timeouts` | in order, armed once, nothing passed over? are the promises of `Timers` kept? do timers go on? | clock of 12 with a half of 5, intervals 1, 1 (two equal ones, as IP's and ARP's are), 1 (TCP) and 3 (MQTT), at most 2 late: handlers longer than their interval, re-armed on and off the grid, on both sides of the wrap-around | holds |
| `enc28j60` | bank, pointers, order of frames? are frames taken and the command obeyed? | receive memory of 3 units, frames of 1 and 2: full, empty and wrapped inside a frame; frames told apart modulo 3, the most that are held | holds |
| `enc28j60_send` | is what is transmitted what was given? | the same | **violated**, see 4 |
| `kernel` | lists, priorities, delays, turns, watchdog? | counter 0 to 4, delays 1, 2 and 3: wakes before, at and beyond the wrap-around; at most 2 ticks pended at once and 1 while the monitor works; the watchdog at 26 ticks, the least that holds (at 25 it is too late) | holds |

Fairness. `session_stale_send`, `ringbuf`, `net_clock`, `enc28j60_send` and `kernel` assume none. `FairSpec`
of `MqttSession` assumes what the loop of `net_process`
gives, since it runs for ever and calls `sys_check_timeouts` each turn: the tick passes,
the retry and the cyclic timer run, the TCP timers remove a pcb that is closing; and that
lwIP's memory is not exhausted at *every* attempt to connect or to send a FIN (strong
fairness of the attempt that succeeds). It assumes nothing of the network or of the broker:
`Redials`, `KeepsTrying` and `SilenceNoticed` hold with a broker that never answers.
`DeliveryFairness`, the premise of `GetsSubscribed` only, adds that the network delivers, the broker
reads, and the poll of a connected client does not find memory exhausted every time.
`RequestDeadlines` assumes the cyclic timer's tick, `MqttParser` that the parser's loop goes on.
`SysTimeouts` assumes that time passes, that the loop calls `sys_check_timeouts` again and that handlers
return. `Enc28j60` assumes that both tasks run (the kernel gives them turns: `TakesTurns`), that a turn of the
loop, which begins by receiving, sends finitely many frames (strong fairness of
`StartReceive`), and that the card finishes a transmission. It assumes nothing of what arrives.

Bounds of the environment. `MaxLate` is how late the loop may come round; the proofs need that it and the longest
interval stay below half the clock, 24.8 days. `MaxPended` and `MaxHits` say how long the scheduler is
suspended and how long the monitor works, in ticks: both are a few instructions. Without them no
timeout of the watchdog would do. The build's timeout is 1 s (main.c:38), the monitor's period 100 ms; which
timeouts suffice for which bounds is proved (section 5).

## 4. Where code and comments disagree

1. **A closed connection may carry the next session's messages** (`session_stale_send`).
   `mqtt_close` (mqtt.c:544-546) uninstalls recv, err and sent, not poll. If `tcp_close`
   finds no memory for the FIN, it marks the pcb `TF_CLOSEPEND`, leaves it established and
   returns `ERR_OK`, "to indicate to the callers that this pcb should not be used any more"
   (tcp.c:452-453). The trace: FIN postponed; retry on a second pcb; CONNACK; the
   SUBSCRIBE does not fit and stays in the ring; the poll of the *first* pcb writes it into
   the old connection. The session stays up and unsubscribed. The window is narrow:
   `tcp_fasttmr` retries the FIN before the slow timer polls, so memory must be freed
   between the two.
2. **No retries after the counter wraps around** (`net_clock_wrap`). The test
   `last_mqtt_time + 1000 < uwTick` (net_task.c:88) compares points in time, not a
   difference. A device connected since before the wrap-around of TIM5 (49.7 days) that
   loses its connection after it does not retry until the counter has come back to
   `last_mqtt_time`; the comment promises a retry each second (net_task.c:87). Publishing
   (line 78) has the same test. Just before the wrap-around the sum overflows instead and
   the branch acts on every turn of the loop.
3. **A packet is written over the one being sent** (`enc28j60_send`). `ENC28J60_Packet_Send`
   (enc28j60.c:344-362) writes every packet to the same transmit memory and sets TXRTS without
   waiting for the card to clear it. Of two packets sent in a row (an ACK and a PUBLISH in one turn
   of the loop), the first goes out as a mixture of both; the comment promises to "send the packet to the
   network" (enc28j60.c:342). TCP repeats what is lost, ARP and DHCP have their retries.

Two more places are worth knowing. `mqtt_output_check_space` admits a message that needs every free byte
(mqtt.c:527); then `put = get` and `mqtt_ringbuf_len`, "number of bytes in ring buffer"
(mqtt.c:211), is 0. `Fifo` holds exactly as long as that has not happened. And a PUBLISH that
fills `rx_buffer` is handed over with `msg_idx` equal to its size, later pieces with more
(mqtt.c:905), while mqtt.c:683 asserts `msg_idx < MQTT_VAR_HEADER_BUFFER_LEN`; in this build the
assertion prints and goes on, and the code behind it is right (`HandlersSeeFrames`).

## 5. What is proved

All for every value of the constants, from the named assumptions on them only.

- `MqttContractProofs`: `Spec => []TypeOK`, `[]ConnMatchesState`, `[]TimerMatchesState`,
  `[]CallbacksOnlyFromConn`, `[]NoPcbLeak`. None of them is inductive. `IInv` joins them
  and adds what they rest on: a pcb that is not the client's is `Gone` (free, closing, or
  marked for closing, with no callback but poll); a stream exists only for a pcb that
  carries data; requests, ring and streams stay within their sizes. With it, each handler
  is a case: one that runs for a pcb with a callback installed runs for `conn`, so its
  assignments concern the right connection; `mqtt_close` makes the client's pcb `Gone`;
  `TcpAlloc` returns a free or an expendable pcb, never the client's. `FinCanFail` is
  arbitrary: these properties do not depend on FINs finding memory.
- Also in `MqttContractProofs`: `Spec => []OwnStream` if `~FinCanFail`, so the run `session_stale_send`
  shows the only way to break it. `StreamInv` adds to `IInv` that no pcb is marked for
  closing and that every stream holds its owner's messages only. Then a pcb that is not the
  client's is closing or free, a state in which `tcp_write` takes nothing: its poll, which
  is still installed, writes nothing, and every send is one by the client's own pcb.
  Further, every step of `MqttSession` is a step of `MqttContract` or a stutter
  (`StepsKeepContract`: the safety half of `ContractKept`, with FINs failing or not), and
  `Spec => []ConnectIsFirst` if `~FinCanFail`. Both rest on `ShakeInv`, which follows the CONNECT of the
  client: in the ring, in the stream or with the broker, in one of them only, and no CONNACK
  before the broker has it.
- `MqttRingbufProofs`: `Spec => []TypeOK` and `[]Fifo` for every size of buffer, message and
  send. The invariant adds that the buffer holds the pending bytes cell by cell until
  the first exact fill, and at most as many as are pending afterwards; the lemmas on `Wrap`
  and `Length` reduce a wrap-around to a case distinction.
- `NetClockProofs`: `Spec => []TypeOK`, `[]OnTime` and `NotSooner` for every width of the
  counter and all intervals below it. The invariant: before the wrap-around nothing lies
  in the future, and the difference the counter shows never exceeds the time gone by.

- `SysTimeoutsProofs`: `[]TypeOK`, `[]InOrder`, `[]ArmedOnce`, `[]WhoRuns` and `ChecksAll`, for every
  array of cyclic timers and every width of the clock. `InOrder` is not inductive: `TIME_LESS_THAN` tells
  before from after only between times less than half the clock apart. `Near` says that every entry lies
  between `MaxLate` ago and its interval ahead, which makes the comparison one of signed distances
  (`Dist`); then an insertion keeps `Sorted`, and `Once` gives an injection of the entries into the
  timers, so that the list never reaches the size of the pool. Assumptions: `TimersAssumption` (distinct
  timers in order of their intervals, each interval and `MaxLate` together at most half the clock) and
  `PoolAssumption` (the pool holds all timers: lwipopts.h:74 adds 8 to what the stack needs).
  From the same invariant, `Spec => RefinesTimers`: the list, flag and clock are `Timers`.
- `Enc28j60Proofs`: `Spec => []BankSelected`, `[]PointersAgree` and `FramesInOrder`, for every size of the
  receive memory and any number of frames (`CardAssumption`). For the bank, the invariant
  says that the cached bank is the card's except between a restart and the reset of the card, where only that
  reset is still to come (`TodoInv`: no access to a register before it), and that
  MACON3, written without looking at the bank, always follows MACON1. For the frames, `FrameInv` has a part of
  the card and one of the driver. The card's (`CardInv`) says that the queued frames lie one behind the other
  from `erxrdpt` to `erxwrpt`, at offsets that grow and stay below the size of the memory (`Laid`), or all but a first
  one whose memory is released and whose count is not; a frame that arrives is laid behind the last (`LaidMore`), a
  release takes the first away (`LaidRest`). The driver's is a case for each place in `ENC28J60_Packet_Receive`
  (`Between`, `Within`, `Released`): `NextPacketPtr` is the first frame or the one behind it, and what has been read
  is that frame. After a restart the card's part alone holds until the card is reset and both start from 0 again.

- `MqttRequestsProofs`: `Spec => []ChainIsSound`, and every step is a step of `RequestDeadlines` or moves no
  deadline (the safety half of `DeadlinesKept`), for every number of request objects and all timeouts. What the
  model's recursive functions follow through the pointers, the invariant says without recursion: there is a
  sequence `q` of `n` objects, each once, that the `next` pointers join up, and the deadlines `D` along it are the sums of
  the differences (`Linked`). `Chain`, `Deadline` and the loop of `mqtt_request_time_elapsed` are then shown
  to be `q`, `D` and "the first objects, up to where the differences exceed the time", by induction on the length
  (a set of numbers that has 0 and with each its successor is `Nat`, from the well-foundedness of `<`). Appending extends
  `q` at its end and the difference stored there is what remains of `MQTT_REQ_TIMEOUT`; taking an object
  adds its difference to that of the one behind it, so that no other deadline moves; an elapsed interval
  shortens `q` at its head.
- `KernelProofs`: `Spec => []OneList`, `[]HighestRuns`, `[]WatchdogFed`, `TakesTurns` and `RefinesDelays`, from `KernelAssumption` (each task is created
  once, no delay is 0 or takes as long as the counter takes to wrap around). Neither invariant is inductive. `IInv` joins
  four parts. `GoodKernel`: each ring is xListEnd and the ready tasks of its priority, each once; both lists are in the order of
  their values; what sleeps in one wakes after the current tick and before the wrap-around, in the other after it;
  `xNextTaskUnblockTime` is the first value of the list. `Runs`: the running task is the one at which
  its ring begins (`pxIndex`), unless it sleeps already or has deleted itself, so that `uxListRemove` steps back from the right entry.
  `Places` and `Running`: where each task can be in its code; only the running one has suspended the scheduler.
  `Sleeping`: a task in a delayed list has called `vTaskDelay`, and is still in it if it runs. The functions of
  list.c and tasks.c have a lemma each. `TickIs` says that a tick wakes those whose value is the new tick and no other, on
  both sides of the wrap-around and whether or not the list is switched. The ticks made up for by `xTaskResumeAll` are an induction on
  their number (`UnwoundGood`); either one of them asks for a switch or nothing woke. For `Delays`, `Lasts` gives each
  sleeping task the distance from the counter to its value, modulo its width: a tick takes one from every
  distance, and the one that reaches 0 is woken; `prvAddCurrentTaskToDelayedList` makes it the delay that was asked for.
  For `TakesTurns`, the turns until a task runs are a function of where it and xListEnd are in the ring (`TurnsAre`): a
  switch takes one (`TurnsLess`), tasks that wake come behind (`TurnsStay`), and the step back of `pxIndex`
  under a task that goes to sleep moves nobody who waits (`TurnsKept`). A tick that asks for no switch finds no other
  task ready (`SliceIsRequired`).
  `FedInTime` proves `WatchdogFed` for every timeout above `WatchdogBound`. What makes it inductive is a countdown, `Rest`:
  the ticks left until the monitor feeds the watchdog. While it sleeps, these are its remaining delay and a `Round`, the
  time all others can take before it runs: fewer switches than twice the number of tasks (`Dist`), each after no more than a
  `Share`, the longest delay of another task and the ticks pended at once. A tick takes one from it
  (`OthersRest`), one that comes while the monitor runs may cost a round (`MonitorsRest`), and what other tasks do takes nothing back
  (`SleptRest`, `SystemRest`). So `FedInv` keeps a budget: the watchdog's counter, `Rest` and a round for each tick that may still
  come while the monitor runs stay below the bound. In the build (four tasks, 100 ticks for the monitor, at most
  20 for the others) with 2 ticks pended and 1 while the monitor works the bound is 566 of 1000 ticks; `FedInTheBuild` allows for 20
  pended. The bound is not tight, 67 on the instance of the run `kernel`, where TLC finds 26 to be the least timeout that holds: the theorem
  covers all values, the run is sharper on one.
- `MqttParserProofs`: `Spec => []CopiesFit`, `[]OnlyRefusalCloses` and `[]HandlersSeeFrames`, for every size of
  `rx_buffer`, base of the length bytes, topic, payloads, stream and segmentation. `ParserAssumption` says that
  `rx_buffer` takes a header of five bytes, the topic, a packet id and a byte, and that four length bytes can say
  how long each PUBLISH is. None of them is inductive: where the next copy goes depends on how much of the frame came
  before, and which calls it brings about on what the buffer holds. `IInv` says that `calls` is what the bytes
  parsed so far call for (`Stream`) and, unless the broker refused (`Refused`), that the parser is in a definite
  place of the stream (`Parsed`): it has handled the frames before the `j`-th, which determines `conn_state` and
  `pend_req` (`Session`), and has `msg_idx` bytes of that one. In the header (`InHeader`), `rx_buffer` holds the
  bytes that came and `msg_rem_len` what those read again in this segment sum up to (`Partial`). Behind it (`InBuffer`), `p` fillings
  of the buffer have been handed over and `r` bytes of the next are in it, behind the header.
  `HeaderStep` decodes the remaining length byte by byte, with or without a segment between them; `CopyPuts` shows
  that a copy appends to the `r` bytes and ends at the filling or the frame; `Handle`, that the handler makes of a filling what
  `Expected` makes of its bytes: one more piece (`OnePieceMore`), else none (`NothingNew`). `CallsGrow` carries a call of
  the `j`-th frame to the whole stream. The lemmas on concatenation (`FlattenIs` and those behind it) are inductions on a length.
  `CopiesFit` holds what there is of `SegmentFinishes` without fairness, that `cpy_len` is never 0: where the parser copies,
  neither the frame nor the segment is over and the filling has room (`CopyIs`).

Model-checked only: all liveness and the fairness of the contracts (fairness and ENABLED are beyond
the prover): `Redials`, `KeepsTrying`, `SilenceNoticed`, `GetsSubscribed`, `SegmentFinishes`, `TimersGoOn`,
`FramesTaken`, `CommandObeyed`, and the fairness in `ContractKept` and `DeadlinesKept`, whose steps are proved
(`StepsKeepContract`, `StepsKeepDeadlines`). Every invariant and action property that a passing run checks is proved.

## 6. Plan

Done: the session with its contract, the ring buffer, the request queue with its deadlines, the loop clock, lwIP's
timers and their promise, the card driver, the scheduler with the delays it promises, and the parser, all with
proofs. What would come next: `MqttSession` on top of `Timers`, in place of its own cyclic timer.

## 7. What is not modelled, and why

- Serial transmit queues (`usart.c`): no function of the build puts anything in; the one caller of
  `dma_send_data_uart`, `cJOSN/test.c`, is not part of it. (`out` advances with `& MSG_ARRAY_SIZE`, usart.c:365,
  `in` with `%`, so they would have to be looked at before the queue is used.)
- Serial receive interrupt: nothing reads the line it assembles or clears its flag (usart.c:86).
- LEDs (`signaling.c`): its event functions have no callers, one flag of `nav_status` is all that arrives.
- The link flag of the interface: nothing clears it, so the branch at net_task.c:107 is never taken.
- Values of the card's configuration registers, checksums, pbufs: data. The PHY's busy flag is read until it is
  clear; the card clears it.
- Queues, semaphores, software timers, event groups and notifications of FreeRTOS: the
  application calls none. `heap_4` matters as a caller of `vTaskSuspendAll` and is that in `Kernel`.
- IP, ARP, DHCP, memory pools, retransmission, windows and reassembly of lwIP: third-party code below the
  session; it appears as allocations that fail, connections that die, and data in order.
- cJSON, the STM32 library, SEGGER RTT, `lwip_demo.c`; USB is compiled out of `main` (main.c:41-49).
