# hsfib-pico: a verification development

TLA+ models of the tib-pico2 firmware and of the parts of the WIZnet library it
runs on, model-checked with TLC on small instances, and proofs about them,
checked with TLAPS for every value of the constants.

1. [The system](#1-the-system): components, state, operations, interactions
2. [What is hard about it](#2-what-is-hard-about-it)
3. [The modules](#3-the-modules) and how they correspond to the code
4. [The runs](#4-the-runs): bounds, and what each shows
5. [Fairness](#5-fairness)
6. [The proofs](#6-the-proofs)
7. [Where code and documentation disagree](#7-where-code-and-documentation-disagree)
8. [What is not modelled](#8-what-is-not-modelled), and the [plan](#9-plan)

To repeat a run or a proof:

    tlc -config MCCommandPath_queue.cfg MCCommandPath
    tlapm CommandPath_proofs.tla

## 1. The system

The firmware runs on an RP2350 (two cores, FreeRTOS with SMP) with a W5500
Ethernet chip that holds eight sockets and their memory. A client on the network
finds the device by its ENTER broadcast, connects to a WHISPER socket, sends
commands, and receives an ACK and a result for each.

    peer <-> W5500 <-> coms_task --command_in--> executor_task --> lasers, attenuators,
                           ^  ^------response_out------/           MEMS switches
                           \---------pub_out--------- photodiode_task <-- ADC

| Component (source) | State | Operations | Interacts with | Correct when |
|---|---|---|---|---|
| Zyre sockets, framing (`pico_zyre.cpp`, `ZyreFramer`) | `socket_initialized`, `rx_bufs`, `rx_len` | `receive`, `try_receive_on_socket`, `send_reply`, `send_pub`, `decode`, `encode` | W5500 through socket.c; called by coms_task | a command is read whole, from the peer that sent it; a reply goes to that peer; a socket whose peer left can be used again |
| Command dispatch (`coms_task.cpp`, `executor_task.cpp`) | queues `command_in`, `response_out` (10 each) | `coms_task`, `executor_task`, `send_ack`, `send_response`, `send_error` | two tasks on two cores | commands execute once and in order; refused ones never; ACK before result; a full queue blocks nobody |
| Link and lease supervision (`ZyreBeacon::tick`) | `last_link_status`, `dhcp_active`, `enter_sent` | `tick`, `handle_link_down`, `link_restored`, `start_dhcp`, `maybe_send_enter` | dhcp.c, PHY, every socket | the device recovers an address and its sockets after any loss, and announces the address in use |
| DHCP client (`dhcp.c`) | `dhcp_state`, retry count, tick, lease time, allocated and old address, server | `DHCP_init`, `DHCP_run`, `DHCP_stop`, `DHCP_time_handler` | DHCP servers over a UDP socket; the chip's address | it uses only what a server leased to it, asks again when not answered, renews |
| Socket API (`socket.c`) | Sn_SR, receive and transmit memory, `sock_is_sending` | `socket`, `listen`, `recv`, `send`, `disconnect`, `close`, `sendto`, `recvfrom` | W5500 | each call leaves the socket in the state its answer says |
| Telemetry (`photodiode_task.cpp`, `ads1x15.cpp`, `send_pub`) | queue `pub_out` (10), the ADC's registers | sample, publish | ADC on i2c0, PUB socket | a value published under a key was measured on its channel; a sample is published as it was queued while coms_task keeps up; a stalled coms_task only delays sampling |
| MEMS switches (`mems_switching.cpp`, `pcal6416a.cpp`) | `_state` of 8 switches, the expander's output register, routes | `setSwitch`, `getSwitch`, `route`, `activeRoutes` | I2C, executor_task | the reported state is the physical one; no coil is left driven; routes of the two arms do not disturb each other |
| Attenuators (`attenuator.cpp`, `dacx578.cpp`) | DAC registers | `set`, `get` | I2C | the code written is the one asked for |
| Lasers (`maiman.cpp`, nanomodbus) | registers of six drivers, one destination address | `setCurrent`, `getCurrent`, ... | RS-485 bus | an answer is of the laser asked; a command changes that laser only; a failure is told |
| DNS client (`dns.c`, `wizchip_dhcp_dns.c`) | `retry_count`, `dns_1s_tick`, a UDP socket | `DNS_run` | DNS server, timer interrupt | every query ends; a late answer is not taken for another's |
| SNTP client (`sntp.c`, `wizchip_sntp.c`) | `ntp_retry_cnt`, a UDP socket | `SNTP_run`, `calcdatetime` | time server | the date is that of the stamp, in the zone asked for |
| IPv6 configuration (`AddressAutoConfig.c`, `dhcpv6.c`) | the chip's IPv6 registers, `dhcp6_state` | `AddressAutoConfig_Init` | neighbours, routers | no address is used that a neighbour has; the gateway is the router that advertised |
| Loopback and multicast servers, examples | one state per socket, in the chip | `loopback_tcps`, `loopback_tcpc`, `loopback_udps`, `multicast_loopback`, ... | socket.c | a peer hears what it said; a server listens again |
| Chip access (`w5500.c`, `wizchip_conf.c`, SPI, QSPI, `timer.c`) | ring pointers of each socket, in the chip | register reads and writes | W5500 | a socket's memory is a byte pipe |

`main()` waits for the link, fills a `HardwareContext` with the devices and the
three queues, starts the tasks, and does no more.

coms_task goes round one loop: `tick()`; one `receive()` over the WHISPER
sockets and the overflow socket; if that gave a command, offer it to
`command_in` and send an ACK, or "too busy" when the queue is full; send at most
one reply of `response_out`; send at most one message of `pub_out`; sleep.
executor_task takes a command, queues an ACK of its own, runs the handler, and
queues the result. It never waits for room: a reply that does not fit is
dropped.

## 2. What is hard about it

* **Two cores.** Every step of executor_task may fall between any two of
  coms_task: the executor may have finished a command before coms_task
  acknowledged it.
* **A reply names a socket number, not a connection.** Between command and reply
  the peer may leave, and another take the socket.
* **Blocking calls.** `recv()` waits for data of an established peer,
  `disconnect()` for the FIN of a peer, `start_dhcp()` for up to 100 polls,
  `check_DHCP_leasedIP()` for a tick.
* **Copies that are not copies.** A queue copies bytes; the strings and the JSON
  of a command, and the strings of a sample to publish, keep one set of
  characters for two tasks.
* **State in two places.** `socket_initialized` and `rx_len` in RAM against the
  chip's sockets; `dhcp_active` and `last_link_status` against dhcp.c and the
  PHY, which `tick()` reads twice.
* **The network**: messages late, repeated, lost, from another server or of an
  earlier exchange; peers that close, reset, stay silent; the cable.
* **Devices that keep their state.** Switches, expander, DAC and lasers go on as
  they were when a transfer fails, an answer is late or the processor restarts.
* **Registers read in pieces** while the chip changes them.
* **Full queues**: two replies per command and one sent per turn.

`PROJECT.json` lists the hazards, each at its line, with the properties that
would catch it.

## 3. The modules

| Module | Models | Built on |
|---|---|---|
| `CommandService` | abstract: what is promised of a command | |
| `CommandPath` | pico_zyre's sockets, both tasks, both queues | refines `CommandService` |
| `QueueCopies` | what the byte copies in `command_in` share with coms_task | |
| `Framer` | `encode`, `decode` and the receive buffer over a byte stream | |
| `DhcpService` | abstract: dhcp.c for a caller without a timer | |
| `ZyreLink` | `tick()` and the life of every socket over link losses | `EXTENDS DhcpService` |
| `DhcpClient` | dhcp.c with servers, network, timer, any caller | refines `DhcpService` when called by `TibDhcp` |
| `TibDhcp` | `start_dhcp()` over dhcp.c itself | `EXTENDS DhcpClient` |
| `Devices` | the executor's handlers: MEMS switches, attenuators, lasers | |
| `LightPaths` | `main()`'s switches, pins and sixteen routes | |
| `Maiman` | the getters of the laser driver | |
| `Telemetry` | photodiode_task, the ADC, the copies in `pub_out`, `send_pub()`'s reading of them | |
| `WizSocket` | the calls of socket.c, the chip, peers | |
| `EchoServers` | loopback.c, multicast.c, the example servers | `EXTENDS WizSocket` |
| `BytePipe` | abstract: one direction of a socket's memory | |
| `SocketMemory` | w5500.c over rings, pointers and torn sizes | refines `BytePipe` |
| `DnsClient` | dns.c under the dhcp_dns example, timer.c | |
| `SntpClient` | sntp.c under the sntp example | |
| `AutoConfig6` | address autoconfiguration and stateless DHCPv6 | |
| `CommandPath_proofs`, `ZyreLink_proofs`, `DhcpClient_proofs` | proofs | the modules they name, `TibDhcp` |
| `Framer_proofs`, `Board_proofs` | proofs | `Framer`; `MCBoard`'s modules, `LightPaths`, `Maiman` |
| `Echo_proofs`, `Net_proofs` | proofs | `EchoServers` and `WizSocket`; `MCNetClients`' modules |
| `Recursions` | induction, sequences in a row, and lemmas about `FlattenSeq` | |
| `MC...` | instances for TLC | |

`MCBoard` and `MCNetClients` put modules side by side that share no state: a
behaviour is one of one module, chosen in the initial state, so that one run
checks them all without multiplying their states. `MCBoard` holds `Devices`,
`Telemetry`, `Framer` and `QueueCopies`; `MCNetClients` the users of the WIZnet
library and its socket memory.

Names of variables and actions are the code's where it has one. `PROJECT.json`
gives the lines of each definition. A definition introduced by "Mutant:" is a
plausible bug of the definition after it; no specification uses it, it serves to
see that the properties can fail.

### CommandPath

Three processes: the environment (peers and chip), coms_task and executor_task.
`cpc` and `epc` are their program counters; an action is the code between two
points where another process can see or change something: one queue operation,
or one exchange with the chip.

| Code | Variables | Actions |
|---|---|---|
| chip, per socket | `SR`, `net`, `is_sending`, `unacked`, `peer` | `Connect`, `PeerSend`, `PeerFin`, `ConnectionEnds`, `ChipSendOk`, `PeerAck` |
| `receive()` | `socket_initialized`, `rx`, `sn` | `OpenSocket`, `SkipSocket`, `EnterRecv`, `RecvCommand`, `RecvFragment`, `RecvClosed`, `OverflowReply`, `OverflowDisconnect`, `OverflowClose` |
| `send_reply()` | `closing` | `Reopen`, once its `disconnect()` returns |
| loop of coms_task | `cpc`, `msg` | `Offer`, `Acknowledge`, `Drain` |
| executor_task | `epc`, `cmd` | `ExecReceive`, `ExecAck`, `ExecRun` |
| queues | `command_in`, `response_out` | |
| history | `accepted`, `executed`, `out` | |

A command is a head and a tail, so that a receive may end inside it, and
`rx` keeps what is left for the next. `send_reply` is one operator with its
branches: sent, dropped as SOCK_BUSY, socket reset because it was not
established or its memory was full. `disconnect()` leaves the socket in FIN_WAIT
(it was established) or LAST_ACK (its peer had closed), and coms_task waits, with
the socket's number in `closing`, until the connection ends: in FIN_WAIT that
takes the peer's own FIN. Only then does it close the socket and open it again.
The handlers of `dispatch_table` are one
step that ends in a result or an error. The link is up and an address leased
throughout; `ZyreLink` is about the rest.

`CommandService` keeps a queue, the executed commands and the set of replies on
the wire. `ServiceSpec` maps the executor's command and `command_in` to the
queue.

### ZyreLink

The loop of coms_task again, with the content of messages left out and `tick()`
in full: both readings of the link are separate steps, each poll of
`start_dhcp()` is one, and `handle_link_down()`, `maybe_send_enter()` and
`send_pub()` do to the chip's sockets what their calls of socket.c do, refusals
included (`socket()` refuses TCP while the chip has no address). `disconnect()`
is a wait here too: in a reply or a publication (`closing`), behind the overflow
socket's receive (`flush`), and for each socket in turn in `handle_link_down()`
(`down`), while cable, peers and chip go on. `announced` says whether an ENTER
was sent since the address was last cleared. A command
leaves replies owed on its socket, which coms_task may send at any later turn:
this stands for executor and queues. dhcp.c is `DhcpService`.

### DhcpClient, DhcpService, TibDhcp

`DhcpClient` has one action per branch of `DHCP_run`. Every branch begins with
`Run`, which is what every call does first: reopen the socket and parse one
message. `parseDHCPMSG` drops a message of another server than the one heeded
(`DHCP_SIP`), otherwise sets server and lease time. Message kinds, server and
address are kept; transaction ids are not part of the model because the code
never reads them in an answer. A server may answer any request that reached it;
whatever it ever sent may be delivered at any time, again and again, or never;
a request may be lost. The wait after an address conflict is a state (`spin`)
that only the timer ends. The caller is arbitrary.

`DhcpService` is what `ZyreLink` uses: an exchange with the server is one step
and there are no retries, since tib-pico2 has no timer.

`TibDhcp` adds `start_dhcp()`'s rounds and link losses to `DhcpClient` itself,
for what `DhcpService` cannot express: messages of an earlier round, and lease
times. Its run also shows that dhcp.c, called in this way, implements
`DhcpService`, so that what is shown with `ZyreLink` does not depend on that
simplification.

### QueueCopies

`CommandPath` treats a queued command as a value. `QueueCopies` is what the
queue really holds: for the key, the block its characters are in and their
number; for the arguments, the object that `msg.args` owned when it was copied.
`AssignKey` is `std::string`'s assignment with its three cases (in place, first
block, larger block), and `Decode` does what `decode()` does to `msg`, commands
that are refused or do not parse included. The executor reads key and arguments
where it does: once to look the handler up, once in the handler.

### Framer

A peer writes messages of several parts, TCP delivers pieces of any length, and
`fr_rx` is one connection's part of `rx_bufs`. `Parts` is the loop of `decode()`
with its early returns, `encode` that of the reply. JSON is two sets: what
parses and what does not.

### Devices, LightPaths, Maiman

`Devices` takes one command after the other, as executor_task does, and does
what the handler does. One transfer on i2c1 is one step (`SwitchStep`): it
fails or not, and one that is reported as failed may have reached the chip. A
switch stands where its one driven coil pulls it. On the RS-485 line `late`
holds the answers not read yet, so that an answer comes in time, late or never;
`Accepts` is the check nanomodbus makes. `Restart` sends the processor back to
the constructors and leaves every chip alone. `poor` and `had` are history: pins
whose last pulse had a failed transfer, and levels a laser has had.

`LightPaths` has `main()`'s tables: eight switches, their pins, sixteen routes.
`MCBoard` runs `Devices` over two of those switches and the routes that use
them. `Maiman` has the register, unit and refusal value of every getter.

### Telemetry

photodiode_task's loop, one register access a step, with the ADC's pointer
register, a conversion that ends when it ends, and `pub_out`. A value is named
after what it was read from, so that a value of the other diode, or of another
register, is seen as such.

`msg` is photodiode_task's one PubMessage. Its strings are short (a topic has 14
characters, a payload up to 6), so `std::string` keeps their characters within
the object, and a byte copy of it points back into `msg`. An entry of `pub_out` is
therefore the sample it was made of only until `msg` is assigned again
(`Overwrites`), and `Later` from then on; `send_pub()` reads topic and payload,
one step each, from what stands in `msg` (`Standing`), in the middle of an
assignment too ("torn"), and as many characters as the copy's own lengths say
("cut"). Of coms_task the rest is left out: it is in `recv()`, or another call it may
stay in, it looks into the queue, or it is in `send_pub()`.

### WizSocket and EchoServers

A caller of socket.c sets `call`; each step of the function called is an action
that reads or writes registers, and between two of them chip and peers go on.
`rx` and `tx` are the socket's memory in units, `sending` what a SEND is
transmitting. The W5500's functions are modelled, and the W6x00's for TCP.

`EchoServers` is the state machine of each function of loopback.c and
multicast.c, composed with `WizSocket`, and the programs that call them for
ever: one socket, or several in turn (`multi`).

### SocketMemory and BytePipe

Under `WizSocket`: the ring of a socket, its 16-bit pointers, the copy that
wraps, and the size register that `getSn_RX_RSR()` and `getSn_TX_FSR()` read a
byte at a time, twice, until both readings agree. The abstract specification,
`BytePipe`, is a queue of bytes; the refinement is why `WizSocket` may use
sequences.

### DnsClient, SntpClient, AutoConfig6

Each is a program of the repository around one part of the library, with a
network that delivers late, again or never. `DnsClient` names an address after
the query it answers, so that an answer to another query shows. `SntpClient`
counts stamps in days and quarter hours, as fine as any zone. In `AutoConfig6`
the chip, the neighbours and the routers act between the polls of the code.
Its `recvfrom6` says whether the socket layer serves ICMPv6 and UDP6 sockets:
this repository's `recvfrom()` refuses them (`RefusedRead`), and the
configuration then waits for ever; the code behind the call is modelled over a
layer that serves them.

## 4. The runs

Runs of `expect: pass`. Deadlock is not checked: in each of these models the
system may really come to rest (a coms_task in `recv()` and an environment with
nothing left to do, or a conflict without a timer), and liveness is stated by
properties instead.

| Run | Instance | Properties | Shows |
|---|---|---|---|
| `queue` | 1 peer, 3 commands, 1 WHISPER socket and the overflow socket, queues of 2 | `TypeOK`, `Fifo`, `AckFirst`, `RepliesInOrder`, `ServiceSpec` | capacities hold; no accepted command is lost, repeated or overtaken; ACK of coms_task before the executor's replies, these in order of execution; `CommandService` is implemented |
| `clients` | 2 peers, 1 command each, queues of 1, fair | `StrangersOnlyAfterGone`, `AcceptedIsExecuted`, `OnlyPeersStall` | a reply reaches a stranger only after the asker's connection ended; accepted commands are executed; coms_task hangs only in `recv()` on a peer that is connected and silent, or in `disconnect()` on one that does not close its side |
| `link` | 1 WHISPER socket, 1 command, 1 address, link losses at will, fair | `TypeOK`, `ActiveHasAddress`, `LeaseKept`, `LeasesAgain`, `AddressAnnounced`, `PubListensAgain` | `dhcp_active` implies an address; a loss costs one lease at most; a lease again on a link that stays up; each address is announced; the PUB socket comes back; all three unless coms_task from some point on waits for good |
| `dhcp_net` | 2 servers with pools of their own, timer, 1 message in the socket, fair | `TypeOK`, `AddressFromItsServer`, `LeasedUsesIt`, `AsksAgain`, `LeaseRenewed` | address and server belong together; the chip has the leased address; the client never stops asking; a finite lease is renewed |
| `tib_rounds` | 2 servers, no timer, 4 polls a round, 2 messages in the socket, fair | `ActiveIsLeased`, `TibAsksAgain`, `ServiceSpec` | `dhcp_active` means leased after any sequence of rounds; each round asks again; dhcp.c implements `DhcpService` |
| `board` | `Devices`, `Telemetry`, `Framer`, `QueueCopies`, one a behaviour | `BoardTypeOK`, `CoilsReleased`, `StateIsPosition`, `LevelFromItsLaser`, `LasersApart`, `ValueOfItsChannel`, `PublishedAsSampled`, `TelemetryGoesOn`, `DecodedAsSent`, `ReadBack` | no coil stays on, restarts included; a switch reports where it stands unless a transfer failed; a level read is one of that laser; a sample is published as it was queued while coms_task keeps up, and after a backlog still as a value of its channel; well-formed messages are decoded whole and in order |
| `net_programs` | the users of the WIZnet library, one a behaviour | `NetTypeOK`, `OnlyOwnReplies`, `LookupEnds`, `DateIsTheStamp`, `EchoIsOwn`, `ListensAgain`, `AddressesAreOurs`, `PipeSpec` | no answer to another query; a lookup ends; the date is the stamp's; a peer hears what it said and a server listens again; no neighbour's address is used; `BytePipe` is implemented |

The runs of `expect: violation` are in section 7.

### Bounds, and why they are enough

* *Queues of 2, or 1,* instead of 10: everything the code does with a queue
  depends on full, empty and order alone. Two places let two replies wait at
  once, which order needs; with one place the queues are full most of the time.
* *1 WHISPER socket and the overflow socket* instead of 4 and it: the code treats
  WHISPER sockets alike; a latecomer needs one of each, and a peer that takes over
  a socket needs one.
* *3 commands, 2 peers*: a command being executed, one queued and one refused;
  the one who left and the one who came.
* *RxMax = 3 parts*: a command and half of the next, so that a receive is cut by
  the buffer as well as by the network. *TxMax = 2*: room for the second reply of
  a command or not.
* *Polls = 4* instead of 100: DISCOVER, REQUEST, ACK, leased is the shortest
  exchange, and three polls or fewer are what a late answer leaves.
* *MAX_DHCP_RETRY = 1, DHCP_WAIT_TIME = 0, MaxTick = 1*: one retry used, none
  left; tick within and beyond the wait, and beyond half of a lease of 1. The tick
  is not followed past `MaxTick`, where no comparison of the code changes any
  more.
* *Leases = {1}*, and the initial lease time is infinite, so both comparisons
  with INFINITE_LEASETIME are met.
* *`board`: two switches of one arm and the real routes over them*: a route sets
  two switches, so one may fail between the two; the other kinds and the other
  arm are wired alike, which `Board_proofs` shows for all. *Three lasers*, id 0
  (the broadcast address) among them; *RawMax = 1* tells levels apart and *MaxLate
  = 2* lets a late answer be followed by another. *MaxPoor = 1*: transfers fail on
  one pin at a time, again and again.
* *PubLen = 2* instead of 10: full, empty and between.
* *`link`: 1 address*. Whether there is one, whether it is given up, and whether it
  was announced since (`announced`) is what its properties look at: every round
  clears the address first. `dhcp_net` and `tib_rounds` have two servers.
* *Bytes up to 3, a buffer of 14, request ids of one byte, two messages*: a part
  longer than its size byte can say, a message that is cut by the buffer, one of
  five parts, one that does not parse, and two messages behind each other.
* *LocalCap = 2, keys of 1, 2, 3 and 5 characters, 3 messages decoded*: in place,
  first block and larger block; one command in the executor's hands, one in the
  queue, one decoded since.
* *`net_programs`*: two lookups of up to two retries; stamps on both sides of the
  ends of January, February and December of 1900 (no leap year), 1904 and 2000
  (leap years), in zones west, east and off by three quarters of an hour; two
  sockets of 4 units to receive and 1 to send, so that a send takes part of the
  data; peers that say up to three units, and follow each other; *BYTE = 4, SIZE =
  4*: a word of 16, so that pointers wrap both the ring and the word; two routers
  and a host, two packets in the socket.

The theorems of section 6 do away with these bounds for every property of these
runs that is not a liveness property. Bounds that remain in them, because they
are assumptions: what a history is cut at (`MaxCmds`, `MaxSay`, `MaxParsed` and
the like) is any number, but a number; `MaxTick` lies beyond the wait and half of
every lease; `LastDay` leaves out stamps of the first day of 1900 and of the last
two days of the 32 bits (section 7).

## 5. Fairness

* `CommandPath!Spec`: weak fairness of coms_task and of executor_task. They are
  FreeRTOS tasks of equal priority on two cores, each of which sleeps or blocks in
  every turn, so each runs again when it can. Nothing is assumed of peers.
  `FairSpec` adds that a chip that has transmitted says so, and that the peer of a
  socket that stays open acknowledges what was sent (TCP ends the connection
  otherwise), the FIN of `disconnect()` in LAST_ACK included; without it `recv()` on
  a half-closed socket may wait for ever. That a peer sends a FIN of its own is not
  assumed: in FIN_WAIT `disconnect()` may wait for ever.
* `ZyreLink!Spec`: weak fairness of coms_task, except that `recv()` on a connected
  peer may never return (`ComsRuns`). `FairSpec` adds: a socket in LAST_ACK is closed
  (the chip gives up by itself), but one in FIN_WAIT need not be; `ENTER` falls due
  again and again (its interval passes), telemetry keeps coming (the photodiode
  task samples at 100 Hz), and a server that is asked in one round after another
  answers in time in some. The three liveness properties except the behaviours in
  which coms_task, from some point on, waits for good (`<>[]Stalled`): in `recv()`, in
  `disconnect()` on a socket in FIN_WAIT, or for a tick of dhcp.c after a conflict.
  One entry into `recv()`, or any number that return, is no exception.
* `DhcpClient!FairSpec`: the caller calls `DHCP_run` over and over, and the timer
  runs, as dhcp.h asks. Nothing is assumed of servers or network.
* `TibDhcp!TibSpec`: weak fairness of coms_task alone. There is no timer.
* `Telemetry!TelFair`: photodiode_task runs, a conversion ends, and coms_task
  drains `pub_out` when it gets there. That `recv()`, or the `disconnect()` in
  `send_pub()`, returns is not assumed: `TelemetryGoesOn` has a coms_task that stays
  in one of them for good as its exception.
* `DnsClient!DnsFair`: `DNS_run` runs, and seconds pass while the timer is
  scheduled; whether it is cancelled is open (timer.c returns no value), and the
  exception of `LookupEnds`. Nothing of the server.
* `EchoServers!EchoFair`: the program runs; for each socket the chip transmits what
  it was told to, and its data is acknowledged or the connection given up, and
  a handshake ends one way or the other: the W5500 retransmits a number of times
  and then times out by itself.

## 6. The proofs

TLAPS proves, for every value of the constants, each safety invariant, action
property and refinement that the runs check. It assumes what the modules that
declare the constants name: `CommandPathAssumption`, `DhcpServiceAssumption`,
`ZyreLinkAssumption`, `DhcpClientAssumption`, `TibDhcpAssumption`,
`DevicesAssumption`, `TelemetryAssumption`, `FramerAssumption`,
`QueueCopiesAssumption`, `SocketAssumption`, `EchoAssumption`,
`MemoryAssumption`, `DnsAssumption`, `SntpAssumption`, `AutoConfigAssumption`.
They say that lengths and limits are numbers, not zero where the code's are not;
that a model value that stands for "none" is not one of the others; and in four
places more: ports end where the code's do, the ring's size divides the range of
its pointers, the photodiodes have channels of their own, and the two bounds
`MaxTick` and `LastDay` of section 4. TLC evaluates them on the instances of the
runs.

| Theorem | Property | Invariant it rests on |
|---|---|---|
| `CommandPath_proofs!TypeCorrect` | `TypeOK` | inductive as it stands: the capacities follow from the guards because a task that holds a command is where its code says |
| `CommandPath_proofs!FifoHolds` | `Fifo` | with `TypeOK`: moving a command from queue to hand to history leaves the concatenation alone only if the hand was empty |
| `CommandPath_proofs!AckFirstHolds`, `RepliesInOrderHolds` | `AckFirst`, `RepliesInOrder` | `OrderInv` |
| `CommandPath_proofs!StrangersOnlyAfterGoneHolds` | `StrangersOnlyAfterGone` | `OwnerInv` |
| `CommandPath_proofs!ImplementsService` | `ServiceSpec` | `OrderInv` |
| `ZyreLink_proofs!LinkTypeCorrect`, `ActiveHasAddressHolds`, `LeaseKeptHolds` | `TypeOK`, `ActiveHasAddress`, `LeaseKept` | `LeaseInv` |
| `DhcpClient_proofs!ClientTypeCorrect`, `AddressFromItsServerHolds`, `LeasedUsesItHolds` | `TypeOK`, `AddressFromItsServer`, `LeasedUsesIt` | `DhcpInv` |
| `DhcpClient_proofs!UntimedImplementsService` | `ServiceSpec`, without a timer | `UntimedInv` |
| `DhcpClient_proofs!ActiveIsLeasedHolds`, `TibImplementsService` | `ActiveIsLeased`, `ServiceSpec` | `TibInv` |
| `Board_proofs!CoilsReleasedHolds`, `StateIsPositionHolds` | `CoilsReleased`, `StateIsPosition` | `ExecInv`, `SwitchInv` |
| `Board_proofs!LasersApartHolds`, `LevelFromItsLaserHolds` | `LasersApart`, `LevelFromItsLaser` | `ExecInv`, `LevelsKnown` |
| `Board_proofs!ValueOfItsChannelHolds`, `PublishedAsSampledHolds` | `ValueOfItsChannel`, `PublishedAsSampled` | `TelInv` |
| `Board_proofs!DevTypeOKHolds`, `QcTypeOKHolds`, `BoardTypeOKHolds` | `BoardTypeOK` and its parts | the same, `QcInv` and `CopiesInv` |
| `Framer_proofs!FrTypeOKHolds`, `DecodedAsSentHolds`, `ReadBackHolds` | `DecodedAsSent`, `ReadBack`, types | the stream, below |
| `Echo_proofs!EchoIsOwnHolds` | `EchoIsOwn` | `EchoInv` |
| `Net_proofs!MemTypeOKHolds`, `MemImplementsPipe` | `PipeSpec`, types | `MemInv` |
| `Net_proofs!DnsTypeOKHolds`, `OnlyOwnRepliesHolds` | `OnlyOwnReplies`, types | `DnsInv` |
| `Net_proofs!AacTypeOKHolds`, `AddressesAreOursHolds` | `AddressesAreOurs`, types | `AacInv` |
| `Net_proofs!SntpTypeOKHolds`, `DateIsTheStampHolds` | `DateIsTheStamp`, types | `SntpInv` |
| `Echo_proofs!EchoTypeOKHolds`, `Net_proofs!NetTypeOKHolds` | `NetTypeOK` and its largest part | `EchoTypes`, and the four before |
| `ZyreLink_proofs!AbandonedForGoodHolds` | | `LeaseInv`, and that only the overflow socket is refused and flushed (`FlushIsOverflow`) |
| `CommandPath_proofs!FromPeerOrEndedHolds` | | `OwnerInv` |
| `DhcpClient_proofs!RenewalChangesNothingHolds` | | `SameAddress` |
| `Board_proofs!NothingIsEverSet` | | `NothingSetInv`, with `KnowsSet` false, as in the code |
| `Board_proofs!NeverAMixtureHolds` | | `LatestInv` |
| `Board_proofs!CoilsHaveTheirPins` | | the sixteen coils have sixteen pins |
| `Board_proofs!RoutesOfArmsKeepApart` | | by cases over the inputs: a path names no switch twice (`SetsOnce`), hence after a route each of its switches stands as the route says, and only switches of its arm have moved |
| `Board_proofs!OneSourceOfLight` | | the paths of cal and laser to one output need different positions of one switch; that of 1430 contains that of laser |
| `Board_proofs!FailedReadingIsTold`, `FailedStatusReadsAsStopped` | | what a getter returns on failure is the value of none of 65536 readings; a status flag has no such value, and reads as not set |

The last four rows are about what `main()` and `maiman.cpp` wire, with no execution
in between; `MEMSRouter::route` is its effect when no transfer fails.

### How far the findings reach

A run of section 7 shows one behaviour in which a statement fails. Five theorems
say, for every instance, how much fails with it and what still holds.

* `AbandonedForGood` (`leak`): a WHISPER socket left in CLOSED or CLOSE_WAIT,
  initialized, owed no reply and not about to be opened again by one, is lost.
  Neither `receive()` nor a peer nor any reply opens it until `tick()` closes every
  socket over a loss of the link (`HandlesLoss`).
* `FromPeerOrEnded` (`stale_rx`): a command is taken for another peer's only when
  its own peer has gone. Two living connections are never confused.
* `RenewalChangesNothing` (`dhcp_acked`): DHCP_IP_CHANGED is never answered, and
  the address stays the same through every renewal.
* `NothingIsEverSet` (`set_lost`): no sequence of commands, failures and restarts
  changes the state of a switch, an attenuator's code or a laser's level.
* `NeverAMixture` (`copies`): the key and the arguments of a copy are lost together.
  A handler that finds its arguments' object alive finds the accepted key.

### Why the invariants are needed

**OrderInv.** Neither ACK-before-result nor the order of replies is inductive:
whether the next reply breaks it depends on where the command and the replies
still to come are. `MsgUnanswered` says that the command in coms_task's hands has
no reply on the wire, although the executor may be done with it: its replies are
still in `response_out`, which only coms_task drains. `ResponsesInOrder` and
`TransmittedInOrder` order all replies made so far by how far the executor had
got (`Progress`). The rest says that a command is once where it is: in a stream,
a hand, the queue, the history.

**OwnerInv.** No two sockets hold the same connection (`OnePeer`), and a command
travels with the number of the socket its connection has, or that connection has
ended (`OwnerOrEnded`). The bytes left in `rx_bufs` are part of this: they are
their socket's, or of a connection that has ended.

**ImplementsService.** The queue of the abstract service is the executor's
command followed by `command_in`, its replies those on the wire. Every step maps
to one of its steps or to none. That a reply is never early and never made twice
is what `OrderInv` gives.

**LeaseInv** adds to the properties: `LeasedHasIp`, that the client in LEASED has
given the chip an address, without which the poll that sets `dhcp_active` could
set it without one; `SeekInactive`, that DHCP is run only while `dhcp_active` is
false, without which `DHCP_init`, which clears the address, could run under an
active lease; `DownIsLost`, that a link which is down, remembered as down or being
handled as down has a loss still to answer, without which the reset of
`dhcp_active` in `link_restored()` could cost a lease with no loss; `DownInactive`,
that `dhcp_active` is false while `handle_link_down()` waits for its sockets,
without which its `DHCP_stop()` could end an active lease; and `OwedBound`, without
which the bound on replies is not preserved.

**DhcpInv** adds `RxSaid`, that what is in the socket was sent by a server: the
address the client takes from an OFFER is then one of that server. The three
properties need each other: a REQUEST is well formed because the server heeded is
a server, which is `AddressFromItsServer` in the states that send one.
**UntimedInv** adds what no timer means: the tick stays 0, hence no renewal, and
no address before an ACK, so that the abstract service's one step of an exchange
has its counterpart. **TibInv** adds that an active lease is kept between the
rounds of `start_dhcp()`.

**SwitchInv.** That no coil is driven when the executor is idle rests on what is
left to do: a pin that is on and whose transfers succeeded has its release, or
its being driven low, ahead (`OffAhead`), and no pulse is cut (`PlanKept`). A
restart, which forgets what was left, drives every pin low first. That a switch
stands where `_state` says needs that a pulse about to be recorded has
pulled (`PulseDone`). **LevelsKnown**: an answer, however late, carries a level
that laser has had. **TelInv** follows a sample through the registers
(`SampleInHand`) into `msg`, whose payload is of its topic's channel whenever no
assignment is under way (`MsgIsOneSample`). A copy that is not behind shows the
sample `msg` still holds (`CopiesShowMsg`), and what `send_pub()` has read so far is
`msg`'s, or not claimed to be (`ReadIsOfMsg`).

**QcInv** and **CopiesInv**: blocks never move or shrink, so that a copy made
earlier still lies within its block, whatever has been written there since. They
bound the harm of section 7's `copies`, which is real. **LatestInv** adds that the
object's number is that of the last message decoded, so that a copy which has it
was made of what msg holds now.

**Framer.** What was returned, followed by the buffer and by what TCP still
holds, is the stream of what was sent, as long as no message is malformed and
the buffer holds each. `decode()`'s loop is a recursive function; that it
finds the first frame, and what it leaves, is by induction over positions.

**EchoInv.** On a live TCP connection the peer's ear, the transmit memory, the
program's buffer and the receive memory are, one after the other, one run of the
bytes 1 .. `said`; a connection that is ending keeps as much of it as can still
be transmitted, and `sending` is never more than the transmit memory has. What
the program holds depends on where it and its call are. For a W6x00, whose
`send()` may write twice, only whose the bytes are is claimed, as in the property.
For UDP: a datagram in the transmit memory goes to the destination register as
it was set for it, and the memory is empty when no `sendto()` waits.
**EchoTypes** adds that what is in memory fits, which for UDP is a sum over datagrams
(`Units`, a recursive function again).

**MemInv.** Pointers are compared modulo the word, and memory addressed modulo
the ring. `Ahead` is what lies between two pointers, and the lemmas before it say
when it adds up. While the library reads a size a byte at a time, the size only
grows (`SizeInv`): of two readings whose bytes agree, none is more than is there.
Between moving a pointer and telling the chip, the chip counts from the old one
(`ReceiveInv`, `SendInv`).

**DnsInv.** `DNS_run` compares no ids. What keeps a late reply out is that each
run takes the port after the last one's (`PortOfLookup`).

**AacInv.** The tentative address is used only when the chip's question about it
has timed out, and no answer can come after that (`Tentative`); there is no prefix
before the first advertisement, which also brings the gateway (`FirstPrefix`).

**SntpInv** adds that a stamp in the socket is one the server sent. The rest is
the calendar: years and months are subtracted one by one, in two recursive
functions, and the way back adds 365 a year, the leap years and the days of the
months. Both count by the same growing sequence of first days, in which a day
has one place (`PlaceFacts`).

Recursive functions are reasoned about without the library's induction theorems,
whose operator parameters the provers cannot instantiate: in `Recursions`,
induction is over a set of naturals, from the fact that each has a least
element. No module proved about uses a RECURSIVE operator.

Queues, streams and byte strings meet as sequences in a row, and most steps only
move the place where two of them join. `Recursions` says this once (`Regroups`,
with the lemmas `Regrouped` and `Joined`), and the proofs about `CommandPath` and
`Framer` move their parts by it. Where a lemma's
conclusion is long it has a name (`Meets`, `InMonth`, `WithoutOne`, `StandsAs`,
`WrittenAs`), so that a step instantiates the lemma first and expands the
conclusion in the next; and ranges with large bounds stay folded where only the
kind of the number matters. The leaves are kept small, so that the provers find
each well within their time.

### Only model-checked

The liveness properties (`AcceptedIsExecuted`, `OnlyPeersStall`, `LeasesAgain`,
`PubListensAgain`, `AddressAnnounced`, `AsksAgain`, `LeaseRenewed`,
`TibAsksAgain`, `TelemetryGoesOn`, `LookupEnds`, `ListensAgain`): liveness under
fairness is beyond this prover, as is anything with ENABLED. The component
theorems are of the components' specifications, which the runs `board` and
`net_programs` put side by side; that the composition's types follow from the
parts is `BoardTypeOKHolds` and `NetTypeOKHolds`.

## 7. Where code and documentation disagree

Each is a run of `expect: violation`: TLC finds a behaviour of the model in which
what a comment or document says fails.

| Run | Statement | What the code does |
|---|---|---|
| `stale_rx` | `CommandFromActivePeer` (pico_zyre.h:83, "Receive WHISPER from active peer") | `send_reply()` resets the socket, not its receive buffer: a whole command that an earlier peer left there, behind one already decoded, is taken and acknowledged as one of the next peer when that one's first bytes arrive |
| `leak` | `WhisperListensAgain` (pico_zyre.cpp:305, "handle latecomers") | a WHISPER socket in CLOSE_WAIT or CLOSED, but marked initialized, is never opened again |
| `dhcp_acked` | `AckedIsUsed` (dhcp.c:227-228, "the IP address from DHCP server") | an ACK of an earlier exchange completes a later one; the address of a renewal's ACK is never copied, so DHCP_IP_CHANGED cannot be answered |
| `set_lost` | `SetIsDispatched` (executor_task.cpp:193, "`cmd.type == MsgType::SET`") | `string_to_msgtype()` knows neither "get" nor "set": every command runs its get handler |
| `copies` | `ActsOnWhatWasAccepted` (doc/status.md:75, "acts on inbound mKTL commands") | the key and arguments the executor reads are those of a message decoded since, or freed |

`board` is run with `KnowsSet = TRUE`, the decoder the executor was written
for, because none of the set handlers would be reached otherwise; `set_lost` is
the code as it is.

### What the modelling brought up besides

Seen in the code, stated by no property of a run, or only by its exceptions.

*tib-pico2*
* A reply goes to the socket the command came from (pico_zyre.cpp:334), not to the
  peer, against pico_zyre.h:84, "Respond to last WHISPER from peer":
  `StrangersOnlyAfterGone` is what remains true. A silent peer holds coms_task,
  and with it every other peer and `tick()`, in `recv()`; one that never closes its
  side holds it in `disconnect()`, which a reply without room, a publication without
  room, the overflow socket and a loss of the link all call. `OnlyPeersStall` says
  that nothing else does.
* What an earlier peer leaves unfinished in `rx_bufs` also stays (`stale_rx`), and the
  first bytes of the next peer are then decoded behind it. What such a mixture
  decodes to is not followed: `Decodable` takes only the two parts of one command.
* The entries of `pub_out` all refer to photodiode_task's one `msg`
  (photodiode_task.cpp:18, 45-47). When coms_task falls behind, it publishes the
  latest sample several times, cut to the lengths of the ones queued, or half of one
  and half of another, where doc/status.md:76 says "Asynchronously polls
  photodiode voltages and sends updates via the PUB queue". `PublishedAsSampled` and `ValueOfItsChannel` are
  what remains true.
* `DHCP_run` is not called with a lease and no timer runs (pico_zyre.cpp:180), so a
  finite lease is neither renewed nor given up; dhcp.h:122 says of `DHCP_run` "This
  function is always called by you main task".
* The answer to mems.route, about 600 bytes, does not fit a part's size byte.
  `activeRoutes()` lists every route wherever the switches stand.
  `Attenuator::get()` reads the channel and answers 0.
* The first laser has slave id 0, the broadcast address: `LasersApart` allows for
  it. After two late echoes and a lost request an "ok" can be false. A status
  flag of a laser that does not answer reads as not set: stopped, and interlock
  not denied. `readU16()` asks for two registers and gives room for one.
* The expander is constructed with address 0x21 (main.cpp:258), while
  `GPIOEXP_I2C_ADDRESS` is 0x20. One route is defined twice (main.cpp:298, 329).
* A malformed message hides those behind it until the buffer overflows. The ADC's
  result is read without asking whether the conversion ended.

*WIZnet library*
* `recvfrom()` refuses IPRAW6 and UDP6 sockets (socket.c:932-944), which socket.h:431
  lists; without them address autoconfiguration never ends. For W6x00 UDP
  sockets it returns a length and leaves the payload unread (socket.c:1106-1142).
* W6x00: a non-blocking `send()` writes the data and then answers SOCK_BUSY, so the
  loopback server sends it again; `recv()` answers SOCK_BUSY while ESTABLISHED even
  with data (socket.c:673).
* `connect()` spins for ever when the server accepts and closes before ESTABLISHED is
  seen. `listen()` closes a connection that arrives between LISTEN and its reading
  of the status. W5500 servers drop data that came with the FIN.
* One stuck TCP peer blocks every socket of tcp_server_multi_socket, which also
  polls a socket number past the last. udp_server and udp_client stop for good
  at one ARP timeout. multicast_loopback sets destination registers of socket 0.
* A DNS retry sends nothing: `len` is 0 by then (dns.c:538), while dns.h:73 counts
  retries of a query. A reply without an A record leaves the address as it was.
  A lost SNTP request is never repeated: the counter it depends on stands still.
* A stamp of the first day of 1900 is below zero in a western zone, where the time is
  unsigned (sntp.c:82). For a local time past 2^32 seconds the product of 32 bits in
  `changedatetime_to_seconds()` (sntp.c:490) begins again at zero. `LastDay` and
  `SntpAssumption` leave those stamps out.
* Autoconfiguration ignores the result of duplicate address detection; the
  stateless DHCPv6 call succeeds when called twice, whether an answer came or not.

## 8. What is not modelled

* The content of JSON, DHCP options and DNS names, beyond what decides a branch;
  addresses other than their identity. Message wording and logging.
* Arguments of a type the handlers do not expect: `nlohmann::json` would throw, in
  a build without exceptions.
* The byte copies in `response_out`, made from local objects of executor_task's
  functions: as in `QueueCopies`, but what a dead stack frame holds is anything.
  `CommandPath` has of a reply only what is copied by value: socket number, type
  and, for the request id, a name of the command.
* A command put together from the bytes of two peers (section 7).
* Time: intervals are nondeterministic, or fairness, except in `DhcpClient`,
  which counts ticks as the code does.
* `wizchip_conf.c`, SPI, QSPI and GPIO set-up, `main()`'s pin set-up: access to buses
  and registers without state of their own. `nanomodbus` is an empty submodule,
  modelled from how `maiman.cpp` uses it.
* Of socket.c: socket options, `ctlsocket`, MACRAW and IPRAW sockets, and W6x00's
  UDP, whose `recvfrom()` leaves every payload unread.
* Of dhcpv6.c: the stateful client, which calls functions by names that are not
  defined for it and does not build.
* Of the device drivers: what no program calls (comparator and gain of the ADC,
  polarity and pull-ups of the expander, start, stop, frequency and duration of
  the lasers, `photodiode.cpp`).

## 9. Plan

Done: every module of section 3 with its runs; and for every safety property of
the runs a theorem. Left:

1. The copies in `response_out`, as `QueueCopies` does for `command_in` and
   `Telemetry` for `pub_out`.
2. That `ZyreLink` over `TibDhcp` itself is `ZyreLink` over `DhcpService`: the
   refinement is proved, the substitution is argued in section 3.
3. The stateful DHCPv6 client and W6x00's UDP, should they come to build and work.
