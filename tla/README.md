# A verification project for fwknop-go

TLA+ specifications of fwknop-go (Single Packet Authorization in Go), the TLC
configurations that model-check them on small instances, and proofs that TLAPS
checks for every value of the constants. Paths are relative to the repository.

A client sends one encrypted UDP datagram. The daemon `fwknopd` decrypts it
with the keys of one of its access stanzas, checks age, replay, user and
source, and then opens a firewall rule for a limited time, or runs a command.
Nothing is ever answered, so nobody notices when a step goes wrong: a rule that
stays open, a packet that passes twice or a refresh that is lost look like
success from both ends. These are the properties this project is about.

## 1. The system

| Part | Code | State | Operations | Interacts with |
|---|---|---|---|---|
| Client | `cmd/fwknop` | none between runs | flags, variables, rc file → options → `Message` → encrypt → send | codec, network |
| Codec | `fkospa` | none | `Encode`, `Encrypt`, `Decrypt`, `decodePlaintext`, `validate` | client, dispatch |
| UDP listener | `cmd/fwknopd/server.go` | a buffer of 1500 bytes | read, `processSPAPacket`, one packet after the other | all of the daemon |
| Access policy | `access.go`, `server.go` | stanzas, fixed after start | `matchSource`, the checks of `processSPAPacket`, `dispatchAction` | codec, replay cache, actions |
| Replay cache | `replay.go` | digest → expiry, under a mutex | `isDuplicate`, `add`, a purge goroutine | listener, clocks |
| Actions manager | `actions.go` | key → timer, under a mutex | `OpenRule`, `CloseRule`, `ExecuteCommand`, `Shutdown` | listener, timers, signals, firewall |
| Templates | `conf_files/actions` | the host firewall | `init`, `check`, `open`, `close`, `shutdown` | actions manager |
| Process | `main.go` | PID file, signal channel | start, signal, `os.Exit`, `--status/--kill/--restart` | actions manager, other daemons |
| Server configuration | `config.go`, `access.go` | server.yaml, access.yaml | merge layers, type values, choose the mode | process, dispatch |
| Converter | `cmd/fwknop-convert` | none between runs | legacy files → YAML | client and daemon, through the files |
| Log | `log.go` | — | print | — |

Three kinds of goroutine run in the daemon: the listener, one per timer that
fires, and the signal handler that runs `Shutdown`; a fourth purges the cache.
They share the map of active rules and the cache, each under its own mutex, and
the firewall, which no lock protects: all commands run outside of `am.mu`.

What is hard here:

* **Interleaving.** Check, open and schedule are three steps; so are the firing
  of a timer, the close command and the deletion of the key. `Shutdown` works on
  a snapshot while the listener opens more rules, up to `os.Exit`.
* **Clocks.** The age check reads the wall clock, the cache the monotonic clock,
  at three different instants; validity counts from the sender's stamp, the
  cache's TTL from receipt.
* **Crashes and restarts.** The firewall outlives the process, the cache does not.
* **The network.** Datagrams are repeated, delayed and come from any address.
* **Several processes.** Daemons may overlap, and a command reads the PID file at
  one time and signals the number in it at another; numbers are used again.
* **Texts that change type.** A setting passes through a legacy file, the
  converter, YAML, flags and variables before a typed field holds it.
* **A wire format without names.** Optional fields are told apart by the message
  type and by whether a field reads as a number.

The properties that make each part correct:

* replay protection: a packet passes at most once; entries do outlive validity;
  the cache forgets;
* actions manager: a rule that is open has somebody to close it; rules are
  single; the map tracks the newest timer, and loses one that is armed in one way
  only; shutdown ends and, unless its command fails, leaves nothing in force;
* dispatch: every effect is within the first stanza that fits, happens once, and
  never follows a refusal; the time asked for stays within the cap;
* codec: what is decoded is what was meant; what the client sends is understood;
* process: the PID file names the daemon that wrote it; a denial is true of some
  moment, or of a daemon without a file; a signal goes to the daemon that was
  asked about, and that one ends; rules that stay behind have a cause;
* configuration: what a legacy file says is what the program runs with, or the
  program refuses it.

`PROJECT.json` lists 40 hazards at the lines where they bite.

## 2. The modules

| Module | What it is | Code |
|---|---|---|
| `Admission` | abstract: each packet is admitted once per life and not after a grace period | — |
| `ReplayGuard` | age check, cache, purge, clocks, restarts | `replay.go`, `server.go:78-98`, `main.go:72-75` |
| `ReplayGuardProofs` | theorems about it | |
| `Firewall` | effect of the commands of the six templates | `conf_files/actions/*.yaml` |
| `AccessWindow` | abstract: a rule is open, closed, or an orphan of a stopped daemon | — |
| `ActionRules` | listener, timers and shutdown over the map and the firewall | `actions.go`, `main.go:87-127` |
| `ActionRulesProofs` | theorems about it | |
| `ActionRulesRefinement` | the lifecycle implements the safety part of `AccessWindow` | |
| `PacketDispatch` | the decision about a packet | `server.go:29-207`, `access.go`, `actions.go:265-326` |
| `PacketDispatchProofs` | theorems about it | |
| `SpaCodec` | settings → keys, message → packet → message | `fkospa/spa*.go`, `message_type.go`, `cmd/fwknop/main.go:83-173`, `cmd/fwknop/config.go:228-308`, `access.go:69-130` |
| `SpaCodecProofs` | theorems about it | |
| `ServerConfig` | the layers of the server's settings, the choice of the mode | `cmd/fwknopd/config.go:91-173`, `main.go:32-60` |
| `Daemon` | daemons and commands on one host: PID files, ports, signals, rules | `main.go`, `server.go:21-47`, `actions.go:137-232` |
| `DaemonProofs` | theorems about it | |
| `Layers` | one layer of settings over another | the maps of Go and koanf |
| `Settings` | how texts become typed values | koanf and yaml.v3, as `src/` uses them |
| `ClientConfig` | the layers of the client's settings | `cmd/fwknop/config.go:138-226`, `rcfile.go` |
| `LegacyConversion` | the converter, line by line | `cmd/fwknop-convert` |
| `ConvertedConfig` | composition: a converted file read by the program it is for | `access.go:39-81`, and by `LegacyConversion`, `ClientConfig`, `ServerConfig` |
| `ConvertedConfigProofs` | theorems about it | |
| `MC...` | the instances for TLC | |

### ReplayGuard

A packet is the text on the wire, identified with its digest; its timestamp is fixed
when it is made. (The digest is taken of the text, `server.go:92`, and base64 is decoded
leniently, `base64.go:17-23`: line breaks and the last bits are ignored. Under a stanza with
an HMAC the text is authenticated; under one without, texts of different digests open
to one message, and they are different packets to the cache and to this model.) `mono` is the
host's monotonic clock, `mono + offset` its wall clock. `ReadPacket`, `CheckAge`,
`IsDuplicate` and `AddDigest` are the steps of the listener with one packet;
`IsDuplicate` and `AddDigest` are one critical section each, and time, the
purge and clock steps may come in between. `Purge` is one scan under the lock.
`Restart` may come anywhere and empties the cache. A parsed timestamp has no
monotonic reading, hence the wall clock in `TooOld`; `time.Now().After(exp)`
compares monotonic readings, hence `mono` in `Expired`.

`Timely` is what a deployment must ensure for the cache to do its work:
`MaxAge > 0`, and `MaxPause <= MinTransit + LeastOffset`, that is, the pause
between age check and look-up is no longer than the time the packet took to
arrive, less what the wall clock may be stepped back. A client whose clock
is ahead makes `MinTransit` negative, and then there is no such margin.

### ActionRules and Firewall

`fw[r]` counts the instances of a rule in the firewall. A command takes effect
at one instant; goroutines interleave before and after it. `Request`, `RunCheck`,
`RunOpen` and `ScheduleClose` are `OpenRule`; a timer goes from `armed` through
`fired` (its goroutine runs) and `ran` (the close command has run) to `done`
(the key is deleted, whatever timer is tracked under it by then). A stopped
timer that has already fired goes on. `BeginShutdown` takes the snapshot;
`ShutdownCloses` closes its keys in any order. The shutdown command is one step for most
templates (`RunShutdown`); that of iptables is three commands, which empty the chain
(`RunShutdown`), take it out of `INPUT` (`DetachChain`) and delete it (`DeleteChain`), and
the last fails if a rule was added since the first. Each may fail (`ShutdownMayFail`),
which the code logs before it goes on to exit; `unclean` is the history of that. A rule is
`InForce` if it is in a chain that packets are led through (`linked`). The listener and late
timers go on until `Exit`. `Abort` ends the process at any other point. `active` and `timerKey` are cleared by every `Stop`:
nothing of the memory survives. Two keys may stand for one rule because keys are
compared as text and the port list of a stanza without regard to case. A command
that fails is logged: after a failed open nothing is scheduled, after a failed close the
rule stays and is forgotten. `inherited` is a history of the rules left open that way
or by an earlier life; the next request for such a rule takes it out again.

`Firewall` gives the six templates their semantics: `iptables -A/-D` append and
delete one instance, `nft` deletes by comment, `firewalld` keeps a set and
expires its members, loading into the `pf` anchor replaces it, `pf` and `ipf`
flush on close, and `ipfw` uses one rule number for all. `FoundBy` and
`RemovedBy` say which other rules the pattern of a `grep` matches.

### PacketDispatch

One action per check of `processSPAPacket`, in the order of the code, and one for
each way `dispatchAction` ends. `stale` stands for the age check and `seen` for
the cache: here the cache is what `Admission` promises it to be. `seen` only grows:
an entry that the real cache forgets belongs to a packet that is stale by then.
A packet is identified with its digest, as in `ReplayGuard` and with the same reservation.
Texts of addresses and their meaning are separate (`AddrOf`), as are ports and
their lower case (`Fold`), since the code compares texts in some places and
addresses in others. `AccessConfigs` is what `loadAccessConfig` makes of the files
in `Policies`: files with a stanza that does not resolve are not served at all,
`ANY` becomes two networks, and timeouts of 0 become the defaults. Negative
timeouts in a configuration are not considered.

### SpaCodec

A field is a text; `B64` and `Dec` are two ways of writing that may share texts:
the two bytes whose base64 is `120` are a legal server auth string. The model
has the real sizes of fields, digests, blocks and HMACs, so that the limit of
`Encode` and the server's buffer can disagree as they do in the code. Client and
stanza resolve their key settings by code of their own (`SenderKeys`,
`StanzaKeys`): base64 keys before plain ones, names of types and modes in several
spellings, defaults on the server, `--use-hmac` on the client.
`ClientUnderstood` says that equal settings suffice. Encryption and HMAC are
ideal; the legacy mode differs from CBC in padding short passphrases and in
nothing else, so the two agree on long ones. A stanza without an HMAC key takes an HMAC for ciphertext;
the block that results does not decrypt.

### Daemon and ServerConfig

A process number holds a daemon at some stage of `run`, another program, or nobody.
`Start` to `Bind` are the steps of `run` up to the socket, each of which other processes
can see or prevent: settings (`ServerConfig`), `am.Init`, the PID file created (and so emptied)
and then written, `signal.Notify`, the port. A signal that comes before
`Guard` ends the process as the system does by default; later ones go into the
channel, of which only the first is ever taken (`Deliver`). They come from `--kill` and
`--restart` (`Signal`), or from systemd and terminals, which need no PID file
(`SystemSignals`). `Return` is the end of `run` with its deferred removal, `Exit` is `os.Exit`,
without it, and `Kill` is SIGKILL or a panic. `ReadFile`, `SaysNo`, `SaysRunning` and `Signal`
are `showStatus` and `signalDaemon`: the file is read, and the number in it used, at two
different times. A daemon that serves counts as `Up` whether or not it wrote the file; one that
did not, in the foreground or for lack of space, is `Hidden`: the commands cannot know of it.

`alone` and `events` are histories: no two daemons have overlapped; a daemon ended without its
deferred calls, or without taking its chain away. The rules of a daemon are one item,
and belong to `Nobody` once their daemon has ended; `ActionRules` looks inside. Closing
them (`CloseRules`) need not happen, and Shutdown (`Flush`) either takes the chain away with all
rules, or leaves the chain with some rules or none: no shutdown command, one that fails, one
that only flushes (`pf`, `ipf`, `ipfw`) or one in parts (`iptables`), which `ActionRules` tells
apart.

The modes are keys of the merged configuration like any other (`ModeOf`), although
`config.go:58` calls them "CLI only": a variable or server.yaml can set `kill`. The
file to read is named by a flag or is the default one; a variable does not count.
One invocation of the run asks for `--restart` by a variable.

### Settings, ClientConfig, LegacyConversion and ConvertedConfig

A layer is a function from keys to typed values. `Settings` has the three conversions
that decide what becomes of a text: YAML's reading of plain scalars, koanf's weak
and yaml.v3's strict typing. `LegacyConversion` reads a file line by line, one
action per kind of line, into sections, and `Convert` prints it; printing is
where a text may turn into a number. In `ConvertedConfig` fwknop or fwknopd then reads
what was printed, with flags and variables, and runs or refuses.
`LastLineWins`, `BackendDetected`, `ConvertedLoads` and `SettingsSurvive` compare the result with the file as a
whole, not with the steps that read it. Nulls, floats and dates among the plain scalars are
not considered, and the `.yaml` at the end of `action_template` is left out.
An empty text is possible in access.conf and fwknopd.conf, where a comment may follow the key
directly (`KEY ;`); it converts to a string that is no number, and that every field
takes for its zero. A stanza of .fwknoprc may have the empty name.

## 3. The runs

| Run | Instance | Shows |
|---|---|---|
| `replay_guard` | 2 packets, TTL 3, purge every 2, wall clock ±1, 9 ticks, 1 restart, `Timely` with equality | the five invariants hold, and `ImplementsAdmission` |
| `replay_ahead` | client clock 2 ahead | a packet passes twice |
| `replay_restart` | as `replay_guard` | a packet passes again after a restart |
| `action_rules` | iptables, 2 rules, 3 keys (two of one rule), 3 timers, 1 restart; opens, closes and every part of the shutdown may fail | the seven invariants |
| `action_rules_live` | firewalld, 2 rules, 3 timers, 1 restart, checks may err, opens and shutdown may fail | liveness and `AccessWindow` |
| `refresh_race` | iptables, 1 key, 2 timers | a refreshed rule is closed |
| `exit_leaves_rule` | iptables without a shutdown command | a rule survives `Shutdown` |
| `packet_dispatch` | 5 packets, 2 senders, 3 access files of 2 stanzas, 2 files that do not load | the six invariants and `ListenerReturns` |
| `spa_codec` | all types and optional fields, 768 client options, 5 key settings of senders and 4 of stanzas | the six invariants |
| `spa_codec_fields` | the same | optional fields are misread |
| `daemon` | 2 process numbers, 2 starts, 1 terminal, 3 PID files, 2 ports, 3 ways to start a daemon and 2 commands, an init that keeps rules | the six invariants and `SignalStops` |
| `converted_config` | up to 4 lines out of 12 (access), 15 (client) or 17 (server); 6 calls of the client, 3 of the server | the five invariants |

Every property of a passing run is violated by a mutant of the code, listed in
`PROJECT.json`; the mutated forms stand in the modules before the definition they
replace, commented `A fault:`.

**Bounds.** `replay_guard`: 9 ticks are enough for a packet to be accepted, to
expire (3), to be purged, and to be delivered again with every reading of the
clocks on the boundary; the two packets differ in stamp, so one is purged while
the other is served. The margin of `Timely` is met with equality, and each mutant
that moves a boundary by one breaks a property. `action_rules`: three timers are
the least for a rule that is opened, refreshed and opened under its second key
while an earlier close is under way; one restart shows what is inherited. The bound on timers
is one on requests, so the first disjunct of `RulesClose` (a rule is requested again and again)
never holds in `action_rules_live`: what is checked is that a rule whose requests end is
closed, for every way to spread three requests over two keys and two lives.
`packet_dispatch`: `IntBits = 4` and `TimeoutBits = 3` scale `int` of 64 bits and
`uint32`; the three files contain stanzas that share a key, overlap in source,
or differ in user, ports, commands and source rule. `spa_codec`: 7 bits of timeout
with options of 128 and 133 beyond it. `daemon`: two numbers and two starts are
two daemons that overlap or follow each other on one number, a command that finds
the number of the first taken by the second or by another program, and a third actor
at the terminal; `--kill` differs from `--restart` in the signal, which the daemon treats alike. `converted_config`: four lines are the least for two stanzas with two
settings, for a setting repeated in a stanza that is opened again, and for four
firewalls in any order; the texts contain an octal
number, a Boolean, a unit, a list and the empty text of a line such as `KEY ;`.

**Deadlock** is not checked where the system may stop: a daemon that is down and
is not started again (`ActionRules`), a message that has arrived (`SpaCodec`), a
program that has read its settings (`ConvertedConfig`).

**Fairness.** `ActionRules`: a goroutine that can run does, a command ends, and a
Go timer that is not stopped fires; so `OpenRule`, every timer, every
`CloseRule`, `Shutdown` and `Exit` are weakly fair. Requests, aborts and starts
are not, and neither is the delivery of a signal, nor the expiry of a rule by firewalld
itself (`RuleExpires`). That commands end is an assumption about
the host: `runCommand` sets no limit. `PacketDispatch`: the steps of
`processSPAPacket` are weakly fair, since each is local or a command. `Daemon`: the signal
goroutine takes a signal that is there, and the commands of Shutdown end; starts,
requests, kills, administrators and other programs are not fair. No fairness
is assumed of the network or of clocks.

## 4. Where the code and its documents disagree

* **A packet passes twice** (`replay_ahead`). The age check bounds how old a stamp
  is, not how far ahead it lies, and the TTL counts from receipt. A client whose
  clock is ahead by *d* makes a packet that stays valid for `MaxAge + d` while
  the cache remembers it for `MaxAge`.
* **A restart forgets** (`replay_restart`). The shipped `server.yaml` sets
  `enable_digest_persistence: true`; nothing reads it.
* **A refresh can be lost** (`refresh_race`). A request that comes after a timer has
  fired and before the close command finds the rule, reports success and tracks
  a new timer; the rule is then closed, and `CloseRule` deletes the new entry.
  `CloserExists` shows that the damage ends there: the untracked timer still runs.
* **A rule survives shutdown** (`exit_leaves_rule`). The listener is not stopped
  before `Shutdown` takes its snapshot. With a shutdown command that removes or
  unlinks the chain, and does not fail, nothing is in force (`ExitLeavesNoRule` in
  `action_rules`); without one, a rule opened in the meantime stays.
* **Optional fields are misread** (`spa_codec_fields`). A NAT access in a message
  whose type has none, or a server auth whose base64 is all digits, is decoded
  as another field. `CoreArrives` shows what is never misread: who asks, for what.

These disagreements are in the models, as behaviours or as conditions of the properties,
without a run of their own:

* `--restart` sends SIGHUP, on which the daemon shuts down as on SIGTERM (`TakeSignal`);
  `README.md:263` lists it as restarting. Under systemd the unit may start it again.
* `CloseRule` deletes the key whatever is tracked under it, so a timer that is armed can drop
  out of the map (`Forget`). `Shutdown`, which "stops all pending timers, closes all active rules"
  (`actions.go:197`), then misses its rule. `ArmedTimersTracked` says that this is the only
  way, and `CloserExists` that the timer still closes the rule, if the process lives.
* A rule that the listener adds between the parts of the iptables shutdown command makes its
  `-X` fail. The chain stays, unlinked; the next init links it, and the rule is in force
  again with nobody to close it (`DeleteChain`, `Start`, `inherited`).
* A failing shutdown command is logged as an error and the process exits as if nothing had
  happened (`unclean`).
* A client that refreshes in time keeps a rule of iptables, nftables or pf open without end:
  `max_access_timeout` limits each request, not their sum (`RulesClose`).
* `--status` ("Check if fwknopd is running", `README.md:264`) and `--kill` know only PID files. Of a daemon in the foreground, as the systemd
  unit runs it, or one that could not write its file, `--status` says "does not appear to be
  running" for as long as it serves (`Hidden` in `StatusHonest`).
* A second daemon empties the first one's PID file before it finds the port
  taken, writes its own number, and removes the file when it gives up
  (`CreateFile`, `WriteNumber`, `Return`); with `firewalld`, `pf` or `ipfw` its init command has
  flushed the first one's rules by then (`InitFlushes`). Hence `alone` in the properties of `Daemon`.
* `isClosedErr` is true of every error, `net.ErrClosed` never being nil: one failed read
  ends the daemon without Shutdown (`ReadFails`, and `events` in `OrphansExplained`).
* `showStatus` and `signalDaemon` slice an empty PID file out of bounds
  (`ReadFile`), and take every error of signal 0 for a process that is not there; `SaysNo`
  assumes a user who may signal the daemon.
* The converter prints the timeouts of access.conf as texts, which `loadAccessConfig`
  refuses, and `USE_HMAC Y`, which the client refuses (`ConvertedLoads`); a passphrase `0755`
  becomes `493` (`SettingsSurvive`). `README.md:502-517` shows converted files in use. The pcap and
  iptables keys it says to produce warnings produce none (`ServerIgnored`).
* `cmd/fwknop/config.go:181` says "Only warn if the file exists but can't be parsed"; the
  client ends (`LoadConfig`). An rc file that is missing is passed over, even when a stanza
  of it is named.

## 5. What is proved

For all values of the constants that satisfy the modules' assumptions:

* `ReplayGuardProofs`. `TypeCorrect`; `CacheForgets` (`EntryLifetimeBounded` is
  inductive together with the types: the clock never passes a purge that is due);
  and under `Timely` `AcceptsOnce`, `EntriesLastLongEnough`, `DecisionsStayValid` and
  `RefinesAdmission`. `AtMostOnce` alone is
  not inductive: a step may accept a packet again unless it is known that the
  cache still has it. `OnceInv` adds that (`EntryOutlivesValidity`: the entry of an
  accepted packet expires no earlier than the packet grows too old by any
  reading of the clock) and that the readings behind a decision still bind
  when it is taken (`DecisionStillValid`). `Timely` is used at one place, where the
  look-up finds an entry that has expired.
* `ActionRulesProofs`. `TypeCorrect`; without assumptions about templates
  `MapTracksNewestTimer` and `ArmedTimersAreTracked`; `ExitLeavesNothing` for a shutdown
  command of iptables, nftables or firewalld of which no part failed, by an invariant about how
  far it has come (`ShutdownTookEffect`): nothing is said of the chain of iptables being
  empty, which it need not be, only that no packet is led through it; and under `SoundCheck` (a check is
  configured, and fails only when there is no rule) `RulesAreClosed`, `RulesStaySingle` and
  `CheckOutlivesTheGap`, for all six backends, any matching of patterns and whichever commands
  fail. `CloserExists` needs `NoDuplicateRule`, for one `iptables -D` removes one instance; that needs
  `CheckStillHolds`, for the open command acts on an earlier check; the
  invariant `RuleInv` is their conjunction with `TrackedTimerIsNewest` and
  `Bookkeeping`.
* `ActionRulesRefinement`. `RefinesAccessWindow`: under `SoundCheck` and `ClosesWork` (a close
  template is configured and its commands do not fail) every step is a step of `AccessWindow`
  or a stutter. Beside `RuleInv` it needs `LeftoversAreIdle`: no timer and no shutdown is about
  a rule left over by an earlier life, so that nobody but the listener turns an orphan
  into an open rule (`NoNewCloser`), and a rule that has a closer keeps it until it is
  closed (`CloserStays`). `ChargeIsKept` and `ChargeTakenByRequest` state these two for
  every step.
* `PacketDispatchProofs`. All six invariants of the run, for any packets, senders, access files
  and matching of addresses; `TimeoutsAreBounded` assumes that `int` holds every
  timeout on the wire (`ToInt` changes none), as on 64-bit hosts. The invariants follow
  from what the position in `processSPAPacket` says about the checks passed so far.
* `SpaCodecProofs`. `DecodeUndoesFields`: the decoder is the inverse of the encoder on
  valid well-formed messages, whatever the texts, the base64 coding and the
  width of the timeout; from it `MessagesRoundTrip` and `TimeoutsFitTypes`, and, with
  `SameKeysOpen` (the two resolutions of key settings agree), `ClientIsUnderstood`.
  `CoreAlwaysArrives` and `DecodedStaysValid` hold of all valid messages, by `CoreDecoded`. The invariant
  `CodecInv` says that the packet carries the sender's message and keys. `TypeCorrect`
  needs what the decoder may put into a number: `ParseTimeout` gives one within
  `TimeoutBits` or none, whatever field it is given.
* `DaemonProofs`. `TypeCorrect` and the five invariants of the run, for any number of
  processes, terminals, files and starts, with an init that flushes or not. Single facts
  are not inductive: that a daemon's file names it needs that nobody else is about to write
  there; that no rules are left needs that a Shutdown which took the chain away is not followed
  by another rule. `IInv` conjoins what is missing: daemons that have not overlapped are one
  (`Single`), only a background daemon writes a file (`NamedBackground`), what a returning daemon,
  a flushed one and a command in progress have done or seen (`ReturnsExplained`,
  `FlushedEmpty`, `CommandSees`), and why a file is stale (`StaleCause`). `CommandSees` carries
  both `StatusIsHonest` and `CommandsHitServer`: as long as a command has seen a daemon serve, the
  number it holds is that daemon's, unless the daemon is `Hidden`.

* `ConvertedConfigProofs`. `TypeCorrect` and the four properties of the run, for files of any length
  over any lines, and for any calls, defaults and readings of texts. That a file is converted rightly is
  an induction over its lines, but one over the steps of the converter: `SectionInv` says that what
  has been read so far is in the sections (each block is there, `BlocksKnown`; each key holds
  the text of its last line, `SettingsKnown`; stanzas of access.conf are numbered in order,
  `StanzasNumbered`; the open stanza of .fwknoprc is that of the last header, `StanzaNamed`),
  and each kind of line preserves it. `ConversionInv` conjoins the types, that the firewall is
  `Detected`, and that a file without a stanza has had all its lines warned about. `LoadInv` adds that what
  is printed is the output of these sections, and that the program has loaded that. `ConvertedAlwaysLoads`
  and `SettingsAlwaysSurvive` follow without another induction, file by file (`AccessLoads`, `ClientLoads`,
  `ServerLoads`): `LayerDecides` says which of five layers a key is taken from, `PlainFits` and `PlainMeant`
  when a text that went through YAML still fits its field and still means the same.

The assumptions on constants, beside types and bounds, and what justifies them: in `LegacyConversion`, a key of
.fwknoprc has a value, since `parseClientStanzas` trims the line before it splits it
(`ConversionAssumption`); texts that mean yes or no mean the same as Booleans and numbers to YAML and
to Go, where they mean anything (`WordAssumption`), and no key that is converted has the prefix of a
firewall (`PrefixAssumption`), facts about the tables of `main.go`; in `Settings`, a number written as Go prints it reads as itself,
and what YAML takes for a Boolean `strconv` does, too; in `ConvertedConfig`, flags and defaults have the types of their
fields, texts of variables can be read as theirs, and no `--config` names another file
(`CallAssumption`); in `SpaCodec`, base64 and decimals can be read back. TLC checks each of them on the instances.

Stating these for all files corrected the models: keys that a table left to two cases at once, a
stanza header without a name, an empty text, and `max_spa_packet_age` among the numbers fwknopd reads were
missing or ambiguous before.

Only model-checked: `ShutdownCompletes`, `ListenerReturns`, `SignalStops` and the liveness part of
`ImplementsAccessWindow` (`RulesClose`). Liveness under fairness is out of the prover's reach and stays with
TLC. What the runs with a violation show is refuted, not proved.

## 6. Not modelled, and abstractions

* Logging, `--dump-config`, listing stanzas, making keys, looking up the client's
  external address and sending the datagram: output or single calls of a library.
  `--save-rc-stanza` is parsed and does nothing.
* Settings that are read from files and used by nobody (`enable_digest_persistence`,
  `enable_spa_packet_aging`, `restrict_ports`, `access_expire` and others) exist in
  `LegacyConversion`, which converts some of them, and nowhere else.
* Cryptography is ideal; the digest inside the packet never fails to verify, and the
  version field is that of this code in every packet.
* A command takes effect at one instant. A child that is still running when `os.Exit`
  comes counts as having run just before it; one that outlives the next init
  is not modelled. Commands that hang are excluded by fairness and allowed by `Spec`.
* Texts of different digests that open to one message, where a stanza has no HMAC
  (see `ReplayGuard` above): each is a packet of its own, and the properties hold of each.
* A request for more than 32 bits of seconds is cut as the message is built (`ToUint`), and a
  message that `Encode` accepts may be too long for the server's buffer (`FitsBuffer`). Both
  happen in the runs; no property promises that such a request arrives as it was meant.
* The three parts of the iptables shutdown and their completion are in `action_rules`, which has
  no fairness; `ShutdownCompletes` is checked with firewalld, whose shutdown is one command.
* `Daemon` knows whose rules are in the firewall, not which: that one daemon's close
  commands flush another's rules under `pf` and `ipf` is not in it.
* Which texts are printable or have the form IP,proto/port is a matter of sets;
  sizes and ranges are those of the code.
* `max_spa_packet_age: 0` is excluded by `Timely`, an `int` of 32 bits by the
  assumption of `TimeoutsAreBounded`.

## 7. Plan

1. A run of `ActionRules` over `nftables` or `ipfw` with overlapping patterns, and one
   without a check template.
2. A composed module in which `PacketDispatch` drives `ActionRules`, so that the
   timeout and the address of a request meet the timer and the rule they become.
