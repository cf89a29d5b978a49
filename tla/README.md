# A verification of WorkScripts

The repository is a collection: a copy of the `contrib` directory of
wireguard-tools, and scripts for Windows, WSL and OpenWRT machines. Most of the
scripts are straight lines of commands. Ten parts have state that is hard to
keep right and are modelled here, each in a module of its own:

| part | source | modules |
|---|---|---|
| `wg_set_device` | `contrib/embeddable-wg-library/wireguard.c` | `WgKernel`, `WgApply`, `WgSetDevice` |
| `wg_get_device` | same | `WgGetDevice` |
| `wg_list_device_names`, `wg_add_device`, `wg_del_device` | same | `StringList`, `WgLinks` |
| libmnl and mnlg layer | same | `Mnlg` |
| NAT hole punching | `contrib/nat-hole-punching/*.c` | `NatPunch` |
| re-resolution of endpoints | `contrib/reresolve-dns/*.sh`, `src/Powershell/WireGuard-Reresolve.ps1` | `Reresolve` |
| sticky sockets | `contrib/sticky-sockets/sticky-sockets.c` | `StickySockets` |
| A/B system upgrade | `src/Shell/abupgrade.sh` | `AbUpgrade` |
| config highlighter | `contrib/highlighter/highlighter.c`, `highlight.c` | `HighlightSyntax`, `Highlighter`, `HighlightColours` |
| text form of a key | `contrib/embeddable-wg-library/wireguard.c` | `WgKeys` |

`MC*` modules give the constants their values for TLC. The `*Proofs` modules hold
the theorems. `PROJECT.json` maps each definition to the lines it models, and
lists all components, hazards, runs, mutants and theorems.

## Inventory

For each part: its state, its operations, who it interacts with, what makes it
hard, and what should hold of it.

**`wg_set_device`.** Two cursors (`peer`, `allowedip`) into the caller's lists
and one message buffer of bounded size. A configuration is cut into as many
messages as needed; a nest that does not fit is cancelled and repeated in the
next message. The kernel may refuse any message. Hard: the places where a
message can be cut, flags that may be sent once only, resuming in the middle of
a peer. Wanted: every item reaches the kernel once and in order, messages fit,
0 is returned only when all is applied, the call ends.

**`wg_get_device`.** The reverse: the kernel dumps a device in pieces, the
callbacks append to a list, `coalesce_peers` joins the pieces of a peer. Other
processes change the device meanwhile; signals interrupt; `calloc` fails.
Wanted: what is returned is what the kernel held when the dump began, nothing is
leaked, the call returns.

**Links.** A dump of all links filtered by kind into one packed string list
whose buffer grows; adding and deleting a link. Wanted: the double terminator is
always there and inside the buffer, the list holds the names of one moment (or
the first of them), nothing is leaked, every call returns.

**mnlg layer.** Opening a socket in five steps with an unwinding label for each;
requests numbered by `time(NULL)`, so that two requests of one second share a
number. Wanted: an answer is taken for its own request, every exchange is read
to its end, every failure unwinds exactly what was set up.

**NAT hole punching.** A server with a ring of entries and a wrapping counter;
clients that ask for one peer after the other over UDP and repeat the round
while a peer is unknown. Replies name no key. Wanted: one entry for a key, the
oldest is evicted, an endpoint is an address of the right peer, all clients
meet.

**Re-resolution.** A line parser with three variables, `process_peer` at every
section header and at the end of the file, `set -e` in the shell, function
scopes in PowerShell, a loop that does not read the file again. Wanted: a peer
gets only its own endpoint, and a changed name reaches the interface.

**Sticky sockets.** An endpoint with two unions shared by IPv4 and IPv6; the
source of the last packet is used for the reply, and dropped with a retry when
the host has lost it. Wanted: never a source mixed from two families, replies
from the address the other side wrote to, no packet kept back by a source the
host has lost.

**A/B upgrade.** Two slots, the boot menu and its copy, a directory that marks
an unfinished run, commands of which some are checked and some are not, slots
mounted by fstab or by hand, a power cut at any time. Wanted: the running system
is not written to, something always boots, the default is one whole system.

**Config highlighter.** A scanner over the characters of a text with seven locals
that live from one part of a line to the next, a second scanner for lists of
values, fifteen validators that look at spans of the text, an array of spans
that grows and is emptied when it cannot, and a loop that prints the text around
the spans with unsigned differences of their offsets. Nobody looks at a failed
allocation. Wanted: every character gets the type that the text as a whole calls
for, the spans are in order, the text is printed unchanged, and nothing is
accessed outside the array.

**Text form of a key.** `wg_key_to_base64` and `wg_key_from_base64`, without
branches on the key. Wanted: what one writes the other reads, and the highlighter
calls a key what the library reads as one.

The remaining parts are in `PROJECT.json` with the reason they are left out, and
at the end of this file.

## How the parts interact

The library calls rest on the mnlg layer. `Mnlg` shows what that layer gives to
its callers: exactly the answers to the last request, and one of success, an
error, or `EINTR`. `WgSetDevice`, `WgGetDevice` and `WgLinks` use these outcomes
as the outcomes of their send and receive steps. `WgKernel` is the kernel's
device as seen from the messages; it is shared by `WgSetDevice` and by the
abstract specification `WgApply`. The highlighter has its own idea of what a key
is (`is_valid_key`); `HighlightColours` holds it against the library's
(`wg_key_from_base64` in `WgKeys`). The other parts are programs of their own.

## Modules and code

A program is modelled with its control: a variable `pc` whose values are the
labels of the code or the calls it stands before, one action for a step between
two points where something else can happen. Data is reduced to what the
properties tell apart.

* `WgKernel` (external): what a message does to the device. A message is a
  sequence of tokens: the device's attributes, a peer nest, its continuation, an
  allowed IP. An allowed IP has at most one owner, as in the kernel's table.
* `WgApply`: the promise. The configuration as one list of items, of which the
  kernel takes some more in each step; success only when none is left.
* `WgSetDevice`: `peer` and `allowedip` are indices with 0 for NULL; `len` is
  `nlmsg_len`. The sizes are constants, as are the buffer and the lists. A nest
  that is cancelled as a whole is one check of its size. `KernelHandle` stops at
  any token, for a message the kernel refuses in the middle.
* `WgGetDevice`: `sent` is the place the kernel's dump has reached, a peer and a
  number of its allowed IPs. A message ends at any place ahead of it (`DumpEnds`),
  and one that starts inside a peer repeats the peer's nest (`DumpMessage`).
  `Callocs` are the ways the allocations for a message can turn out: how many
  allowed IPs of each nest there was memory for, and whether a peer could not be
  allocated, which ends the parsing. `coalesce_peers` keeps of the list's
  pointers whether `last_allowedip` is NULL, which decides whether the next join
  is safe. `read_device_cb` and `coalesce_peers` are written without
  `RECURSIVE`, so that they can be reasoned about. `live` counts devices: the
  peers and allowed IPs of one are the list itself, and go with it.
* `StringList`, `WgLinks`: the buffer cell by cell; `Walk` is the macro
  `wg_for_each_device_name`, and `WgNames` the names it should visit, collected
  link by link. Links come and go without a bound (`seen` keeps of this only
  whether something changed since the last message). For an empty list the result
  is what `strdup("")` returns, which may be NULL.
* `Mnlg`: the labels of `mnlg_socket_open`, a queue of datagrams each marked with
  its number and, as history, with its request. `misfreed` is history: what was
  freed without being allocated.
* `NatPunch`: the network is a bag of requests and a bag of replies, so that
  packets overtake each other. `order` is history: the keys inserted last.
  `used` counts losses, duplicates, restarts, new mappings and failures.
* `Reresolve`: one model of three scripts, `script` tells which. The differences
  are in `reset_peer_section` (scopes), `Return` (the loop), `Due` (the
  PowerShell test of the age that throws with several peers) and `SetFails`
  (`set -e`).
* `StickySockets`: `src` is the union as four words, each marked with the address
  it is a word of. `ifs` are the interfaces of the host, `has` where its addresses
  are; `Refused` are destinations the kernel answers `EINVAL` for with any source.
  A stored source always comes with a `PKTINFO`: the sockets ask for it.
* `AbUpgrade`: what a slot holds is a set of parts of systems; a file in the
  middle of being written is empty. `unseen` is history: the unchecked commands
  that failed. Writes are taken to be on the disk when the command is over.
  `mnt` is what is mounted on `/mnt/sysupgrade`, where a file goes into a
  directory of the running system if nothing is (`Sysupgrade`); `elsewhere` are
  the slots mounted by fstab or by hand. `fstab` says whether `/etc/fstab` has
  lines for the slots, which decides what the script's own test for a mounted
  target does. `astray` is history: an operator who had to load the copy of the
  menu booted a system the script had not been started in.
* `WgKeys`: bytes and characters are numbers; the masks of the C code are
  `Select` and `Sextet`. `KeyBytes` is any number with a last group of two.
* `HighlightSyntax`: one operator for each validator, over offsets into a text of
  character codes. A word the code compares only as a whole with a literal (a
  field's name, a heading) is one character beyond ASCII. The loops of the IP
  address validators are recursive functions over position and group, with the
  code's early returns as conjuncts.
* `Highlighter`: one action for each branch of `highlight_config` and of
  `highlight_multivalue` on a character. `todo` holds the spans a branch hands to
  `append_highlight_span`; they are appended one by one before anything else
  happens, because each may fail and empties the array when it does. `crash` is
  an access outside the array or through NULL.
* `HighlightColours`: what the types should be, read off the text as a whole: the
  lines, the comment, the heading above, the first `=`, the value without the
  blanks around it, and for each field a description of its values by the pieces
  it splits into. It shares with the scanner the character classes, the fields'
  names and what a blank is, and no loop.

Operators under a comment "Mutant" are plausible errors in the code.
No specification uses them; each makes the property it belongs to fail.

## Runs

| run | config | shows |
|---|---|---|
| `set_device` | `MCWgSetDevice.cfg` | `TypeOK`, `MessageFits`, `EachItemOnce`, `SuccessIsComplete`, `ContinuesFirst`, refinement of `WgApply` (`AppliesInOrder`), `Termination` |
| `get_device` | `MCWgGetDevice.cfg` | `TypeOK`, `ReturnsSnapshot`, `ReturnsNoForeignIp`, `NothingLeaks`, `CoalesceSafe`, `ReturnsIfCalm` |
| `get_device_returns` | `GetReturns.cfg` | violation of `Returns` |
| `links` | `MCWgLinks.cfg` | `TypeOK`, `DoubleNul`, `ListsSnapshot`, `NothingLeaks`, `Returns` |
| `mnlg` | `Mnlg.cfg` | `TypeOK`, `OwnAnswer`, `NeverEproto`, `NothingLeaks`, `NeverWaitsInVain` |
| `nat` | `NatPunch.cfg` | `OneEntryPerKey`, `EvictsOldest`, `EndpointIsPeers`, `AllMeet` |
| `reresolve` | `Reresolve.cfg` | `OwnEndpoint`, `Updates` |
| `reresolve_ps1` | `ReresolvePs1.cfg` | violation of `OnlyOwnHost` |
| `sticky` | `MCStickySockets.cfg` | `SourceWhole`, `RepliesFromHeard` |
| `abupgrade` | `AbUpgrade.cfg` | `SomethingBoots`, `DefaultIsWhole`, `RunningUntouched` |
| `abupgrade_mounted` | `AbUpgradeMounted.cfg` | violation of `TargetNotMounted` |
| `highlighter` | `Highlighter.cfg` | `SpansInOrder`, `PrintsText`, `CrashNeedsLoss`, `KeysRoundTrip`, `Coloured` |

`TypeOK` is checked where it says more than types: a cursor is not NULL where the
code follows it, a socket is there where it is used. The `TypeOK` of `NatPunch`
and `StickySockets` are types only; they are proved and no run repeats them.
Those of `Reresolve` and `AbUpgrade` document the variables' ranges.

### Bounds

* `set_device`: devices of up to two peers (also the same key twice) with up to
  four allowed IPs, three states of the kernel before, and a buffer of 9 units
  against nests of 1 to 4: messages are cut inside a peer, between two peers and
  before the nest of the allowed IPs, and a configuration takes several
  messages. The theorems remove the bounds.
* `get_device`: five configurations with up to three allowed IPs, cut at every
  place; two changes, one signal, two failed allocations. A peer in three pieces
  is the case that matters for `coalesce_peers`; two changes allow a change back.
* `links`: four links of three kinds; name lengths 9, 3, 7 and 1 make the buffer
  grow by doubling and to the exact size. One allocation fails; the links change
  as often as they like.
* `mnlg`: three requests over one socket and two ticks of the clock: requests in
  the same and in different seconds.
* `nat`: two clients that know each other and a third that knows both, any of
  which may never start; two slots, and a counter wrapping at 4 instead of 2^32 (a
  multiple of the slots, as in the code), so that eviction and overflow both
  happen. One fault in all: a packet lost or duplicated, a restart of the server,
  a new mapping or a failing call. The theorems have any number of them.
* `reresolve`: three peers, one without Endpoint between two others, and an
  [Interface] section after it; the names with an Endpoint line move once each,
  one `wg set` fails, one name may never resolve.
* `sticky`: two local addresses and one remote of each family, a destination that
  is refused, two interfaces that come and go; the state space is complete without
  a bound on steps.
* `abupgrade`: three runs (the third overwrites the slot the first ran in), three
  power cuts, two failing commands, with and without lines in fstab, and mounts by
  hand without a bound. `abupgrade_mounted`: one run, without cuts and failures.
* `highlighter`: 8,165 texts. Every text of up to four signs of eight (a
  heading, a field, `=`, comma, blank, newline, `#`, a letter), every list of up
  to four, headings and fields of the right and of the wrong section, a key with
  each printable character in each of its places, IPv4 and IPv6 addresses with up
  to two unusual groups, networks, endpoints, and numbers at their limits. An
  array that starts with two spans instead of 64 grows in short texts, and one
  allocation fails anywhere. A key has five bytes: one whole group, of which a key
  of the code has ten alike, and the last one.

Deadlock is not checked where a call returns and the model ends, where a client
may wait for ever, and where the script may refuse for good; the resolver and
the sockets never stop and are checked.

### Fairness

* `WF_vars(Next)` in `WgSetDevice` and `WF_vars(Call)` in `WgGetDevice` and
  `WgLinks`: the calling thread runs, and the kernel answers each request, which
  it does before `sendto` returns. Changes by other processes are not fair.
* `NatPunch`: weak fairness for each client and for the service of each packet.
  Packets are served unless they are lost, and loss is an action without
  fairness. `AllMeet` has the premise that there was no fault.
* `Reresolve`: the script is started again (cron or `-LoopRunAsCron`), and the
  handshake of a peer whose host has moved gets old: nothing reaches it there.

No strong fairness is used.

## Findings

* `get_device_returns`: `wg_get_device` keeps `-EINTR` of an interrupted dump in
  `ret` through every retry, so that a call that was interrupted once never
  returns (`wireguard.c:1445`), which its caller in `test.c:26` does not expect.
* `reresolve_ps1`: `reset_peer_section` of the PowerShell script sets variables
  of its own scope, so that a section without Endpoint is given the endpoint of
  the section before it; the script calls itself a near-literal translation.

* `abupgrade_mounted`: the comment of `abupgrade.sh:102` says "Exit if target
  device is mounted". The test under it calls `mount` and stops if that succeeds,
  so that it goes on to `mkfs` just when the target is mounted.

Two more lines say something that the code does not do. Each is a case that a
property names and leaves out:

* `reresolve-dns/README:4-6` says of the cron script that it "will ensure that if,
  when using a dynamic DNS service, the DNS entry for a hosts changes, the kernel
  will get the update to the DNS entry". A name that never resolves stops the
  script at its section every time (`reresolve-dns.sh:21`, with `set -e`), and the
  sections after it are not updated. `Updates` is stated of the cron script for
  names that resolve; TLC finds it violated without that premise.
* `highlighter.c:118-119` is a test to refuse a host name with two dots in a row. It
  is never true, because line 110 goes on to the next character at every dot.
  `HighlightColours` refuses such a name; `Coloured` lets the scan show it as a
  host (`DotsOverlooked`), and TLC finds it violated by `a..a` without that.

Of the following behaviours no line of the repository says otherwise. They are
premises of the properties and notes of the hazards: a failed `calloc` for an
allowed IP is not reported (`wireguard.c:1330`), and if it leaves a piece of a
peer without allowed IPs between two others, `coalesce_peers` writes through NULL
(line 1401); one lost packet blocks a NAT client and one duplicate shifts its
answers (`nat-punch-client.c:186`); the loop script only ever treats the last
section (`reresolve-dns-loop.sh:47`); a source address whose interface is gone too
gives `ENODEV` for IPv6, which is not tried again (`sticky-sockets.c:61`); a failed
`mkfs` is not seen, and the new system is unpacked over an old one
(`abupgrade.sh:132`); rescuing an upgrade that was cut off into the new slot lets
the next run overwrite the good copy of the menu (`abupgrade.sh:148`); after a
failed allocation `highlight_multivalue` writes before an empty array and
`highlight.c` reads NULL (`highlighter.c:506`, `highlight.c:72`).

## Proofs

All theorems hold for every value of the constants that the named assumptions
of the modules allow.

**`WgSetDeviceProofs`** (from `DevicesAssumption`, `KernelsAssumption`,
`SizeAssumption`, `PageAssumption`: a page holds the device's attributes with
one peer nest, and a continuation with one allowed IP). `TypeCorrect`,
`MessageFitsAlways`, `EachItemOnceAlways`, `ContinuesFirstAlways`,
`SuccessIsCompleteAlways`, and `Refinement`: `WgSetDevice` implements `WgApply`,
for every configuration, every state of the kernel's device before the call and
all sizes these assumptions allow. The inductive invariant `Cursors` adds to these
`ResumesAlone`: a peer is resumed only in an empty message. Without it a
continuation could stand behind the nest it continues. `EachItemOnce` says what
the messages hold in terms of the cursors (`Upto`); the lemmas `UptoNext` and
`UptoEnd` say how that set grows with a cursor, and each action moves a cursor
and adds the same item. `SuccessIsComplete` follows because `peer` is 0 after
the last acknowledgement.

The refinement needs the order and not only the set. `WgApply` counts the items
the kernel has taken; the mapping counts `applied`. The invariant `InOrder` says
that the taken items and then the message being built are the first items of the
configuration's one list, up to the place of the cursors (`Lined`), and that the
kernel has a peer that is continued, or has none of it if the peer is one to
remove (`KernelOK`, `Standing`). A continuation is no item of the list, and the
step that takes it must be a stutter: `Standing` is what makes it change nothing.
Where each item stands in the list follows by induction on the peers
(`Offsets`, `LayoutExists`), and a message the kernel stops in the middle of has
taken the items before the stop (`TakesPrefix`, `TakesEffect`). `EveryNat` is
induction in the form the prover can use: a set of numbers that has 0 and all
successors is `Nat`, by the well-foundedness of the order.

**`WgGetDeviceProofs`** (`BoundAssumption`, `ConfigAssumption`: the peers of a
device have different keys, `NullAssumption`). `TypeCorrect`,
`ReturnsSnapshotAlways`, `ReturnsNoForeignIpAlways`, `NothingLeaksAlways`,
`CoalesceSafeAlways`, for all sets of configurations, every way to cut a dump and
any number of changes, signals and failed allocations. The invariant speaks of
the list before `coalesce_peers` in terms of the list after it, because the
pieces themselves can be cut in so many ways. Joined, they are the peers of the
snapshot up to the place in `sent`, with no allowed IP of another peer (`Named`),
and if no allocation failed with all of their allowed IPs (`Exact`). `Dumped`
adds that the kernel still holds the snapshot as long as its update counter is
the one of the last message. The flag of an interrupted dump is looked at before
a message is parsed, so that no piece of a later state is ever added. `Exact`
also says that `last_allowedip` is set where the dump stopped inside a peer:
that is why the next join follows no NULL. `CoalesceAppend` takes the loop of
`coalesce_peers` one piece further, and `MessageNamed` and `MessageExact` are the
inductions over the nests of a message.

**`AbUpgradeProofs`** (`BoundAssumption`).
`SomethingBootsAlways`, `DefaultIsWholeAlways`, `RunningUntouchedAlways` and
`TypeCorrect`, for any number of runs, power cuts, failing commands and mounts by
hand, at any point of the script. The invariant adds what has been written to the
target slot by each command (`Filled`), that the target is mounted on
`/mnt/sysupgrade` from the mount on (`Control`; this is what keeps the running
system clean), that the running system is whole and stands in the menu until `cat`
empties it and in the copy from then on (`RootIsWhole`, `RootIsListed`), and that
a machine that is down can be rescued (`DownBoots`).

**`WgLinksProofs`** (`LinkAssumption`, `BoundAssumption`). `DoubleNulAlways`:
`string_list_add` stays in its buffer and keeps both terminators, for any number
and lengths of names. `AddKeepsTerminated` does the arithmetic of the growth;
the invariant needs besides that an answer is there when it is looked at.
`NothingLeaksAlways` adds `ListsOnly` (only `wg_list_device_names` reads a dump
and has a list) and uses `DoubleNul`: a list that holds something has a buffer
of two cells at least, so that a call without an error returns NULL only if there
is no list that could be lost (`ResultIsThere`). `ListsSnapshotAlways` is about
the walk over the result, in three layers. For the macro, `WalkTurns` says what one turn of
`wg_for_each_device_name` does, from the first NUL that `strlen` finds. For the
buffer, `Packed` says that it holds a sequence of names one behind the other with
their terminators; `AddPacks` shows that `string_list_add` packs one more name,
also when the buffer is enlarged, and `WalkOfPacked` that the walk over a packed
buffer meets exactly these names. For the dump, the invariant `Listing` says that
the buffer packs the names of the WireGuard links up to the last one read, of
the state the dump began with (`Upto`, by induction on the links). `Reading`
claims that the kernel still has this state only while nothing has changed since
the last message; a message after a change is an interruption,
and adds nothing to the list.

**`MnlgProofs`** (`BoundAssumption`). `OwnAnswerAlways`, `NeverEprotoAlways`,
`NeverWaitsInVainAlways`, `NothingLeaksAlways`, `TypeCorrect`, for any number of
requests, any length of a dump and any run of the clock. The invariant has two
parts. `Exchange`: while an answer is read, the socket holds the rest of it, all
of whose messages carry the number in `nlg->seq`, and of which the last and only
the last ends it; elsewhere the socket is empty but for the labels an error
leads to. This is what makes a number that requests share harmless: the next
request finds an empty socket. `Held`: what is allocated at each label, and that
nothing was freed that was not.

**`NatPunchProofs`** (`ClientAssumption`, `EntriesAssumption`,
`BoundAssumption`). `OneEntryPerKeyAlways`, for every size of the table.
`EndpointIsPeersAlways`: while nothing is duplicated, endpoints are right. The
replies do not name a key; the argument is that a client has at most one packet
under way in either direction (`Asked`, `Told`), that it waits for it at the
peer it asked for, and that entries hold addresses of their own key (`Owned`).
`DupGrows` shows that the premise, once false, stays false.
`EvictsOldestAlways`: the invariant `Ring` says which key each slot holds,
counted backwards from the next slot. `TurnAdvances` is the arithmetic of the
overflow: `(next_entry + 1) % Wrap % MaxEntries` is the slot after
`next_entry % MaxEntries` because `MaxEntries` divides `Wrap`
(`EntriesAssumption`; 65536 divides 2^32). With another size of the table the
counter's overflow would skip slots.

**`StickySocketsProofs`**. `SourceWholeAlways`, and the action property
`RepliesFromHeardAlways`. The invariant adds that an endpoint without a family
is empty. `SourceIsHeard` says which source a send takes from the union, and so
with which of `EINVAL`, `ENODEV` and success the kernel can answer.

**`HighlighterProofs`** (from
`HighlighterAssumption` and `KeyBytesAssumption`: texts are sequences of numbers,
the first capacity is positive, a key is two bytes after groups of three).
`SpansInOrderAlways`, `PrintsTextAlways`, `CrashNeedsLossAlways` and
`KeysRoundTripAlways`, for every text, every capacity and any number of failed
allocations; `KeyAccepted` and `KeyReadBack`, about the validator and the library
alone.

First come lemmas about sequences of spans of which each starts where the one
before it ends or later, within two offsets (`Chain`): appending, removing the
first, replacing a type, cutting a span in three. The invariant follows, with one
lemma for each action. It adds to the properties

* `FrameInv`: `current_span` ends at `i`, and is not empty in the states that
  rely on that; `len_at_last_space` lies in it; the `=` lies before the value;
* `MultiInv`: the same of `highlight_multivalue`, and that it always has a span
  to change unless the array was lost;
* `SpansInv`: the array and then `todo` form one chain that ends before
  everything that the scan has yet to hand over (`Limit`). Without the limit a
  new span could not be known to follow the old ones;
* `PrintInv`: what is printed is the text up to `last`, the spans still to print
  follow it, and the terminator follows them.

The second part is the text form of a key, for keys of any such length. A group
is twenty-four bits, cut once into three bytes and once into four parts of six:
`PartsOfBytes` and `BytesOfParts` are the arithmetic of the shifts in the two
directions, `LetterSextet` and `SextetLetter` the two forms of the alphabet.
`KeyText` says what a key's text is, the zero bits of its last character
included. `TextReads` and `ReadIsText` show that this is what
`wg_key_from_base64` reads without an error and that `wg_key_to_base64` writes it
again as it was; `ValidIsText` shows that it is what `is_valid_key` accepts.
`KeyReadBack` is the other direction, from a key through its text.
`KeysInv` carries this to the array: each span of a key's type, in the array or
still to append, is one that `is_valid_key` accepts. Together with the order of
the spans, which puts it inside the text, this gives `KeysRoundTrip`.

The last part shows that `highlight_value` and `highlight_multivalue_value` stay
inside the value they are handed. They look for the last colon and the first slash
as the greatest and least member of a set, whose existence follows from the
well-foundedness of the order on numbers.

Only model-checked:

* liveness (`Termination`, `Returns`, `ReturnsIfCalm`, `AllMeet`, `Updates`),
  which the prover does not reach;
* `Coloured`, which holds the whole scan and every validator against an
  independent description of the text as a whole. To relate the two takes an
  invariant for each state of the scan and an induction for each validator that
  reads numbers or addresses. The part of it about keys is `KeyAccepted`;
* `OwnEndpoint` of `Reresolve`, which holds of files whose sections name the host
  of their own peer: the run has one such file, and no theorem is stated about
  all of them.

## Not modelled

* `curve25519` and the generation of keys in `wireguard.c`: arithmetic modulo
  2^255 - 19 in sixteen limbs is out of TLC's reach, and on a field small enough
  to enumerate the carries that make it hard do not happen.
* The byte layout of netlink messages (`mnl_attr_*`): a message is its type, its
  parts and their sizes.
* The window and the fuzzer of the highlighter, which hand its spans to Qt and its
  input to `highlight_config`; the colours of the terminal.
* The programs that read a running kernel's memory or look for offsets in it
  (`extract-keys`, `extract-handshakes`), and the handshake tests: a straight line
  around cryptography or around one kernel's layout.
* Scripts without state of their own, and scripts whose state is shared with
  other writers but of which no line says what should hold then (`hostsman.py`,
  `server.sh` of `ncat-client-server`, `attachsmb.ps1`, the lock and unlock
  scripts, the firewall script). `PROJECT.json` has the reason for each.
