# TF-M extras: a TLA+ verification project

This project models the secure partitions and the example programs of
*tf-m-extras* in TLA+, checks them with TLC on small instances, and proves the
most important properties with TLAPS for every value of the parameters.
`PROJECT.json` records, per definition, the source lines it models, and lists
runs, mutants, findings, hazards and theorems.

## 1. Inventory of the system

TF-M extras is a collection of partitions that run beside Trusted Firmware-M, and
of programs that use them. A partition is one thread with a message loop: clients
(secure or non-secure) call it through PSA messages and block until it replies;
the SPM delivers messages as signals, one call at a time. Partitions call each
other the same way.

| Component | State | Operations | What is hard | Module |
|---|---|---|---|---|
| ETSS flash file system (`secureflash_fs/`) | two metadata blocks with header, block table and file table; data blocks; RAM copy of the header | prepare, wipe, file write, read, delete, get info; format upgrade | power failure in every flash operation, swap count wrap, two-step replace, compaction, leftover work at start | `EtssMetaCommit`, `EtssFlashFs` |
| ETSS service, request manager, client interface | file system context(s), asset buffer, current application id | set, get, get_info, remove, PUF, random, provisioning | several clients on one file system, chunked sets, signal order, restarts | `EtssService` |
| ETSS secure flash adapter, secure flash library, SPI NOR driver | device descriptor with a reference count, sessions, status registers | init, uninit; read, program, erase in a session; polling | chunks, sessions on error paths, polling limits | `SecureFlash` |
| Measured boot | measurement slots (locked, populated, signer, version, value), shared data of the boot stages | collect at start, extend, read | ownership and locking across clients, failures half way | `MeasuredBoot` |
| Delegated attestation | attestation key, `dak_requested`, hash algorithm | get key, get token | reads of all measured boot slots while others extend them, stale state after failed calls | `DelegatedAttest` |
| Voice activity detection and its drivers | `vad_status`, sample buffer, I2S control register, timer, I2C lines | start, query, get frequency, stop; interrupt handler | handler and thread share everything | `Vad`, `I2cSbcon` |
| VAD application | connection, retries, boot pattern and key in trusted storage | main task, provisioning, publish | error paths of publishing, power failure in the first boot | `VadApp` |
| Ethernet driver and network interface | controller registers, FIFOs, interrupt mask, buffer pool | init, receive task, send, interrupt handler | polling loops, buffer leaks, missed packets, full FIFOs | `Ethernet` |
| DMA-350 partition, display and triggering example | channel registers, queue, task notifications, UARTs | drawing and display task, echo loop, partition tests | lost wake-ups, handshakes with interrupts | `Dma350` |
| Test suites | – | calls with expected results | run beside other clients | `EtssTests`, `PartitionTests` |
| DMA-350 secure test, example partition | – | – | straight-line demonstration code | – |

What makes each correct, in one sentence: the file system is an atomic, durable
store; the service keeps every client to its own assets and honours WRITE_ONCE;
an access to the flash covers its range exactly, once; measured boot only ever
extends measurements, by their owner, until they are locked; delegated
attestation hands out keys and tokens of real measurements; a reported recording is whole and is
reported; frames and network buffers are neither lost nor mixed; the DMA programs transfer the
right data and never wait for an event that has already happened.

## 2. Modules

    EtssMblock          swap counts and the choice of the metadata block (operators)
      EtssMetaCommit    the update protocol of one metadata version to the next
        EtssMetaCommitProofs
      EtssFlashFs       files, blocks and calls, down to flash operations
        refines EtssStore    the promise: an atomic, durable asset store
        EtssFlashFsProofs
        MCEtssFlashFs
    EtssService         clients, signals and calls above such a store
      EtssServiceProofs
      MCEtssService
      EtssTests         the repository's two ETSS suites as its clients
        MCEtssTests
    SecureFlash         the flash library and the SPI NOR driver below the file system
      SecureFlashProofs
      MCSecureFlash
    MeasuredBoot        the measured boot partition and its clients
      DelegatedAttest   the attestation partition, composed with MeasuredBoot
        DelegatedAttestProofs   (of both partitions)
        PartitionTests  the repository's tests of both partitions as their clients
          MCPartitionTests
    I2cSbcon            the bit-banged I2C and the codec initialisation
      Vad               the VAD partition, composed with it
        VadApp          the application, composed with the partition
          VadAppProofs
    Ethernet            driver and network interface (MCEthernet)
      EthernetProofs
    Dma350              the three programs that use the DMA-350
      Dma350Proofs

`EtssMetaCommit` and `EtssFlashFs` model the same code at two grains.
The first keeps the order of every erase and program, the wipe included, and
reduces a file system to a version number plus, per data block, who wrote it. The
second keeps files, positions, sizes and flags, so that allocation, compaction and
replacement can go wrong. Both are proved about. `EtssService`
takes a call of the file system as one step, which `ImplementsStore` justifies.

### EtssMetaCommit

`mblk` are the two metadata blocks, `dat` the data blocks, `ctx` the RAM copy of
the header, `upd` the block being rewritten, and `pc` where the running call
stands. `issued` and `committed` are history. One action is one flash operation
(or the flash operations between two points at which a power failure makes a
difference): `WriteData`, `WriteMetadata`, `WriteHeader` (the commit),
`EraseMeta`, `EraseData`; `Prepare`, `PrepareFails` and the five `Wipe` actions
start and format. `Prepare` and `WipeStart` choose the active block among those whose header can be read
(`ActiveAmong`): like the code, they take a header that cannot be read for an update that was not completed. Any other
error of a start ends in a wipe (`PrepareFails`). `missed` records that the latest header was passed over in this
way. `Crash` loses the RAM between operations, the `CrashIn` actions inside one. Modelled of the device:

* a read of a header may fail, each time it is read;
* a header is programmed in address order and its last byte, the swap count, comes last;
* an interrupted erase leaves a block whose metadata does not match the XOR in its header;
* programming a block that is not erased mixes both contents (`Garbage`).

### EtssFlashFs and EtssStore

Blocks are arrays of `BlockSize` cells; the first `DataStart` cells of blocks 0
and 1 stand for the metadata. A cell holds a value and its position in its
asset, so misplaced or mixed data shows. Programming ANDs bits, as on NOR flash with an
erase value of all ones. Each call runs through `pc`:
`StartSet`, `Reserve`, `WriteData`, `WriteMeta`, `WriteHeader`, `EraseMeta`, `EraseData`, and for a
replace or a removal `DeleteMeta` and `Compact`, then the same commit. `Boot`, `Upgrade`,
`BootCleanup` and `Format` are `prepare` and `wipe_all`.
A format is one step with a torn variant, because its inner order is in `EtssMetaCommit`.

The refinement mapping takes as `store` what a restart *at this moment* would
serve, and lets a call take effect when its header is programmed.

### EtssService

`cl` is what each client is doing (the connect, call and close of
`etss_ipc_api.c`), `job` the call being handled and the chunk reached, `app_id`
and `fs_ctx` the static variables that each call must set before it accesses the
flash, `store` the files per context. `may` is history: what each asset may be.
`Take` looks at the signals in the order of `etss_req_mngr_init`. `MULTI_CLIENT_ISOLATION`
is the constant `Isolated`; `BufSize` is `ETSS_BUF_SIZE`. The functions of the flash behind
PUF, random numbers and counters are empty, so `FeatureCall` only answers; random
numbers on a flash with that feature are not a step, because the loop around
the empty function reads a size that is never written. A read of the flash may fail (`ReadMayFail`): at the file
information (`InfoOutcomes`), so that the file looks absent; half way through a get (`CutShort`), when the whole chunks
read so far have been written to the caller already; or at the start of the secure session (`Boot`), which `etss_init` takes for
a flash that is not provisioned, so that a provisioned device, too, ends up in the provisioning loop. `Calls` says
which requests each client makes.

### MeasuredBoot

A measurement is a hash chain, and stands for the sequence of the values extended
so far, each with the signer whose call extended it. `Collect` takes the entries of the
shared data one by one, before the first call is served; `Handle` is one message. Signer
ids are byte sequences, padded with zeros to the maximum as in the request manager, because
`is_signer_id_different` compares as many bytes as the *stored* id has. A hash that
fails (`HashMayFail`) leaves the metadata and the occupied mark behind, as in the code.
A message of an unknown type is taken and never answered.

### EtssTests and PartitionTests

A test is the sequence of its calls, each with the statuses (and, for a get, the data) that the
C code accepts, taken from the suites in order. The secure and the non-secure
ETSS suite run at the same time in clients of their own. The tests of measured boot and of
delegated attestation are run one per behaviour, or none, while the other clients go on
calling: the assertions of the tests must then hold in every interleaving.

### DelegatedAttest

The module extends `MeasuredBoot`: the partition is its client `Attest`, and deriving a key is one
read message per slot (`ReadSlot`, `CollectState`), between which anyone may extend. `att.room` are the
lengths (signer id, version, software type, value) that the C loop passes as buffer sizes and has overwritten with the sizes of the
previous measurement. A call that fails after the boot state was collected leaves the old key (`KeyKept`), none (`KeyLost`) or a
new one that nobody was told of (`KeyUnreported`). The hash of a token request is that of a key (`Hashed`) and is compared with
the current one. A key stands for its size and the boot state it was derived from; `dak`,
`dak_requested` and `dak_pub_hash_algo` are the static variables; `given` and `outcome` are history.

### SecureFlash

One request at a time, each in phases: the checks (`Refusal`), `CreateSession`, then per chunk
`StartChunk`, the turns of the polling loop and `EndChunk`, then `TerminateSession`. `poll` counts turns as
the C loops do. The adapter's erase of a block is a sequence of such requests. Every external call may
fail, `MaxFaults` times. The reference count and the addresses keep their widths: the count wraps in both directions, and the
end of a range (`End`) may wrap before it is compared with the size of the flash.

### I2cSbcon, Vad, VadApp

I2C transactions are the driver's changes of the two lines, one action each; the codec is a slave
that decodes start, bits, acknowledge and stop from those changes. The VAD thread and the first-level
interrupt handler are lists of operations; the handler comes between any two operations of the
thread, and a read-modify-write of the control register is two operations. In `VadApp` the client is the
main task of one of the two builds or one that makes arbitrary calls; publishing has its
bounded retries and waits, and power may fail during the first boot, whose import of the key and writing of the boot pattern
may fail unnoticed (`FirstBoot`; `its.refused` says that the last import did). There is one main task.

### Ethernet

The initialisation is a list of accesses, each of which is checked by the code or not, against a
controller whose accesses take any of `MacDelays` and `PhyDelays` milliseconds: the polling loops, including
the busy test that looks at the wrong bit, decide what happens. Afterwards the receive
task, the handler and the senders run concurrently; the FIFOs are word by word. What the controller sends after
an overrun is left out, and frames have at least one byte (a length of zero means "no packet" to the code).

### Dma350

`image` chooses the program. A transfer is one or more steps of the channel; the interrupt is pending
until the handler runs. `ch.clash` records that a channel was reprogrammed while it ran.
In the triggering example, sleeping and being woken are separate from the interrupt, so
that an interrupt can be taken just before `__WFI()`. Left out are the display handler's branch for an interrupt that is not
enabled, and failures of the partition's status and clear calls for the channel that the library has just accepted.

## 3. Runs

| Run | Question | Bounds |
|---|---|---|
| `commit` | does a restart at any moment find the last commit and its data? | 5 blocks, counter of 4 values, 6 updates: the counter wraps, and each pair of consecutive counts occurs; any header read may fail |
| `fs` | is every call atomic and durable, and the layout sound, on four blocks? | 3 ids, 2 values, sizes 1 and 2, a table of 3 entries (one spare): files in both logical blocks, full blocks, full table |
| `fs_two_blocks` | the same promise when all data shares the metadata block; WRITE_ONCE; return to service | 2 ids, 2 blocks |
| `fs_upgrade` | is a flash of the previous version served after an upgrade with interruptions? | an old-version flash that holds one asset in logical block 0, its padding byte a valid count |
| `fs_empty_asset` | expected violation: see section 6 | sizes 0 and 1, 2 ids |
| `etss` | does each client see its own assets only, with chunked sets, read errors and power failures, and who can be kept waiting? | 3 clients, two with access rights that use one uid and one without, assets of at most 2 items, chunks of 1 |
| `etss_suites` | do the repository's suites pass in every interleaving, without hanging, and is WRITE_ONCE kept? | 4 clients (one without a file system), 5 uids, assets of at most 4 items in chunks of 3 |
| `attest` | are measurements append-only, final when locked, of one owner and complete before service; are keys and tokens of real measurements; do the tests pass? | 3 slots, 2 signers, 2 values, lengths 1 and 2 of the version and 0 and 1 of the software type, 2 hash algorithms, 6 shared data images, 2 extensions per slot, failing hashes and derivations |
| `vad` | are recordings whole and reported, is the codec configured, is a connection always closed? | buffer of 3 samples, FIFO of 2, 3 clients, 2 retries, 2 waits, 2 power failures |
| `flash` | do the chunks cover each request exactly, does polling tell the truth, do sessions end? | 16 bytes in 2 zones, requests of up to 6 bytes at every address, units of 4 and 2, a count of 2 bits, addresses of 5 bits, 2 polls, 2 faults |
| `net` | is the link configured, is every frame served, is no packet mixed and no buffer lost? | delays below, at and above the timeout; frames and packets that are and are not multiples of a word; 2 senders, 2 buffers, a transmit FIFO of 28 bytes |
| `dma` | do the three programs transfer the right data and come to an end? | 4 x 3 tiles with 8 transforms, blocks of 2, groups of 3 characters, 8 typed, 1 other interrupt, 1 refused draw |

The file system runs that pass use assets that are not empty and sizes within the limit, because the
code is wrong outside of that (section 6). `fs_upgrade` does not check `BlocksMapped` for the
same reason. Deadlock is checked for the file system, the commit protocol, the flash and the VAD; the other
systems may stop (a panic, clients with nothing to ask, the end of a program), and their
configurations turn it off; `StopsOnlyWhenPassed` says instead that the suites stop only when they
have passed. Symmetry is used for ids and values, in runs without liveness only.

Bounds are in the guards and named: `MaxVersion`, `MaxExtends`, `MaxFaults`, `MaxPowerFails`, `MaxTyped`,
`MaxOther`, `MaxFailedDraws`; `RxSizes` and `TxSizes` bound the traffic.

**Fairness.** `EtssFlashFs`: weak fairness of the file system's own steps (the
code runs when powered); `ServesAgain` excuses executions in which power fails
for ever. `MeasuredBoot` and `DelegatedAttest`: weak fairness of collecting, of handling each
client's message, since `psa_wait` and `psa_get` return every pending message, and of the
attestation partition's own steps. `EtssService`: weak fairness of the partition and of clients that have been
answered, and strong fairness of taking a client's message, that is, `psa_get` does not overlook one
message among those of the *same* signal for ever. Across signals nothing is
assumed: the loop tests them in a fixed order, and `WaitsOnlyOutranked` says exactly who can
starve, in the provisioning loop as well. `VadApp`: the codec clock delivers samples while sampling is on, the timer elapses, the interrupt is
served, thread and main task are scheduled; nothing is assumed of the network, whose
answers may be lost for ever (the waits are bounded). `Ethernet`: the interrupt is served and the tasks are
scheduled; nothing is assumed of frames arriving or
of the controller sending. `Dma350`: tasks are scheduled, interrupts taken, and a running channel goes on.
Power failures, users and remote parties are never fair.

**Mutants.** Every property of a passing run has a mutant in the module of the
definition it changes (`LargerSwap`, `EraseNewData`, `LastTurnUnchecked`, ...): a
plausible mistake in that code, which TLC finds with the run's own configuration.

## 4. Proofs

`EtssMetaCommitProofs`, for every counter width, both erase values, every number of blocks and updates
(`SwapAssumption`, `NumBlocksAssumption`, `MaxVersionAssumption`):
`TypeCorrect`, `RecoveryCorrect`, `DataCorrect`, `ReadyCorrect`, `NoRollbackCorrect`.
`RecoversLastCommit` is not inductive: it says nothing about why the *other* block, if
valid, loses the comparison, or why the spare block may be overwritten. `IndInv` adds, per
value of `pc`, (a) `Current`: the block with the last commit is valid, its data is in place,
and a valid other block is exactly one swap count behind and complete with its data; (b) what RAM knows
(`Loaded`, `Rewritten`), and whether the block about to be kept is the last commit (`missed`, `ErasedLast`); (c) what the scratch block holds before its header
(`ScratchMetadata`, `Formatting`). The key lemmas are `LatestIsNext` (of two counts that follow each other the code picks
the later one, also across the wrap) and `CurrentIsActive`. `IndInvCorrect` has one
lemma per group of actions: start, update, commit, wipe, power failures.
`NoRollback` is an action property that follows from the same invariant. It says when the code does go back: only where a start or
a wipe erases the latest block because its header could not be read, and then to the version before (`CurrentMissed`: that one is
complete with its data, so the other properties hold across it).

`EtssFlashFsProofs` (`SwapAssumption`, `ConfigAssumption`, `ClientAssumption`), for every number and size of blocks,
every table size, any ids, values and sizes, any calls, and power failures in and between all flash operations:
`TablesStaySound`, `MappingStaysSound` and `FileSystemIsStore`, the refinement of `EtssStore`. The theorems have three
hypotheses, each of which the code needs (section 6): the flash is not one of the previous version (`~LegacyImage`), no asset is empty
(`0 \notin Sizes`), and a replace finds room (`[]ReplaceHasRoom`), because one that fails leaves the scratch
block programmed. `RoomyFileSystem` removes the third: `Roomy(k)` compares the configuration's numbers only, and says that there are more
cells at which an asset of `k` cells can begin than `MaxNumFiles - 1` assets can cover; by a counting argument (`FullBlocks`) some
block then always has room. It holds of the `fs_two_blocks` instance; it is not necessary (in `fs`, where it
is off by one, no replace fails either).
The invariant, `FsInv`, is about what is in the flash and not yet committed. `Sound` is what one
pair of tables must be: files lie one behind the other up to the free space (`Tiled`), an id has one file, or two of which
one is marked (`OneEach`), an entry is spare, the block table is one to one (`Mapped`) and every file reads
as contents that a client stored (`Whole`). `RamInv` says that the block the RAM calls active is the one a
restart would load, that it is sound, and that a valid other block is one swap count behind. `TableSound` is
not inductive because it says nothing of the tables being written: `ScratchInv`, `SetInv` and `DeleteInv` say, for each place of a call, what the scratch blocks hold, from
the erased state over the entry marked for deletion to the data copied around the new file (`Rewritten`) or the entries moved down
(`AfterDelete`), and `CommitInv` that the tables are sound and differ from the active ones by exactly the call's asset
when the header is about to be programmed. Two facts about layout carry it: `SetSound` and `DeleteSound`, that a new file placed at the free
space, and a deletion with compaction, keep tables sound and the other assets readable. That the compaction copies the right number of cells is
a bijection between the cells of the files behind the deleted one and the cells behind it (`MovedSize`). Each action lemma
(`BootStep`, ..., `CompactStep`) also shows what a restart would serve afterwards, and that is
all the refinement needs: only `WriteHeaderStore` changes it.

The measured boot part of `DelegatedAttestProofs`, for every number of slots, clients, signers, calls and
boot images (`SlotAssumption`, `SignerAssumption`, `CallAssumption`,
`BootAssumption`, `BoundAssumption`): `TypeCorrect`, `LockedIsFinalCorrect`, `ReadsStayTrueCorrect`,
`OwnerOnlyCorrect` and `BootMeasurementsFirstCorrect`. They are proved of `OpenSpec`, the partition among
clients that may send *any* message at any time, and so hold of `Spec`, of every composition whose steps are
such steps, and without any fairness. They rest on `SlotStep` (a step changes at most one
slot, and to an outcome of one extend) and `OutcomeSlot` (what such an outcome can be). `OwnerOnly` needs a
strengthening, `AllOwned`: a slot without an owner has no values, and an owner is a known signer. It is proved under
`OneLength`, all signer ids having one length: with ids of different lengths it is false, because an id
passes as every shorter id that is its prefix. `BootMeasurementsFirst` needs `BootInv`, which says where in a slot
each entry collected so far is, and that until service starts the slots hold nothing else.

The rest of `DelegatedAttestProofs` (`AttestAssumption`, `RequestAssumption`), for any number of slots read and whatever
other clients do between two reads. `AttestImplementsMeasuredBoot` says that the composition implements `OpenSpec`:
to measured boot, the attestation partition is one more client. `MeasuredBootInComposition` carries the results
above over. `AttestInv` is the invariant of a call for a key: what was read is in
the order of the slots and a prefix of what each slot has now (`StateOk`), a slot was skipped only because an
earlier record had shortened one of the four buffers (`MissedOk`, with `RoomOk` for the lengths carried from one turn of the
loop to the next, and `NoLonger`: what others do to a slot meanwhile never lengthens it), and a reply that waits in the mailbox is of the slot asked for (`ReplyInv`).
`KeyFromMeasurementsCorrect` and `MissedOnlyAfterShorterCorrect` follow; `TokenBoundToKeyCorrect` has
an invariant of its own, `DakInv`, because the hash algorithm is kept beside the key and a failing call may replace the key and
not the algorithm.

`SecureFlashProofs` (`FlashAssumption`: sizes that divide each other as the flash profile's do; `WidthAssumption`: the
provisioned zones lie in the flash, and flash and request together are smaller than the address space), for every geometry,
range, number of faults, polls, sessions and every width of the reference count: `RangeDoneCorrect`, `SessionClosedCorrect`,
`ChunkFinishedCorrect`, `InitTruthfulCorrect`. `WithinFlash` shows that a range whose end wraps is refused all the same: its
first byte is in no provisioned zone. The arithmetic is in lemmas about division (`DivUnique`,
`SameUnit`, `NextMultiple`). `RangeInv` says that the bytes accessed are exactly those before the next
chunk; that a chunk crosses no unit follows from where it starts for reads and programs, and from the alignment that the
checks enforce for erases. `ChunkFinished` needs `FinishedInv`: a poll that saw ready, without faults, tells the truth.

`EtssServiceProofs` (`BufAssumption`, `ClientAssumption`, `CallsAssumption`, `RequestAssumption`), for any clients, assets and chunk
sizes, with and without isolation: `OwnAssetsOnlyCorrect`, `NoAccessCorrect`. What is not inductive
is the middle of a chunked set: `JobOk` adds that the request has passed its checks, that the client's file system is the
selected one, and that the file holds exactly the data before the offset (`MidSet`). A get that fails half way has returned a beginning of
the part asked for (`OwnPart`).
`WriteOnceKeptCorrect` is an action property and assumes `~ReadMayFail`; with failing reads it is false (section 6).

`VadAppProofs` (`VadAssumption`, `AppAssumption`), for recordings and FIFOs of any size, any retries and waits:
`RecordingWholeCorrect`, `NoReentryCorrect`, `TaskCleansUpCorrect`, all from `VadInv`. Thread and handler are
lists of operations, so the invariant says which lists there may be: the thread replies exactly once, as the
last thing it does for a call (`ThreadInv`); the handler that stops the sampling has a whole recording or nobody wants one
(`FlihInv`); the buffer that the FFT has overwritten is given up by the very next operation (`RecInv`). `NoReentry`
is about thread, handler and main task together: `CalmInv` says how far `start_vad`, `get_freq` and `stop_vad`
have come beside the status, and at which places of the main task the detection is known to be stopped. `TaskInv` carries, from one boot to the next, that a
stored boot pattern implies an import of the key, successful or refused.
It holds for the main task only; a client that makes any calls breaks it (section 6).

`EthernetProofs` (`EthernetAssumption`), for any delays and time-outs, frames and packets of any length, any number of
senders and buffers, and FIFOs of any size: `LinkConfiguredCorrect` and `TrafficIntactCorrect`. The first rests on `LinkInv`,
which says for each of the 25 steps of the initialisation, and for the middle of a write to the PHY, what the registers hold
and what was read last, as long as nothing failed. The second needs the content of both FIFOs: `Packed` says that a FIFO is made of
the words of certain packets, one after the other, and its lemmas that a packet can be put at the end (`PackedMore`) and taken from the
front (`PackedFirst`). `RxInv` says that the receive FIFO holds the frames that arrived and were not read, and that the frame peeked
at stays first; `TxInv` that the transmit FIFO and what the owner of the mutex still has to write are together the packets
accepted and not sent. That the bytes come out as they went in, with the padding at the end (receiving) or at the start (sending), is
`BytesOfWords` and `SentAsWritten`. The overrun is excluded by the space that remains for the words still to be written,
unless a packet was accepted in the gap of the space check. `BufferInv` counts the buffers.

`Dma350Proofs` (`Dma350Assumption`: the number of pixels is a multiple of four, as the four linked commands need it), for
drawings, blocks and groups of characters of any size: `TransfersRightCorrect`, from `DrawingShownCorrect`,
`EchoReversedCorrect` and `PartitionPassesCorrect`, one for each program. `DisplayInv` is the invariant of the first. `HandInv` lists the
turns of the two tasks: what each waits for, beside the queue and the notifications. `ChanInv` says that the channel runs only while the display
task waits, that its registers are those of one of six stages (`StageRegs`), and that the bytes sent so far are a prefix of the
display; with it, the command that is loaded next continues exactly where the last one ended (`StageLoaded`, `StagePlace`), and the address
arithmetic of the registers, with its negative increment, swaps the bytes of each pixel (`SourceByte`). `DrawnInv` says which tiles of
the buffer are drawn, from the place of the drawing task alone. `EchoInv` divides the
characters into groups: those before a multiple of the length are sent, and `EchoAt` says for each place of the CPU how far the
next group is received, reversed or sent.

Each inductive invariant was checked by TLC on the instance of its component's run before it was proved.

Only model-checked: liveness (`ServesAgain`, `WaitsOnlyOutranked`, `KeyCallEnds`, `VoiceReported`, `FramesServed`, `ExamplesFinish`)
and `StopsOnlyWhenPassed`, which is about `ENABLED`: the prover handles neither fairness nor
`ENABLED`. The format upgrade at file level, where `BlocksMapped` is false (section 6). The results of the test suites, which are about concrete sequences of calls. `CodecConfigured`, whose
content is the bit patterns of a concrete list of transactions.

## 5. Not modelled

* Flash operations that return an error in the middle of an update of the file system; a set at an
  offset at the level of `EtssFlashFs` (chunks are in `EtssService`, errors of one access in `SecureFlash`).
* `etss_secure_api.c` (repeats the IPC wrappers); provisioning, PUF, TRNG and unique-id functions of the flash, which
  are empty in this repository; the JEDEC layer, which is an empty submodule.
* The interface functions of drivers that nothing calls (`smsc9220_disable_*`, sends in several chunks, most of
  the I2S and systimer setters); the register table of `clcd_mps3_init` and the drawing data (`pattern.c`).
* A second main task of the VAD application, which every further network-up event creates (`main_ns.c:255`): `VadApp`, and with it
  `NoReentry` under the application, is about one.
* Two places where the code relies on its caller: `delegated_attest_req_mngr.c:95` reads a hash of any length into a buffer of
  64 bytes before its size is checked, and `measured_boot.c:457` uses the slot index of an entry of the boot stages' shared data
  unchecked. The models take hashes that fit (or are refused) and indices in range.
* FreeRTOS, MQTT, OTA, PKCS#11, crypto and initial attestation: external, modelled from their use.
* The DMA-350 secure test and the example partition (straight-line code without state), build files, headers of constants.

## 6. Findings and known deviations

Checked by a run:

1. *Empty assets* (`fs_empty_asset`). A file of length zero has the same position
   as its neighbour; deleting it does not copy the neighbour's data.

Known deviations without a run of their own. The models contain the behaviour (what they leave out is in section 5), and the
properties are stated so that they hold beside it:

2. *Failed replace* (`etss_flash_fs.c:290`). The old entry is programmed into the scratch block before
   the size is checked, and stays there when the check fails; the next update programs over it. Shown by
   `AssetsIntact` with `Sizes` beyond `MaxFileSize`, or beyond the free space of every block; `RoomyFileSystem` says which configurations
   never get there.
3. *Upgrade* (`etss_flash_fs_mblock.c:818`). The block table copied by the upgrade still
   names the old block for logical block 0: `BlocksMapped` fails in the `fs_upgrade` instance.
4. *Hash error* (`measured_boot.c:339`). A slot whose first extension fails in the
   hash reads back as an empty measurement, with success (`ReadsAreMeasurements` in `MeasuredBoot`).
5. *Read error* (`etss_flash_fs.c:218`). A failed read looks like an absent
   file, and lets a set replace a write-once asset: `WriteOnceKept` fails with `ReadMayFail`.
6. *Boot state* (`delegated_attest.c:231`). The comment says all accessible measurements are retrieved; a slot
   with longer fields than the last one read is left out. `MissedOnlyAfterShorter` says when that is possible.
7. *Start twice* (`vad_an552_sp_main.c:96`). A client that starts the detection while it runs lets the
   interrupt handler use the estimation library in the middle of its initialisation.
8. *Lost wake-up* (`triggering_example/main_ns.c:130`) and early wake-up by another interrupt: `Overslept`
   and `cpu.early` in `Dma350`.
9. *Polling* (`smsc9220_eth_drv.c`, `spi_nor.c`): success in the last turn is reported as a timeout; the
   busy test of MAC writes looks at the wrong bit; unchecked accesses write back values that were never read
   (`drv.ignored`).
10. *Transmit space* (`smsc9220_eth_drv.c:993`): the check ignores command words and padding (`tx.tight`).
11. *Sessions* (`secureflash.c:214`) stay open after a failed access.
12. *Header that cannot be read* (`etss_flash_fs_mblock.c:930`). With two valid headers, a transient read error of the newer one makes
    a start load the older version and erase the newer one. `NoRollback` names the case; what is left is a complete version. `EtssFlashFs`, which does not
    model read errors, does not go through it.
13. *Session that does not start* (`external_trusted_secure_storage.c:206`). Any failure of the secure session or of reading the application
    information counts as "not provisioned", and a provisioned device waits for provisioning; clients of assets are not served until
    the next restart (`Boot`).
14. *Get that fails half way* (`external_trusted_secure_storage.c:379`). The length is reset in the service only; the chunks
    written before are with the caller (`CutShort`).
15. *Key of a failed call* (`delegated_attest.c:362`). When the last `psa_key_derivation_abort` fails, the call fails, but the new key is the current one, and a
    token can be made for it, under the hash algorithm of the call before (`KeyUnreported`; `TokenBoundToKey` allows it).
16. *First boot* (`main_ns.c:230`). The results of the provisioning are ignored and the boot pattern is written: the OTA agent
    can run without the key (`its.refused` in `TaskCleansUp`).
17. Signer ids of different lengths (section 4); a message of unknown type to measured boot is never answered; a
    provisioning call to a provisioned device ends in `psa_panic`; a refused draw call leaves
    a tile blank (`draw_task.c:43`).

## 7. Plan

1. `EtssFlashFs`: errors during an update, writes at an offset.

The set of runs is kept small: runs that a theorem or another run subsumes are retired.
