# A TLA+ model of riscv_sphincs_sw

The repository is bare-metal firmware for a 32-bit RISC-V core with a vector
unit: SPHINCS+ (SHA-256, 256s, simple) with its tests and a benchmark. This
directory holds TLA+ modules that model its logic, TLC configurations that
check them on small instances, and theorems that TLAPS proves for every value of
the constants: trees of every height, any number of layers, buffers, blocks and messages of
every size, any program under the profiler. Paths below are relative to the repository; `SPX/`
stands for
`src/src/sphincs-sha256-256s-simple/`.

The repository has no README and no design document. What the program promises
is in its code, in the comments of its headers and in its tests.

## 1. Inventory

The program is one thread: `crt0.S` clears memory and calls `main`, `main`
prints, calls two tests of vector instructions and stops in an endless loop. The
tests and the benchmark of SPHINCS+, and the profiler around it, are other entry
points of the same image. Nothing survives a reset, and there are no tasks. Three
things do run beside that thread: the UART, which is busy while a byte is on its way;
the 64-bit cycle and instruction counters, which go on while the program reads their halves;
and interrupts and exceptions, which `crt0.S` takes and returns from, nested if a handler
lets them. Besides, what is hard here is the order of calls over
state that is kept between them (a global hash state, addresses that are
overwritten again and again, a byte buffer of a stream, a table that is sorted
while it is in use), index arithmetic at boundaries, and buffers sized exactly.

| Component | Source | State | Operations | Status |
|---|---|---|---|---|
| treehash | `SPX/utils.c` | stack, heights, offset, address, auth_path | the loop over the leaves and its inner loop | modelled, refined, proved |
| compute_root | `SPX/utils.c` | buffer, leaf_idx, idx_offset | the climb to the root | modelled, proved |
| hash addresses | `SPX/address.c`, `SPX/sha256_offsets.h` | an address of 22 bytes | setters and copies | modelled |
| WOTS+ | `SPX/wots.c` | one address for all chains | key generation, signing, recovery | modelled, proved |
| FORS | `SPX/fors.c` | fors_tree_addr, fors_pk_addr | signing, recovery | modelled, proved as part of the scheme |
| signature scheme | `SPX/sign.c` | state_seeded, root, tree, idx_leaf, addresses | keypair, signature, verify | modelled, refined, proved |
| signed messages | `SPX/sign.c` | sm, m and their lengths | sign, open (also in place) | modelled, proved |
| hashing | `SPX/sha256.c`, `hash_sha256.c`, `thash_sha256_simple.c` | state_seeded | seed_state, thash, prf_addr, gen_message_random, hash_message, mgf1 | partly: rounds are data; proved |
| seed expander | `SPX/rng.c` | AES_XOF_struct | init, expand | modelled, proved |
| random generator | `SPX/rng.c` | DRBG_ctx | init, randombytes, update | modelled, proved |
| clock, benchmark | `src/src/myTime.c`, `SPX/test/benchmark.c` | stamp array and counter | reset, stamp, difference | partly: what lies between the stamps is in other modules; proved |
| profiler, main | `src/src/main.c` | table of profile entries, table of names | enter and exit hooks, initialisation, sort, report | partly: without the tests that `main` calls; proved |
| startup | `src/src/crt0.S`, `src/src/link.ld` | registers, csrs, bss, the stack of frames | clear, call main, save, handle, restore | modelled, proved |
| output | `dbg_printf.c`, `my_uart.c`, `my_utils.c` | debug level, the device's status and byte | print, convert, send a byte | modelled, proved |
| AES | `src/src/tiny_aes/` | round keys | encrypt | vendored data, not modelled |
| vector tests | `vicuna_test/` | arrays | print results | not modelled |
| tests, KAT | `SPX/test/`, `SPX/PQCgenKAT_sign.c` | | drive the interface | seen as callers only |
| unused headers | `SPX/haraka_offsets.h`, `shake*_offsets.h` | | | not compiled |

How they interact. `sign.c` calls `fors.c`, `wots.c` and `utils.c`. `treehash`
gets its leaves from a callback (`fors_gen_leaf` or `wots_gen_leaf`). Hashing goes
through `thash` and `prf_addr`; `thash` takes the public seed from the global
`state_seeded`, which `initialize_hash_function` sets at the start of every
call, and ignores its own argument. Addresses are passed by pointer and come
back changed. `rng.c` supplies seeds and the signature's `optrand`. The compiler puts the
hooks of `main.c` around every function that does not forbid it, `dbg_printf` included,
which the report of the profiler calls itself. All output goes through `dbg_printf` to
one register of the UART, one byte after another.

What makes each of them correct:

* **treehash, compute_root**: they compute the Merkle tree; their exactly sized
  buffers suffice; verification accepts the genuine path and no other; no two
  hashes share an address.
* **WOTS+**: the verifier ends at the public key exactly when the message is the
  one that was signed; no message's digits dominate those of another.
* **Scheme**: what was signed verifies, nothing else does, no one-time key signs
  two values, addresses separate the hashes, whatever was called before.
* **Signed messages**: open returns what was signed, fails on anything else, and
  leaves nothing behind when it fails, even when both buffers are one.
* **Hashing**: streamed and split hashing is hashing of the whole string.
* **Seed expander**: the bytes are one stream, however they are requested.
* **Random generator**: writes what was asked for; repeats nothing.
* **Clock**: stamps stay in their array; each difference is one of this run's stamps.
* **Profiler**: the hooks find their entries whatever happens to the table in between; a
  total is what its function took; the report has every function, once, the largest first.
* **Startup**: `main` begins with a bss of zeros and nothing else is cleared; whatever is
  interrupted goes on as if it had not been.
* **Output**: the line carries what was asked for, numbers are spelled as they are, and
  every call returns.

The full list of hazards, each with its line and its properties, is in
`PROJECT.json`.

## 2. Modules

```
Forest ── MerkleTree (abstract)        Bits, Address ── Hash ─┬─ Wots ── OneTime
  │            ▲                                              ├─ TreeCalls ── Fors
  ├─ Treehash ─┘ refines                                      └─ Wots + Fors ── Sphincs
  └─ ComputeRoot                                                                  │ refines
                                                              SignatureScheme ◄───┘ (abstract)
Aes ─┬─ SeedExpander ─┬─ Rng
     └─ Drbg ─────────┘                Profiler ─┬─ Measure          SignedMessage
                                       MyTime ───┘                   Sha256
Crt0                                   Console

Proofs: TreeProofs (Treehash, ComputeRoot)      WotsLemmas (Wots), used by the next two
        OneTimeProofs (OneTime)                 SphincsProofs (Sphincs)
        RngProofs (Rng)                         Sha256Proofs (Sha256)
        SignedMessageProofs (SignedMessage)     FirmwareProofs (Measure, Crt0, Console)
```

`MCx.tla` gives module `x` its constants for TLC. In every module `Def_Slip`
names a plausible mistake in `Def` (a dropped reset, an index off by one): it stands
before `Def`, nothing in the specification uses it, and putting it in `Def`'s place
makes TLC report the property that guards against it. `PROJECT.json` pairs each
property with one of them under "mutants", and maps each definition to the
lines of the code that it models under "map".

**Forest** numbers the nodes of a row of trees and says by definition what a Merkle
tree is. `Leaf`, `Thash`, `Node` and `Pow2` are constants with assumptions, so that
the theorems hold for any hash function and height. **Treehash** is the loop of
`treehash`: `Call` (the caller's arguments), `GenLeaf` (a leaf is written and saved if
it is on the path), `Merge` (one iteration of the inner loop, address, hash and save
included), `NextLeaf`, `Finish`. The arrays have one cell more than the caller's
buffers, so that writing past their end is visible. **MerkleTree** is the promise that
callers rely on: call, then root and path at once. **ComputeRoot** is the climb, over
any leaf and path that a signature may hold.

**Address** has the setters of `address.c` over the bytes they write; bytes that two
fields share (offset 17: chain or tree height, offset 21: hash position or index)
are one component here too. The bytes that no setter of these parameters writes
are left out. **Hash** makes `thash` and `prf_addr` free constructors, with the
content of `state_seeded` as an input of `thash`. **Wots** has `base_w`,
`wots_checksum`, `gen_chain` and the three functions built on them, each returning
the address as it leaves it. **Bits** has what its shifts and digits are made of. **OneTime** is one key pair: generated, a message
signed, the signature verified against any message. **TreeCalls** states what
`treehash` and `compute_root` return and leave in their address, which is what
`Treehash` and `ComputeRoot` establish step by step (`CallsAreTreehash`, section 5); **Fors** has the functions of
`fors.c` and the iterations of its two loops.

**Sphincs** is `sign.c`: `Keypair`, `Sign`, one action per FORS tree and per
layer of the hypertree, then the same for verification. State is what the
functions keep in locals across iterations plus the global `state_seeded`. A
signature is a sequence of cells, one per SPX_N bytes, and verification consumes
it cell by cell, so that sizes and order of the parts are checked. Verification
is given any signature made before, also with a cell replaced by another
signature's or by rubbish (`Forged`), or cut short, or for another message or key.
**SignatureScheme** is what `api.h` promises, without keys, trees or hashes: verification
answers 0 to what was signed under that key, and -1 to everything else. `Sphincs` implements
it (`ImplementsScheme`); a signature is the element that `Sphincs` has in `signed`, and
every step within a call is a stutter or `Begin`. What is asked stays visible there (`asked`, a set of
none or one) only while there is an answer to it, because before that the implementation has not
looked at all of it. Where a hash is read as bytes, the
bytes are drawn on first use, distinct for distinct hashes, and kept (`Known`).

**SignedMessage** is `crypto_sign` and `crypto_sign_open` over buffers that hold bytes,
signature cells or garbage. Between two calls the caller flips a cell, shortens the message or
opens in place, as `SPX/test/spx.c` does. Which signatures verify is what `Sphincs` shows.
**Sha256** treats a chaining value as the list of blocks absorbed; padding, streaming, HMAC, the
split in `hash_message` and `mgf1` are as in the code. **SeedExpander** is `seedexpander_init`
and `seedexpander` with an action per iteration of its loop. **Drbg** is `randombytes_init`,
`randombytes`, also with an action per iteration, and `AES256_CTR_DRBG_Update`. Its arrays are
encrypted in place before they are written; what they hold then is chosen between what the stack
held before the first call (`Contents`), what the last call left there, and any block that was
put out. No output depends on V, so V is kept as a block and a number of increments. **Rng**
puts the two generators of `rng.c` side by side, over the cipher of **Aes**.

**Profiler** is `main.c` in the order of the commented-out block of `main`: `Greet`,
`InitFunctionNames`, `InitFunctions`, `RunBenchmark`, and the report with its `Sort` and,
for each row, the two calls of `dbg_printf` that it takes (`ReportRow`, `ReportLine`). The
enter and exit hooks take three steps each, since the counter is read half by half. The
program between the hooks is a stack of calls of any shape that the call graph allows. Ghosts
record what the hooks should have counted (`spent`) and where a carry came between two reads (`torn`).
`stray` says that a hook went where the model does not follow it: a scan that came to the last
entry, whose warning calls `dbg_printf`, or a write before the table. `HooksFindTheirEntry` shows that none does.
**MyTime** is the clock under the one caller that uses it, `benchmark`; the cycle
counter ticks between any two reads, and the two halves are read in either order. **Measure** is
both: they share nothing but the habit.

**Crt0** is `crt0.S` at the granularity that interrupts see: an action for each turn of the
clearing loop, one for saving, one for each csr that is restored, one for the rest up to `mret`. `Trap` is
the core's: it may come in `main` as an exception, or wherever `mie` and `mstatus` allow it. The
handler is the linked one, which loops, or any that keeps the calling convention and may
switch interrupts on and off. `interrupted` is a ghost: what was running at each trap.

**Console** is `dbg_printf` over `my_utils.c` and `my_uart.c`, with a step for each
directive, each successful poll and each byte, and the device as a process that takes one byte
at a time. A format is a sequence of literals and directives; arguments are taken
one after another as `va_arg` does. `printFloat` is a call with one directive. A conversion is
the digits of its number: `Numerals` divides by a power of the base where the code divides by
the base again and again or shifts. `out` and `cp` are the characters of the directive and
the pointer that walks over them; `asked` is a ghost, what the calls were to print.

## 3. Runs

| Run | Bounds | States | Shows |
|---|---|---|---|
| treehash | height 3, 2 trees | 4 thousand | tiling, room, path, result, refinement, no address twice |
| compute_root | height 2, 2 trees, any path | 81 thousand | genuine paths give the root, others do not |
| one_time | N=1, w=4, all 256 × 256 pairs | 66 thousand | digits, checksum, chains, addresses of steps |
| sphincs | 1 key, 2 layers, 3 calls, all digests | 49 thousand | the scheme is implemented; addresses separate |
| sphincs_calls | 2 keys, 3 layers, 4 calls | 33 thousand | the same with calls interleaved over `state_seeded`; one-time keys over several layers |
| signed_message | signature 2 cells, messages up to 3, one flip | 211 thousand | open, in place and not |
| sha256 | blocks of 8 cells, up to 25 cells | 246 | every length against the definition of FIPS 180 |
| rng | blocks of 3 bytes, counter of 2 digits, 3 calls of the DRBG | 167 thousand | one stream, total length, carries; bytes written, no block twice |
| measure | 4 functions, 2 free calls, counter halves of 8 and 16; 2 runs of benchmark, real factor | 313 thousand | hooks, totals, report and its order; stamps |
| crt0 | bss of 0, 3, 4, 6 and 8 bytes, 2 boots, 3 traps | 24 thousand | bss, resumption |
| console | words of 8 bits, all numbers but the most negative, 2 calls | 736 thousand | every byte, every number, every call returns |
| seed_expander_ctr | the seed expander of rng | | the finding |

Why the bounds are enough.

* *treehash*: with height 3 the stack fills, a merge cascades over all levels and
  over some, and every leaf is asked for in the first and in the second tree. The
  theorems lift the bound.
* *compute_root*: the path may hold any node of any height of either tree, in any
  place, or a foreign value. Height 2 has both a regular and the exceptional last
  iteration.
* *one_time*: a byte is enough for more than one digit of message and of
  checksum, and the checksum takes a partial byte, where the shift matters.
* *sphincs*: every digest is drawn, so both FORS trees, both leaves of each tree and
  all subtrees occur. Three calls are a key pair and two signatures, or a signature
  and a verification. *sphincs_calls* has a third layer, whose tree index is cut
  twice, and four calls: the smallest number at which a call with another key
  comes between signing and verifying. Its digests are three that put a leaf of odd
  index in some layer and of even index in another. Keys and messages are
  interchangeable there, since nothing compares them but for equality.
* *signed_message*: messages that are shorter than a signature, as long and longer, so
  that moving within the buffer overlaps or does not.
* *sha256*: a cell is eight bytes, and all sizes keep their proportion (block, length
  field, hash, address), so that every case of the padding and of the split
  occurs, including a message that just leaves room for the length and one that
  does not. Lengths that are no multiple of eight bytes are not distinguished.
* *rng*: requests that are empty, end inside a block, at its end and after two
  blocks; a counter that carries and wraps; maximum lengths reached to the byte.
  Each generator runs while the other is unused (`OneInUse`), as they share no
  state. Three calls of the DRBG are a seeding and two requests, or a request
  before any seeding, which is how the tests of the repository use it. `Contents` has one value; the
  blocks put out so far are the other things that may lie on the stack.
* *measure*: four functions, of which one is called from two places and has no name, and two
  (`dbg_printf` and `memcpy`) can be entered for the first time by the report. The table has
  six entries: one for each of the three functions other than `main`, a second one for each of
  the two that the report calls, and one to spare, the least that `RoomAssumption`
  allows (the firmware has 98 functions and 200 entries, so that it holds however many of them
  the report calls). The instruction
  counter starts anywhere in the last of its high halves, so that the low half carries
  and the whole counter wraps in the middle of a run. The cycle counter starts a few ticks
  before its low half wraps; the two runs of benchmark overwrite each other's stamps. Clock and profiler
  are run one at a time (`OneInUse`), as they share no state.
* *crt0*: a bss that is empty, of whole words, and with a last word that is shared; a
  trap in the program, one in its handler or wrapper, and one in that. The theorems lift
  these bounds.
* *console*: every number of a word but the most negative int, at every place of the formats that
  the firmware uses, and pairs of them; a format with directives that send nothing and take no
  argument (`%04d`, `%l`); strings shorter and longer than their width, the levels below, at and
  above the maximum; a second call of each kind, so that the end of a call meets the start of the
  next while the device is busy. `NumbersSpell` has one exception, `FractionCarries`: a fraction
  that rounds up to one is printed as 0.0000, without a carry into the digits before the point, as
  `floatToString` computes it. The theorems lift the bounds: words of any width, any float that is
  not negative.

Deadlock is checked in treehash, compute_root, signed_message, sha256 and
rng. The other runs stop where a bound (`MaxCalls`, `Runs`, `MaxBoots`) or the
program's end is reached.

**Fairness.** `Treehash` states weak fairness of `Run`, a step of a running call, because the
program is one thread, the loop waits for nothing and an interrupt returns to it
(`ResumesAsInterrupted`). A caller is not obliged to call. With it the
refinement of `MerkleTree` includes that every call returns. `Console` states weak
fairness of `Printer`, for the same reason, and of `Transmit`: the UART sends the byte that it was
given. With the device held up for ever, the busy wait is endless, so `PrintReturns`
needs both. `Poll` is enabled only when the device is done, and only the program makes it
busy again, so that weak fairness is enough. All other properties
are safety properties and need none.

## 4. Findings

**The counter of the seed expander** (run seed_expander_ctr). The comments of `AES256_ECB`
(`SPX/rng.c:108-109`) call `ctr` the plaintext and `buffer` the ciphertext. The
function encrypts `buffer` in place and never reads `ctr`: each block is the
encryption of the one before, and the counter and the diversifier in it have
no effect on the output. `randombytes` calls it the same way, with the same effect
on V, and with a block that was never written: its bytes do not follow from the
seed, although `SPX/PQCgenKAT_sign.c` seeds it to get reproducible files.

Observations that no run shows, because nothing but a constant or a comment is at odds, or
because the model takes the code as it is:

* `SPX/api.h:39` says "Format pk: [root || PUB_SEED]". `crypto_sign_seed_keypair` writes
  PUB_SEED first (`SPX/sign.c:92`), and `crypto_sign_verify` reads it there.
* `POWER_2_32_DIVIDED_BY_50000` is 85898 where (2^32)/50000 is 85899: when the low half
  of the cycle counter wraps, the time goes back by one millisecond.
* The two halves of a counter are read one after the other, without a second look at the high
  one. A carry in between makes a time or a total wrong by 2^32. A total that becomes zero in this
  way may be sorted behind free entries, where the enter hook does not find it and makes a second
  one; `HooksFindTheirEntry` and `EveryCallCounted` say what remains true then.
* The enter hook has no answer to a full table but to write before it, and would call `dbg_printf`,
  and so itself, first: it does that when its scan comes as far as the last entry, free or
  not. 98 functions leave room in 200 entries, even if each of them had two (`HooksFind`).
* The loop of `crt0.S` clears one word past `_bss_end` where bss is a number of whole words;
  `BssCleared` bounds it. `.shbss` is not cleared. `exc_wrapper` does not save vector registers,
  and its handler cannot advance `mepc`, since the saved one is restored after it.
  `src/src/link.ld:22` calls 0x8000 bytes of stack "16 kB".
* `floatToString` loses the carry of a fraction that rounds up to one (`src/src/dbg_printf.c:195`);
  `NumbersSpell` excepts that case. It writes the digits of a negative float as characters below
  zero; `Fits` leaves those floats out. `printFloat` has no caller. `intToString` cannot negate the
  most negative number, which `Fits` leaves out too: it is never printed. A format that ends within
  a directive would be read past its end; no format of the firmware does. "%\r" prints no percent
  sign.
* `vicuna_test/test.c:49` advances its pointers by vl/4 words where it has handled vl. It is
  right only because one turn of the loop is enough on a wide register.
* `SPX/hash_sha256.c:10-11` says that for SHA-256 the initialisation is an empty
  operation, while the function seeds `state_seeded`, on which every `thash` depends.
* The flips of `SPX/test/spx.c` come after an open in place that has already destroyed the
  signature, so that they fail whether or not a bit is flipped; `OpensIffIntact` says
  what such a test should see.

## 5. Proofs

Eight modules hold proofs that TLAPS checks: `TreeProofs`, `WotsLemmas`, `OneTimeProofs`,
`SphincsProofs`, `SignedMessageProofs`, `Sha256Proofs`, `RngProofs` and `FirmwareProofs`. They
assume only what their modules assume of the constants, which TLC evaluates in the runs:

* `Forest`: a positive height and number of trees, the law of exponents for `Pow2`, and that
  `Node` is the Merkle tree over the leaves. `Treehash`: what an unwritten cell of `heights` holds
  (`JunkHeight`) is some number.
* `Wots`: log_w divides 8, and the digits of the checksum hold the largest one (as `params.h`
  precomputes them).
* `Sphincs` (`SchemeAssumption`): at least one FORS tree and layer, FORS trees that are not empty; at
  most 256 layers, 256 chains and subtrees of height 8, because the address has one byte for each of
  the three, as `set_layer_addr`, `set_chain_addr` and `set_keypair_addr` write them; a bound on
  the number of calls (`MaxCalls`), any.
* `Sha256`: the length field fits in a block; a hash is not larger than a block, which `sha256.c` says
  of itself; the vector unit loads a block at once (`VlMaxAssumption`, section 6).
* `Rng`: blocks are not empty; a counter of any number of digits in any base.
* `Profiler`: `FuncsAssumption`, a finite call graph; `RoomAssumption`, a table with room for all
  functions but `main`, a second entry for those that the report calls, and one to spare;
  `CounterAssumption`, a run of fewer than 2^64 instructions.
* `Console`: the messages that are printed have an argument of its kind for every directive
  (`MessagesAssumption`), as every call in the firmware does, no int is the most negative one and no
  float is negative; a word is a whole number of hexadecimal digits, a float is a multiple of some
  unit (`WordAssumption`).
* The others: a word, a block and a signature are not empty, messages are bytes of bounded length.

Hashes are free constructors (section 6) wherever two of them have to differ; the tree algorithms
are proved for any `Thash`, which is assumed to have no collisions in `AscentSound` only.

| Theorem | For every value of the constants |
|---|---|
| `TreeProofs!TypeCorrect` | indices, heights and stack stay in range |
| `TreeProofs!StackSuffices` | tree_height + 1 cells of stack are enough |
| `TreeProofs!PathSuffices` | nothing is written behind auth_path |
| `TreeProofs!Correct` | on return root and auth_path are those of the tree |
| `TreeProofs!Refinement` | the loop implements the promise of `MerkleTree` (its safety part) |
| `TreeProofs!AddressesDiffer` | no two nodes of a call are hashed under one address |
| `TreeProofs!Tiles` | the stack is the leaves so far, in full subtrees |
| `TreeProofs!AscentTypeCorrect` | compute_root does not read the path past its end |
| `TreeProofs!AscentComplete` | genuine leaf and path give the genuine root |
| `TreeProofs!AscentSound` | if `Thash` has no collisions, nothing else gives it |
| `TreeProofs!AscentFollows` | compute_root returns the end of the way up, from any leaf along any path |
| `OneTimeProofs!Spells` | the lengths spell the message and its whole checksum |
| `OneTimeProofs!Blocks` | some chain of another message is shorter |
| `OneTimeProofs!Recovers` | a signature gives the public key for its message and no other |
| `OneTimeProofs!Separates` | no two hashes of a key are under one address, up to 256 chains |
| `SphincsProofs!InvHolds` | the invariant of the scheme, which the next four rest on |
| `SphincsProofs!TypesHold` | sign writes and verify reads SPX_BYTES, part by part; the tree index is used up |
| `SphincsProofs!KeysOnce` | no WOTS key pair signs two values |
| `SphincsProofs!Implements` | `sign.c` implements `SignatureScheme`: what was signed verifies, nothing else does |
| `SphincsProofs!AddressesApart` | in a signature no two values are hashed under one address, no secret is used twice |
| `SphincsProofs!CallsAreTreehash` | the scheme's calls of treehash are those that `TreeProofs` is about |
| `SphincsProofs!CallsAreComputeRoot` | and so are its calls of compute_root |
| `SignedMessageProofs!OpensMessage` | an open that succeeds gives back what was signed |
| `SignedMessageProofs!ClearsOnFailure` | an open that fails leaves nothing |
| `SignedMessageProofs!Accepted` | it succeeds on what was signed and on nothing else |
| `Sha256Proofs!HashesSeeded` | thash hashes the padded seed, the address and the input, of the seed that was set last |
| `Sha256Proofs!HashesWhole` | hash_message hashes R, key and message, wherever it cuts them |
| `Sha256Proofs!RandomHmac` | gen_message_random is HMAC, wherever it cuts the message |
| `Sha256Proofs!Masks` | mgf1 is a prefix of one stream, of every length |
| `RngProofs!Continues` | seedexpander returns one stream, however it is cut up |
| `RngProofs!KeepsMaxLen` | and never more of it than maxlen |
| `RngProofs!Counts` | its counter counts its blocks, with carries over any number of bytes |
| `RngProofs!Writes` | randombytes writes what was asked for, from its last blocks in order |
| `RngProofs!NeverRepeats` | none of its blocks comes twice |
| `FirmwareProofs!StampsInArray` | stamps stay in their array and belong to their run |
| `FirmwareProofs!CallsCounted` | the total of a function that is not on the stack is what passed between its hooks, unless a carry came between two reads |
| `FirmwareProofs!HooksFind` | the hooks find their entries and never write before the table |
| `FirmwareProofs!ReportWhole` | the report has every function that was entered, once, named, unless a carry came between two reads; and the largest total first, but for what it calls itself |
| `FirmwareProofs!Clears` | main begins with a bss of zeros, and little else is cleared |
| `FirmwareProofs!Resumes` | what was interrupted goes on as it was, at any depth |
| `FirmwareProofs!EveryByteIsSent` | the line carries what was asked for, byte for byte, and all of it once a call is over |
| `FirmwareProofs!NumbersAreSpelled` | what is sent of a number spells it |

*treehash.* That the result is right when the loop ends is not inductive. The
invariant `IInv` says what the stack is meanwhile: its entries tile the leaves
generated so far with complete subtrees, one after another (`StackTilesLeaves`),
their heights decrease strictly except for the two that wait to be merged
(`HeightsDecrease`), and a node of the path is in place as soon as its subtree
is complete (`AuthPathSoFar`). From strictly decreasing heights below the height
of the tree follows the bound on the stack. From tiling and strict decrease
follows that an entry's position is even unless it is to be merged: the
subtrees to its left are multiples of a larger power of two. That is why two
entries of equal height are siblings, and why at the end there is only one. The
proof has a lemma per action (`CallStep`, `GenLeafStep`, `MergeStep`,
`NextLeafStep`, `FinishStep`), which `Invariance` combines.

*compute_root.* The invariant follows the node at which the climb is: after level
h the buffer holds the genuine node and its sibling, in the order of the index's
parity, if leaf and path were genuine so far. `AscentSound` runs the same induction
backwards, with `CollisionFree` taking the equality of two hashes to that of their
inputs.

*No address twice.* `AddressesDiffer` compares each hash with the one before it in the call. The
nodes are hashed in post-order, so that where a node ends in the row of leaves never goes
back, and among those that end together the height grows; `PostOrder` says so of
the address that was used last.

*wots.* The loops of `wots.c` are recursive functions over their index. That such a function obeys
its equation (`TwoToLaw`, `Exists`, `SumExists`, `WalkExists`, `LoopExists`) is proved by induction
over the natural numbers in the form of a set (`NatInd`). Digits: reading the digits of a number off by
shifts and adding them up again gives the number, and the shift of the checksum puts its bits
where whole bytes end (`MessageDigits`, `ChecksumDigits`). Were every length for another message
at least as large, its checksum would be at most as large, and so, its last digits being at least as
large too, the two checksums would be equal, then all lengths, and the messages (`NoWayOn`). Chains: each turn of the loop over the chains
walks on its own chain whatever the turn before left in the address (`TurnLaw`, `LoopLaw`). The
invariant `KeyInv` says of the key, the signature and the recovered key which points of the whole chains
they are; a walk from the genuine point ends at the genuine end (`EndOnChain`), and where the checksum
blocks, equal ends would mean, hash by hash backwards, that a secret is a hash (`WalkBack`).
`Separates` has the one condition `WotsLen <= 256`: set_chain_addr writes one byte. `params.h` admits sizes
beyond it (w = 16 from a hash of 127 bytes on, w = 256 from 255 on), where chain 256 would be walked
under the addresses of chain 0; at 32 bytes and w = 16 there are 67 chains.

*scheme.* The proof gives every value of a call as a function of the key pair and of where the value
stands: the root of a subtree (`RootOf`), the cells of a signature (`ForsCell`, `LayerCell`), the
value that layer j signs (`UnderAt`). The lemmas as far as `VerifyLayerLaw` say that the
functions of the code compute these values whatever the caller left in the address, and that the
functions that verify find them only when given what was signed. The lemmas as far as `Accepted` say that
a cell tells its place and the digest, so that a signature with a cell of another one cannot
pass. `Inv` then says where a call stands: what hash_message gave and what was drawn for hashes
is kept and injective (`OraclesOK`), public keys, signed triples and used one-time keys are what their
names determine (`KeysOK`, `SignedOK`, `OtsOK`), and the locals of each loop are the values for its index,
while verification has the genuine value in `root` only if all cells so far were genuine, and
always if the triple was signed (`Calls`). Each action has a lemma. A one-time key signs the root of the subtree below it or the FORS
public key of one digest position, which the key's name tells: that is `KeysOnce`. The
refinement maps a step of signing or verifying to a stutter, `SignReturn` and the last step of a
verification to the abstract `Sign` and answer. TLC cannot evaluate `Inv` itself, whose conjuncts
quantify over all places; what it says of states is checked as `TypeOK`, `OneTimeKeys` and
`ImplementsScheme`, which follow from it.

*separate addresses.* `AddressesApart` is about all hashes that a signature is made of,
down to the secrets, collected level by level (`HashesIn`). `Hashed` lists what there is: links of
chains, nodes of layer trees, nodes of FORS trees and FORS public keys, each under an address that is a function of its place. `HashesMade`
says that what was collected is of these, by induction over the levels: the inputs of each kind are of the
next kinds or secrets (`LinkMade`, `LayerNodeOf`, `ForsNodeOf`). The other way, an address tells the
type (`TypesTell`) and then the place and so the value, although chain number and tree
height share a byte and the index of a node is cut into two (`LinkTold`,
`LayerNodeTold`, `ForsNodeTold`): `HashedTold`. The leaf of a subtree, hashed under the address of a public key, is told from the inner nodes
of that subtree by its type. That no cell of a signature
comes twice (`CellsApart`) needs this and that all FORS cells differ, for which the index of a leaf is counted on over the trees
(`ForsIndexTells`). `Inv` alone does not say that the first cell is the random one: `RandomFirst` does. The theorem
has one condition, `ForsHeight <= 255`: set_tree_height writes one byte, and higher trees would hash nodes of heights 0 and 256 under one
address. At these parameters the height is 14.

*the calls of the tree functions.* `Sphincs` takes the results of treehash and compute_root from definitions
(`TreehashResult`, `ComputeRootResult`), while their loops are in `Treehash` and `ComputeRoot`, over any
hash of two children. `Row` instantiates `Forest` with the hash under the address of a call and its
leaves, and `CallsAreTreehash` shows that this row satisfies every assumption that the theorems about the
loops make, and that the definition returns the root and the path that they prove to be returned.
`CallsAreComputeRoot` and `AscentFollows` do the same for compute_root by way of `IsAscent`, which both the loop
and the definition obey, also where the path is not genuine. The loops of
`wots.c` need no such bridge: the scheme calls the functions of `Wots` that `OneTimeProofs` is about.

*crt0.* That a return restores everything is a statement about one step, and needs one about
the whole stack: `Nested` (every trap but the first came while the one before was being handled, at
one of the places where interrupts may be on), `Framed` (a frame on the stack for each,
holding what was interrupted) and `Handles` (what is still in registers and csrs while they
are restored). The order of `RestoreCsr` is what makes `Handles` inductive: once mstatus
is written no interrupt comes, so that mepc stays. `Booted` follows the clearing
loop through the traps that interrupt it.

*signed messages.* `IInv` says which cells may be in sm (`Cells`): bytes, cells of the signature of
the message that was signed last, and those cells flipped. An accepted signature can then only be that
message's, because a cell names its message, and the rest of the buffer follows
cell by cell (`AsSigned`).

*hashing.* A state that has absorbed blocks is the list of them, so that each call of
`sha256_inc_blocks` appends a piece of the string, and every path through the code is a way of cutting
one string. `FinalLaw` says that padding what is
left after the last whole block is padding the string, in the one block or two that the code uses;
`FillLaw` that the cut which hash_message and gen_message_random make, filling the first blocks from
the message or not reaching their end, does not show. The
theorems then show of each function that its pieces, in order, are the string of its definition.

*clock.* The counter equals the number of stamps of the run, and the array holds only
indices below eight.

*profiler.* `ProfilerInv` takes the table by columns: owners, totals, times of entry. `Entries` is why
the hooks find what they look for. Every function that has an entry has one ahead of all free ones and
no second, until sorting after a torn reading puts the entry of a zero total behind the free ones; that happens to functions
of the report only, and each of them can then get one more entry and no third. Counting the
entries (`HasRoom`) leaves one free, so that no scan fails. `SortEntries` carries `Entries` over any
permutation that qsort may choose. `Sums` is why totals are right: what was spent on a function is
its total and what has elapsed since its entry, exactly while none of its readings was torn, and modulo
the low half always (`Same`). `Readings` says that two halves make the time at which the first was
read, unless that half was about to carry. `Bounded` keeps totals from wrapping: each
instruction that is counted is paid for by a call or by work. `Rows` says that what was printed is the
table up to the row; since then only functions that the report calls have counted on, so that the order in
which qsort left the others stands (`StaysInOrder`). `EveryCallCounted` is about the functions of the
table that are not running. `main` is not among them: its entry goes with `initFunctions`, and it never returns.

*rng.* `ExpanderInv`: the buffer is a block b of the stream, and the bytes returned plus one
block are b blocks plus buffer_pos (`InStream`). `GeneratorInv`: the call has written
the last q blocks that were put out, all whole but perhaps the last (`Written`). The bytes of a
request are placed by division and remainder (`Position`, `BlockOf`). That the recursive
function `Blocks` obeys its own equation (`BlockLaw`) is proved by induction over the natural
numbers in the form of a set (`NatInd`), from well-foundedness of <. `Counts` needs what the increment
does to the number that the bytes spell: it adds one modulo the number's size, carry by carry
(`CountsOn`). `NeverRepeats` needs a history, since a term that is the encryption of another
is compared with it by going back: a block is an encryption of the block before it, back to what the
stack first held, and a key is made of encryptions under the key before it, back to zeros (`Keys`, `Blocks`).
Equal ones at two moments would have equal predecessors, and in the end the first would have one. The
invariant is that a history exists of which the generator's key and block are the last. Every block that was put
out ends a history too, so that it may as well be found on the stack again (`Made`).

*output.* `Printing`: what has come out of the line, the byte that the device has, what is left of
the directive that is being sent and the texts of the items still to be read are, in this order, what has been asked
for (`Pending`; the items are those whose directives and arguments are left to `dbg_printf`, so that taking the
next directive takes its arguments and no other: `ItemsTail`). It is inductive because a byte is written
only while the device is done (`print_pc = "write" => uart = "done"`). When a call is over nothing is left, and the
line has all. `NumbersAreSpelled` is about the conversions: `Printing` says that `out` is the text of
`item`, and each text spells its argument. That the recursive functions of the model obey their own
equations (`PowerLaw`, `Length10Counts`, `FlatLaw`, `SpelledIs`) is proved once for all of them, in `RecursOnNat` or like it. Then digits by
position and digits by reading on give the same number (`NumeralsSpell`); the digits of intToString are
as many as `Length10` counts, the first not zero (`DecimalSpells`); blanks and zeros in front or behind change nothing
(`PaddedSpells`, `SpelledZeros`); the halves of a long word are spelled by the halves of its digits (`TwoWords`); a float is
off by half a unit of its last place at most (`Rounding`).

Model-checked only, and why:

* That a call of treehash and of dbg_printf returns (`MerkleTree`'s liveness, `PrintReturns`):
  liveness under fairness is not proved here. The safety part of that refinement is a theorem.


## 6. Abstractions

Hashes, PRF, compression function and AES are free constructors: equal results
come from equal inputs only. This is the assumption that the scheme makes of its
primitives, and what the functions themselves compute is compared with nothing.
Seeds are names of key pairs. Lengths are in cells where the code has bytes. Floats are
multiples of a unit and their arithmetic is exact; the status of the UART
shows a byte from the moment it is written.
`unsigned int` cannot wrap in the tree functions (at the program's sizes no index
reaches 22 × 2^14); bytes keep their width in `Wots` and in the counter of
`SeedExpander`. The vector unit loads a block as a whole if its register
is at least 16 words, an assumption on the hardware that `Sha256` names.

## 7. Not modelled

* The rounds of SHA-256 and of AES: pure functions of data, vendored, without control that
  depends on anything; `Hash`, `Sha256` and `Aes` take them as free constructors.
* `vicuna_test/`: prints what custom instructions do, for a human reader; `opt_*.c` is disabled
  by the preprocessor.
* `SPX/test/*.c` apart from the order of their calls, `sha256test` in `main.c`, and
  `SPX/PQCgenKAT_sign.c`, which is never called and needs a file system that the
  firmware has not.
* `rng.c`'s RNG_BAD_MAXLEN (a length above 32 bits, which unsigned long here cannot hold), the
  constant functions of `api.h`, `write32BitDataToAddress` (no caller).
* Headers and linker scripts of other builds.

## 8. Plan

The order puts the behaviour everything depends on first. Done: the tree
algorithms, WOTS, FORS and the scheme with its abstract specification, signed messages,
hashing, the generators, the clock, the profiler, startup and output; proofs of all of these.
Every invariant that a run checks is a theorem; what is left to TLC is liveness. Open:

1. `SignedMessage` over `SignatureScheme` instead of over a definition of what verifies.
2. A bound on the stack that `crt0.S` and the calls use, which no module has.
