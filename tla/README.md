# wasabi-liquid-native: verification development

The repository is a Rust workspace of cryptographic primitives that a Liquid wallet calls over C interfaces:
joint (CoinJoin) transactions, the observation of wallet outputs, and ordinary spends; and, under `ci/`, the gates every
change of it has to pass: checkers of its frozen vector corpora, the preparation of the sources of a sealed build, the
supervision of the commands of that build, and a gate on the source of the plan crate. This directory holds TLA+
models of that code, TLC configurations that check them on small instances, and TLAPS proofs of the properties that
matter most for every value of the constants. `PROJECT.json` maps every definition to the lines it translates and
lists the runs, the hazards of the code with the properties that guard against them, the mutants and the theorems.

Nothing in the library runs concurrently and nothing is persisted. What is hard there: protocols spread over
stateless calls whose inputs travel between distrusting callers and may come late, twice, mixed up or changed; calls
that ask the caller's devices for things that cannot be taken back, and fail in between; failure atomicity (all facts
or none, a whole answer or an untouched buffer); retries after failures and after buffers that were too small; and
arithmetic written out limb by limb, three times. The gates do run beside others: files are read, copied, unpacked and
sealed while somebody may write to them, and a command may fork, ignore signals and print while it is being ended. And
they judge one thing in several places (a scanner and an evaluator of one plan, three evaluators of one formula, two
tokenizers of one source), which must not disagree.

## 1. Inventory

Paths are below `src/crates/` unless they begin with another directory.

| Component | State it keeps, operations | Interactions | What is hard | What makes it correct | Model |
|---|---|---|---|---|---|
| **CoinJoin round**: `coinjoin-collab-blinding` (+`signing.rs`), `coinjoin-ffi/src/signing.rs` | Type-state capabilities consumed by each step (`UnblindedCoinJoin`, `CoinJoinSigningCapability`); across calls only what callers keep. `participant_a_blind_non_last`, `participant_b_blind_last`, `verify_final`, `accept_signing_capability`, `sign_owned_inputs`, `assemble_signatures` | operations 4, 5, 6, 11, 12 of the C interface; the PSET fork | PSETs and signatures delivered late, twice, changed, mixed between two finals or contexts | a transaction comes out only if all participants approved exactly it; it balances; it keeps the agreement | `CoinJoinRound` ⇒ `JointSpend` |
| **Canonical PSET state, transcript**: `coinjoin-pset-state`, `coinjoin-state-transcript` | none; `canonicalize_pset_state`, `hash_coinjoin_state` | used by operations 1, 6, 11, 12 | accepted in every phase and mixture of blinded and unblinded outputs | a digest pins the transaction and the context | `CoinJoinPset` (partly) |
| **Equality proof**: `credential-commitment-equality`, `coinjoin-equality-integration` | a transcript; prove, verify | operations 2, 3, 8, 9 | proofs replayed for another statement; wrong witness; absent point at infinity | acceptance means equal values; a proof is good in one context | `RegistrationProofs`, `LinearProofs` |
| **Partial balance proof**: `coinjoin-partial-balance` | the same | operations 7, 10 | sums that come to the identity, repeated indices | acceptance means what is taken out and the fee are paid | `RegistrationProofs`, `LinearProofs` |
| **Field and scalar arithmetic**: `field.rs`, `scalar.rs`, `generators.rs`, and a copy in `coinjoin-partial-balance` | accumulator, carry, remainder; add, mul, reduce, pow, sqrt, lift | both proofs | carries, one conditional subtraction, 257-bit remainders, the choice of the root | results are those of the integers, and canonical | `LimbArithmetic` |
| **Wallet observation**: `wallet-facts`, `transaction-validation`, `output-opening` | kept candidates, derived keys, collected facts; `observe_owned_outputs` | facts interface, wire encoder, caller's entropy | two passes with dense indices; exclusion of unrelated candidates; failure after keys were derived | all facts or none, public before private, none of the wallet's money is held back | `WalletObservation` ⇒ `AtomicObservation` |
| **Wallet facts wire**: `wallet-facts-wire` | none; request decoder, response encoder | between the observation and its C interface | limits of its own; nesting | everything observed can be encoded; decode ∘ encode is the identity | the validation in `WalletObservation`, the frames of its corpus in `FactsCorpus` (partly) |
| **Ordinary spend**: `ordinary-wallet-pset`, `ordinary-pset`, `wallet-facts` | prepared batch, layout, blinded PSET, accepted keys and signatures, retained PSET; build, blind, sign, finalize, retry | provider of openings, signer, generator: all the caller's | a failure at any of these; what was asked cannot be taken back; retry | only transactions of the plan are signed, at most one per call, delivered whole | `OrdinarySpend` ⇒ `SpendOnce` |
| **Layout plan**: `ordinary-wallet-pset` | swap indices of two sides; generate, apply | within the spend, before the provider is asked | rejection sampling; a failure between the two sides | even permutations, applied to both sides or neither | `LayoutPlan` |
| **Plan wire**: `ordinary-wallet-plan` | none; reader, writer | sign interface | canonical form, order | re-encoding gives the same bytes | order and counts in `OrdinarySpend`, the frame in `PlanFrame` (partly) |
| **C interfaces**: `coinjoin-ffi`, `wallet-facts-ffi`, `ordinary-wallet-plan-ffi` | a generator seeded per call; out-length and buffer of the caller | every component above | refusals in order, panics, capacity queries and retries with other randomness | an outcome is whole; reports stay within limits and suffice | `BufferedCall`, `HashDrbg` |
| **Addresses**: `address` | none | construction of outputs | – | round trips of strings | not modelled |
| **Root crate**: `src/src/lib.rs` | constants, `repr(C)` layouts | – | – | layouts | not modelled |
| **Public proof verifier**: `tools/` | one pass over a file | equality and balance proofs | – | – | not modelled |
| **Plan corpus checker**: `src/ci/check-ordinary-wallet-plan-conformance.py` | the tables and files of a corpus directory; scan, pack, lineage, evaluate, prepare expectations, the whole `run` | reads what the author writes; is replayed against the crate | judges of one plan that may disagree; tables that name each other's digests; derived frames | what is accepted is canonical and the reviewed corpus; a case pins what it reads | `PlanFrame`, `SourceObject`, `PlanBoundaries`, `PublicTransaction`, `PlanCorpus`, `CorpusTree` |
| **Facts corpus checker**: `src/ci/check-wallet-facts-conformance.py` | frame and case tables, recipes, inventories | the same | lineage; recipes that break two rules at once | every frame has a history, every clean recipe a frame that reads back | `FactsCorpus`, `CorpusTree` (partly) |
| **Proof snapshot**: `src/ci/prepare-ordinary-wallet-plan-proof-snapshot.py` | Cargo homes, trees, selected and copied files, authority files with their printed digests | Cargo, Git, other users of the home, the build | edits between selecting and copying, unpacking and validating, sealing and verifying | an accepted gate builds what the lock and the reviewed digests name | `StableRead`, `ProofSnapshot` |
| **Sealed commands and diagnostics**: `src/ci/run-sealed-command-supervisor.py`, `src/ci/capture-bounded-command-diagnostics.py` | processes, signals, two deadlines; retained bytes and total | the command and all it forks, one pipe | forks during the rounds of signals, processes that ignore them, output after the command | a status is of the whole command; the gate gets status and output | `SealedCommand` |
| **Source surface gates**: `src/ci/check-ordinary-wallet-plan-surface.py` and `src/ci/test-*` next to it; others of fixed text | pinned files and items, inventories taken from the source | authors; the crates it relies on | scans of comments, literals and items that read some sources differently; whole-file pins renewed | an accepted change exports, imports and declares nothing that was not reviewed, where its words are apart | `PlanSurface`, `SurfaceDrafts` (partly) |
| **Contract vectors**: `contracts/` | frozen data | the corpus checkers | – | their relations | `CorpusTree`, `FactsCorpus` (partly: relations, not values) |

## 2. Modules

| Module | Role |
|---|---|
| `CoinJoinPset` | Operators: PSETs, shape checks, both blindings, canonical projection and digest, extraction, amount proofs, acceptance for signing |
| `CoinJoinRound` | State machine of a round over the C interface with its transport |
| `JointSpend` | Abstract: consent of every owner before a transaction comes out |
| `WalletCandidates` | Operators shared by observation and spend: decoding, previous outputs, relevance, exclusion, opening |
| `WalletObservation` | State machine of one `observe_owned_outputs` and the encoder behind it |
| `AtomicObservation` | Abstract: all facts of a batch, or a rejection, in one step |
| `OrdinarySpend` | State machine of spends, native and over C, and their retries |
| `SpendOnce` | Abstract: settle on one transaction of the plan, sign it, deliver it or not |
| `LayoutPlan` | State machine of sampling and applying the shuffle |
| `LimbArithmetic` | State machine of one call of the arithmetic, limb by limb and bit by bit, in its three copies |
| `LinearProofs` | Operators: proofs of linear equations between points without a point at infinity |
| `RegistrationProofs` | State machine of proving and verifying registrations and balances |
| `HashDrbg` | Operators: the generators of the C interfaces and how each counts and reseeds |
| `BufferedCall` | State machine of a caller of the buffered C functions |
| `PlanFrame` | Operators: plan frames, the scanner with its stable error codes, unpacker, packer, lineage of derived frames |
| `SourceObject` | Operators: requests edited by operations, and the two evaluators of them |
| `PlanBoundaries` | Operators: managed batches and calls, checked formulas, outcomes of boundary rows |
| `PublicTransaction` | Operators: transactions of the corpus, and what a prepare case may conclude from them |
| `PlanCorpus` | State machine of an author who edits one item of the plan corpus |
| `FactsCorpus` | State machine of an author of recipes, frames and cases of the facts corpus |
| `CorpusTree` | State machine of an author of either corpus directory; the whole of both checkers as a predicate of it |
| `StableRead` | State machine of a reader of files and their writer |
| `ProofSnapshot` | State machine of the preparation of a build's sources and of others who edit them |
| `SealedCommand` | State machine of a supervisor, the processes of its command, and the capture of what they print |
| `PlanSurface` | State machine of an author of the plan crate and the gate's verdict; `SurfaceDrafts` holds what an author writes |
| `MC*` | Values of the constants for TLC; `MCAlgorithms`, `MCSources` and `MCGates` put machines that share nothing side by side |
| `SumTheorems` | Lemmas for the proofs: induction over numbers, subsets and elements, stated of sets, solutions of recursions, and sums over finite sets |
| `CoinJoinRound_proofs`, `WalletObservation_proofs`, `OrdinarySpend_proofs` | Theorems and proofs of these modules |
| `Algorithms_proofs` | Those of `LayoutPlan`, `BufferedCall`, `LimbArithmetic` and `RegistrationProofs` |
| `Gates_proofs` | Those of `StableRead`, `SealedCommand`, `CorpusTree` and `ProofSnapshot` |
| `Corpora_proofs` | Those of `FactsCorpus`, `PlanSurface` and the frames and formulas of `PlanCorpus` |
| `PublicTransaction_proofs` | Those of the transactions and prepare cases of `PlanCorpus` |

`CoinJoinRound` extends `CoinJoinPset`; `WalletObservation` and `OrdinarySpend` extend `WalletCandidates`, since the
code validates candidates and selected inputs with the same functions; `RegistrationProofs` extends `LinearProofs`
and `BufferedCall` extends `HashDrbg`. Of the gates, `PlanFrame`, `SourceObject`, `PlanBoundaries` and
`PublicTransaction` extend one another in this order, as the functions of the plan checker call each other; `PlanCorpus`
and `CorpusTree` extend the last, `FactsCorpus` extends `PlanBoundaries`. The abstract modules are instantiated with refinement mappings at the end of
their detailed ones.

Definitions whose comment begins with "Slip:" are not part of a model. They are plausible mistakes in the definition
that follows them; `PROJECT.json` pairs each with the property that fails when it takes the definition's place.

### The round

The library keeps nothing between calls, so the state is the callers': `wire` (PSETs in circulation), `finals`,
`approved` (the views each participant keeps with their digests), `contributions` (signatures with their public
bindings), `finalized`. An action takes *any* PSET of the wire and any contributions, which is late, repeated and
reordered delivery at once. Three kinds of `faults` are bounded by `MaxFaults`: a PSET changed in one place, one
contribution carrying another's binding, one garbled signature. Each operation is one action with its whole pipeline
of checks: `BlindNonLast` (4), `BlindLast` (5, including `verify_final`), `ApproveView` (6), `SignOwned` (11),
`Assemble` (12).

A Pedersen commitment is a pair of amount and blinding factor, factors are integers modulo `Order`. A range proof is
the commitment and script it was made for, a surjection proof the list of input generators it was made over. A digest
is its preimage; that is the assumption of a collision-free hash, and the encoder's injectivity is not verified here.
A signature names who made it and the message. One asset (L-BTC) exists, as the code demands.

`KeepsAgreement` is not code of the library. It is the caller's duty the C header states: before approving a digest a
participant compares the PSET's inputs with those agreed and the outputs blinded on its behalf with its own.

### The observation

`batch`, the position of the first pass, `kept` candidates, `derived` keys, answered requests for entropy and the
facts collected. `Scan` is an iteration of the first pass (keep, exclude, or reject the batch), `Randomize` the single
request for entropy, `OpenOutput` and `ObserveTransaction` the second pass in identifier order, `Encode` the validation
the encoder makes. A transaction identifier determines inputs and outputs, which the constant `Ledger` gives; bytes in
a request add what an identifier leaves open, namely encoding, witnesses and proofs.

### The spend

`phase` is the position in the pipeline: decode, prepare (C only), build, layout, open, blind, sign, keys, publish.
Each of the caller's callbacks has every answer its type allows. `shown` collects the digests put to the signer,
`provided` the outputs the provider was asked to open, `retained` the PSET a native caller gets back from a failed
signing and may `Retry` with. The blinding library calls the generator through infallible methods; `blinding` models
the adapter that remembers a failure and fills in fallback bytes. The layout is the constant `Shuffle` of the seed
here and a machine of its own in `LayoutPlan`.

### The arithmetic

A call is a list of instructions on one accumulator; a multiplication is `N` rows and `2*N*WordBits` reduction bits,
each a step. The three copies differ in where they keep the carry and in a Legendre check, and the model follows each.

### The proofs of registration

A point is its vector of coefficients over four generators between which no relation is known. `PublicKey` cannot
represent the identity, so the zero vector is the library's failure and absorbs. A random oracle answers each new
transcript with a fresh challenge other than zero. `Prove` takes any witness, right or wrong, and verifies what it made
before it returns, as the operations do; `Verify` takes any proof for anything. Values are compared modulo the group
order, as a proof can; that they are amounts is what range proofs are for, which the round models.

### The buffers

`Checks` lists for each entry point what can be wrong with a request in the order of the code. `Panic` may strike at
any point behind the unwind boundary. A caller whose buffer is too small calls again with what it was told.

### The corpora

A frame is a sequence of cells: one for an integer, two for a transaction identifier, as many as its length for a
payload. `Scan` is the checker's scanner with its codes in their order, `Pack` its independent packer. In `PlanCorpus` an
author starts at a reviewed item (`kind`, `now`) and makes the edits the tables can record (`row`): replacing, cutting,
appending and repacking frames, the operations of source objects, filling batches, extending transactions and formulas.
What the checker says is a function of the item, so the properties compare two of its functions on everything that can
be written. `FactsCorpus` does the same for recipes and for a table of frames with its cases.

`CorpusTree` is the directory: entries with kind, size class, number of links and data, where a digest stands for the
data itself. `TreeAccepted` is the whole run of a checker. The author misplaces and rewrites files, writes tables again
from the files as they are, and at last may renew the checksum inventories.

### Files, snapshots and commands

In `StableRead` a writer writes in place, replaces, unlinks, links and sets modification times back between the single
system calls of the reader (`steps`). `moments` records what the watched paths have held since the reading began.

In `ProofSnapshot`, `Gate` lists the phases in the order of the script; each is an action that does all the script does in
it, among them copying selected files one at a time, Cargo's unpacking, validation against archives and commits, the
construction of the final home, sealing and verification. The other actor edits what it can reach at that time: source
homes always, what is sealed until it belongs to root, with the authority files renewed to fit. A digest stands for its
preimage, and `stable_read` is one step here, which is what `ReadIsOneMoment` shows of it. Three things are taken as
given: nobody edits a destination between its writing and its sealing (it is private); what a home has wrong from the
start is an edit before the first read; and Cargo unpacks what it is given or something else, both of which happen.

In `SealedCommand` a process runs, ignores SIGTERM (`deaf`), is dying or a zombie; it forks whenever it runs. A
zombie's children go to the supervisor. `clock` passes the two deadlines at any time.

### The surface

A line is a sequence of symbols, with a blank between two words; between a comment and its neighbours there is a blank
only where one is written. `PlanSurface` has the three scans of the gate, each with rules of its own. `StripComments`
takes comments out and leaves nothing there but the ends of lines, so a word before and a word after become one, and it
takes no notice of an apostrophe; `Tokens` goes over what is left, where a character is a literal and a lifetime one
token; `TokenSpans` goes over the masked text, where comments and characters are blanks and a lifetime is an apostrophe
and a name. Then come the items with their ends, and each inventory and pin of `Verdict`. An author puts in, takes out,
exchanges or cuts lines of a crate of three files or of the crate it relies on, and may then renew the whole-file pins,
as reviewers do. Signs that a comment parts are not joined, a literal has no prefix but that of a raw one and no escape
but that of a quotation mark, and the special case of one derive and the bound on the depth of brackets are left out.
The gate runs on a sealed copy and is taken as one moment.

The scans do not agree on every source, and the gate has a gap for it. Of `static/**/LEAK: u8 = 0;` `rust_tokens` makes
the word `staticLEAK`, of `use/**/elements::Transaction;` the word `useelements`: neither is a static or an import to
it, and once the whole-file pins are renewed with such a line the gate accepts. rustc and `masked_rust_source` see two
words. A quotation mark in the character literal `'"'` opens a text to `strip_rust_comments` and to no other scan.
Two conditions on a source name what is excluded: `Legible` (no quotation mark is a character literal, and no comment
begins right behind a sign or ends at an apostrophe or a raw literal) and `WordsApart` (no comment begins right behind a
word). `ScansAgree` asks for the first only and says where the scans part: the tokens of the one are those of the other
with words joined that have a comment and not a blank between them. `SurfaceIsReviewed` says of any source that nothing
is exported that was not, and that no method of the authority is new or another; it asks for both before it says that
imports, files, statics and `unsafe` are as reviewed. Without `WordsApart` TLC finds the static and the import above.

## 3. Runs

| Run | Question, and what it shows |
|---|---|
| `Round_drift` | Two entropies on each side, seven agreements of which six are defective in one place (the start is refused, or the blinding, or `verify_final`), any one fault. What is finalized was approved to the last field by both, balances and keeps the agreement; untouched handoffs balance for all entropies; the round implements `JointSpend` |
| `Round_context` | Two views each, under three contexts, one of another phase, and a garbled signature; four outputs. No finalized transaction mixes contexts |
| `Round_live` | One fault; callers that go on calling end in a transaction, so no refusal spoils the round |
| `Round_partial` (violation) | Finding 1 |
| `Observe_batch` | All pairs of 10 transactions in all variants with a defect (not canonical, invalid proofs, previous transactions missing, repeated, superfluous, loosely encoded or unreadable), and triples of sound ones: public before private, nothing of the wallet's held back, all or nothing, always an answer |
| `Observe_spend` (violation) | Finding 2 |
| `Spend_plan` | 22 plans, over one or two assets, sound or with one defect each, through both interfaces with all answers of generator, provider and signer, and a second call or retry |
| `Spend_sighash` (violation) | Finding 3 |
| `Algorithms` | Four procedures that share nothing, each from every input to its end while the others stand still. The layout: all draws of eight values for sides of up to five elements, where indices are sampled below four at most, so that the bound is also exceeded; evenness (`LayoutIsEven`) is checked in the states by counting draws and plans. The arithmetic: all pairs of numbers of three limbs of two bits in the three copies, 43 and 61 for the moduli (`ResultIsResidue`: sums, products, roots and lifts). The buffers: three entry points, all single defects, panics, sizes up to 3 with a limit of 2, up to three calls, up to five blocks from generators that reseed after two (three in the facts copy). The proofs: all witnesses of four values and nonces of two for every registration and balance over two revisions, then any verification of the proof for any other subject |
| `Gates_corpus` | Frames with up to two edits (a larger one with one), requests and batches with two operations, transactions with two edits, formulas with three, facts recipes with four and tables with three, the source of a crate with two. Accepted frames are canonical and a repack changes what its row names; the judges of one thing agree; identities ignore witnesses; clean recipes round-trip; accepted frames have a history; an accepted change of the source leaves its surface as reviewed, and the scans part only where a comment is all that parts two words (with the conditions of section 2) |
| `Corpus_noop` (violation) | Finding 4 |
| `Gates_files` | A plan and a facts corpus directory with two edits and the renewal of the inventories: what is accepted under the reviewed roots is the reviewed corpus, and without the roots the case table still pins what cases read. A build of one crate in two locked versions and a Git source with one edit at any moment, and authority files renewed any time. Files of two cells read while a writer makes two steps (one for a pair of paths and for diagnostics). A command with one descendant at a time, three bytes printed, two retained: its status is of all of it, and is reported |

Bounds. Every property of the round is about two parties: two inputs give each an input, one confidential and one
explicit, and three or four outputs put a non-last and a last blinder at work, the last with one or two outputs. More
than one fault adds no new kind of wire content except changes at two places, each of which is independently compared.
Pairs of candidates exhibit every order of kept, excluded and refused; the triples add reorderings between passes.
Spends need two calls to show what one leaves to the next, and three outputs in two assets to tell per-asset from
overall balance. In the arithmetic, three limbs have a lowest, a middle and a top limb, so carries arrive, pass and
leave; the moduli satisfy what the code relies on (`2m > Base^N`, `Prime % 4 = 3`), named in `LimbAssumption`. Five
blocks meet the end of the counter twice, once in the copy that draws one block more. A group of five elements and two
revisions are the least that tell a right from a wrong witness and a current from an old context; there, arithmetic
accidents modulo 5 would *refute* the properties rather than hide a failure, since the properties claim acceptance
implies equality.

Among the gates, two edits are the least with which one table is made to fit another's change, and the renewal of the
inventories comes on top. One edit during a snapshot is enough for each defect since the script's reads are compared with
what was selected, each on its own, and renewals of authority files, which do take several, are not counted. One writer
step between any two steps of a reader yields every comparison that fails; two are needed to change a file and to hide
it again. A second process is enough to be forked late, to ignore a signal and to survive its parent. Lines of drafts
are one of each sort the gate's own tests have, next to the bare delimiters that make comments and literals out of
reviewed text.

Deadlock is not checked in any run: a round, a call, a bounded sequence of calls, an author's edits, a script and a command really do end.

Fairness. `Round_live` assumes `WF(Call)`: as long as some call would yield something new, callers make one. It does
not assume faults, nor that a particular call is ever made; the library cannot make anybody call it, so this is an
assumption about the callers and `RoundCompletes` says what it buys. `WalletObservation` assumes `WF(Next)` and
`OrdinarySpend` `WF(Step)`: a synchronous call runs to its end, callbacks included. Beginning another call or a retry
is not under fairness. `CommandFairness` is weak fairness of the supervisor's own steps, the clock, the kernel that ends
a namespace with its first process, and the capture's reading; nothing is asked of the command or what it starts, not
even that it dies of a signal.

## 4. Findings

1. `Round_partial`: the doc of `canonical_accept_final` (`coinjoin-collab-blinding/src/lib.rs:557`) says that a
   scalar-bearing mid-lifecycle state is rejected because it cannot match the fully blinded projection.
   `canonicalize_pset_state` accepts pending scalars and any mixture of output states, so an honest intermediate is
   projected. `accept_signing_capability` makes its own check, which is why the round's safety does not suffer.
2. `Observe_spend`: the doc of `observe_owned_outputs` (`wallet-facts/src/lib.rs:1469`) says that a candidate that
   spends a catalog script is validated fully or the batch is rejected. Spends are recognised through the previous
   transactions supplied; without the right one the candidate is excluded and the batch succeeds.
   `VisibleSpendIsNeverDropped` is what does hold, and is proved.
3. `Spend_sighash`: a signature from the callback whose DER length byte is 71 passes the range check, and the sighash
   byte is then read at index 73 of a buffer of 73 bytes. The panic is caught and reported as INTERNAL_ERROR.
4. `Corpus_noop`: `contracts/ordinary-wallet-plan/v1/nonlinkable-reference/vectors/CORPUS_V1.md:20` says that the checker
   rejects no-op edits. The comparison (`src/ci/check-ordinary-wallet-plan-conformance.py:1597`) is of identities, and
   setting an item of a filled list to the value it has writes an override, which changes the identity and nothing else.

Also noticed while modelling, without a run: `participant_b_blind_last` reports a changed input as
`DomainMutationRejected` where its doc says `BlindLastFailed`; SIGNER_REFUSED is also returned for malformed answers of
a signer that did not refuse; preparation failures become INTERNAL_ERROR; operation 3 takes the bound output proofs
from the caller and does not compare them with the output's, which operation 9 does
(`coinjoin-equality-integration/src/lib.rs:18-22`); responses of zero are documented as valid
(`credential-commitment-equality/src/lib.rs:220`, `:516`) and never verify, since the library refuses to multiply by
zero (`VerificationIsExact` states exactly this exception); indices of a partial balance may repeat and then count
twice, which the model keeps.

And of the gates: in the plan checker a chained comparison lets a `logical-repack` row carry new bytes; a filler of a
wrong length that no element takes makes a request's numeric code 4, while its frame is fine (`IdleFill`); balances are
taken by the identity of an asset's view rather than its bytes; its mutation table may be cyclic, which the facts
checker forbids; copies and swaps between lists of different shape pass the check of types and fail later. The topology
of the plan corpus ignores FIFOs, empty directories and hard links, where the facts checker refuses links but reads its
tables before it verifies checksums. In the snapshot, `validate_registry` and the validation of checkouts pass over
regular files beside package directories; `registry_archive_entries` lets a file be listed where later members make a
directory; the first `lstat` of `sealed_binary_digest` is not among what `stable_read` compares, which has neither change
time nor owner; and its `fstat` after reading is implied by the last `lstat`. In the surface gate trait implementations
are seen only at the start of a line. None of these breaks a property that is checked. What does bear on one is the gap
of the surface gate (section 2): the docstring of `rust_tokens` (`check-ordinary-wallet-plan-surface.py:602`) promises
the tokens of a source with comments and literals discarded, and a comment that is all that parts two words joins them;
`SurfaceIsReviewed` and `PlainScansAreOne` hold under conditions that exclude it.

## 5. Theorems

All proofs assume the named `ASSUME`s of the modules only, which TLC evaluates in the runs. They say that constants have
their types and, where it matters, more: each participant owns an input and nothing of an agreement is blinded yet
(`RoundAssumption`), ledger entries are well formed (`LedgerAssumption`, `ObservationAssumption`), `Shuffle` yields
permutations (`SpendAssumption`; `LayoutPermutes` proves this of the code that computes it), a draw has more values than
the largest bound (`LayoutAssumption`), field prime and group order lie between half of `Full` and `Full`, the prime is prime, 3 modulo 4, and no `x` has
`x^3 + 7 = 0` (`LimbAssumption`), the proofs' group order is a prime (`OrderAssumption`) and no commitment of a PSET is
the identity, which a serialized point cannot be (`RegistrationAssumption`), the reviewed inventories and tables are of the
reviewed files (`ReviewedAssumption`, `ReviewedTablesAssumption`), frames, transactions and identifiers are sequences of
numbers and numbers (`FactsAssumption`, `PlanCorpusAssumption`), what stands for an absent value is no transaction and no
frame (`TransactionAssumption`, `FactsAssumption`), lines sequences of symbols, none of which is what a scan puts down for a literal, a lifetime or a character (`SurfaceAssumption`),
and paths sequences of names (`SnapshotAssumption`).

Operators cannot be handed to the library's induction theorems, sets can: `SumTheorems` states induction as "a set of
numbers (or of subsets) that has the first and with each the next is all of them", and derives from it that sums do not
depend on the order of summation, are additive, and split. Every argument below that sums, counts or walks over data
rests on it; what recursive functions compute is found as the one solution of their equation.

* **`CoinJoinRound_proofs`** – `TypeCorrect`, `ApprovedByAll`, `OneContext`, `Refinement` (⇒ `JointSpend`), `AgreementKept`,
  `HandoffBalances`, for any agreements, contexts, entropies and number of faults. `FinalizedIsApproved` is not inductive:
  it does not say where the assembler's signatures came from. `IInv` adds `SignedIsApproved`: a signature by x is for a
  transaction x has approved and, unless somebody relabels, in the context its binding names. `DigestPinsTransaction`
  carries it over `SignOwned`, since op 11 gets a digest rather than the view; at `Assemble` as many distinct indices as
  there are inputs cover every input (`InjectionCovers`), hence one of each participant's. That the agreement is kept needs
  two more: `WireInv`, that what circulates has the agreement's shape under every fault, and its scalars are the first
  blinder's while nothing was changed; and `KeepsInv`, that a view approved was compared with the agreement, and that a digest pins the previous
  outputs too, so amounts balance against the inputs as they were agreed. `HandoffBalances` follows the blinding factors:
  the non-last blinder leaves the difference of its sums as its scalar, the last one's last output takes up both.
* **`WalletObservation_proofs`** – `TypeCorrect`, `PublicFirst`, `OwnedKept`, `VisibleSpendsKept`, `ObservedIsEncoded`, and
  `Refinement` (the safety part of `AtomicObservation`) for any ledger, catalog and batch. `IInv` records the verdict on each
  scanned candidate, that what is kept are first occurrences, what each phase implies of the earlier ones, that facts
  are of kept candidates and that a transaction is observed only after all its owned outputs. `InOrder` adds the order of
  the second pass, which is what the encoder asks for: until the pass is over, whatever is still to come in it comes
  after all that has been observed (`Ahead`).
* **`OrdinarySpend_proofs`** – `TypeCorrect`, `PlanIsSigned`, `FreshIsSigned`, `Retriable`, `KeysFirst`,
  `ProviderIsAskedOnce`, and `Refinement` (the safety part of `SpendOnce`), for any wallet, plans, generator and number of
  calls. `IInv` has a stage invariant (`Prepares`: what checks have been passed in which phase; balance is checked on
  declared amounts, and turns into balance of opened ones by the comparison at the opening) and `Signs`: whatever is
  blinded, retained or shown is good for its own plan. `ProviderIsAskedOnce` needs that totals of an asset are sums over
  sets of indices, which a permutation leaves alone, so the PSET construction cannot refuse, after the provider was
  asked, what the checks of the plan accepted before. The refinement adds `Attempts`: nothing is settled on before the
  blinding, nothing is delivered while an attempt is under way, and what is published carries the signature of every input.
* **`Algorithms_proofs`** – of the layout `LayoutTypes`, `LayoutPermutes`, `LayoutWaits`, `LayoutFavoursNone`, for any counts,
  draws and attempts; of the buffers `OutcomesAreWhole`, `BlocksNeverRepeat`, for any seeds, sizes, limits and numbers of
  calls and blocks (`CallAssumption`, `DrbgAssumption`). The layout's `IInv` ties phase, completeness of each side's plan
  and untouched values together. It is even since the accepted draws are whole rounds of the bound, each reaching every
  index once, and since the value in the place filled last tells the index it was swapped with, so that two plans with one
  outcome are equal from the last swap backwards. `BufferInv` says what each position of a call leaves behind, that a size
  is known from the request before the answer is worked out, and that blocks come in the order of reseeds and, between
  two, of counters.
  Of the arithmetic `ResultsAreResidues`, for limbs of any width and number and any moduli of `LimbAssumption`, real sizes
  included. A number is worth what its limbs sum up to (`Prefix`, limb by limb): carrying keeps the worth (`CarriedIs`), a
  borrow is one `Full` (`DifferenceIs`), comparing from the top compares the worth (`LessIs`). A row adds its share and loses
  nothing off the top (`RowIs`); a bit of the reduction doubles a remainder below the modulus, and one subtraction is enough
  (`ShiftedIs`, `SubtractedIs`), in all three places the carry is kept. `ArithInv` says how far a multiplication is
  (`Underway`) and where a lift is (`LiftAt`, one disjunct per stage; within a power, which bits are done). What the lift
  finds is the number theory behind it: multiples of a number permute 1 to p-1, hence Fermat's theorem; so the power
  computed for a square's root is the root that is a square itself, there are no two of those, and the Legendre check
  of the partial balance proof never refuses it.
  Of the registrations `ExactVerification`, `ValuesAgree`, `OneContext`, for any prime order, PSETs,
  credentials, index lists and fees. Exactness is worked out coefficient by coefficient: the verifier's equation holds for
  a right witness since reducing modulo the order may be done early or late, and only for a right one since the order
  has no divisors of zero and no challenge is zero. `ProofInv` keeps that an accepted proof was verified with the
  challenge of its own query; values agree because one nonce stands behind both commitments, whatever the witness was; and there is one context because
  verification fixes the challenge, and the oracle gives no two transcripts the same.
* **`Gates_proofs`** –
  `ReadsAreOfOneMoment`, for any number of steps of the writer, any inodes, contents and size bounds (`ReadAssumption`):
  `ReadInv` follows what a status taken earlier still says of an inode: as long as no time was set back, an unchanged
  status is unchanged contents; for a pair of paths the change times take that part.
  `CommandIsWhole`, for any number of processes and any diagnostics bound (`DiagnosticsAssumption`): `CommandInv` says that
  the supervisor does nothing before the command has ended and that a status of the command's own leaves an empty
  namespace, which stays empty; and that what is retained is the beginning of what was read, with nobody left to print
  once there is an output.
  `AcceptedCorpusIsReviewed` and `CasesPinInputs`, of any tree, however edited: the first needs no induction, since the
  checks alone imply it; for the second, fixtures are pinned by their rows, frames and models by the digests of the case
  that reads them, and models of boundaries by their kind, which no edit of a file that is accepted changes (`KindsKept`).
  `LockedIsBuilt`, for any lock, archives, files and edits: `SnapshotInvariant` goes by the step of the gate. Until a home
  or tree is sealed nothing is known of it but what validation compares at once; a printed digest is of what is there
  when it is printed; what belongs to root is no longer edited; and each verification ties what is there to what was printed.
* **`Corpora_proofs`** – `FramesAreTold`, for any table however extended, replayed and renumbered: identifiers ascend, so
  one names one row; each derived frame has an earlier parent of its kind, so steps up the table end at a base.
  `FramesAreTexts` and `AcceptedPlansAreCanonical`: under every edit, packing of what was unpacked included, frames are
  sequences of numbers (`FramesOK`), and what the scanner has read of one so far is what the packer writes of it, field
  by field and row by row, whether limits are tested or not. `RepackIsNamed`: unpacked frames are values whose fields
  can be put back one at a time; fields that differ lie in the reviewed target, counts and fee belong to none.
  `PlainScansAreOne`, for any reviewed crate, any lines an author puts in and any number of edits (`SurfaceAssumption`),
  of sources that are `Plain`: without an apostrophe, `Legible` and `WordsApart`. Of such a source nothing is joined when
  comments are taken out, since what is kept before a gap is no word (`GapsAreApart`, `LeftAsItWas`); the mask stands where
  the comment scan stands, since nothing is a character or a lifetime; over what is stripped nothing changes but
  comments, so the token scan of the rest stands, at each symbol left, where they stand outside comments (`ModesAgree`);
  and a place is in code for the one exactly if it is for the other, so both lists of the places in code, taken in steps
  or at once, are one (`ListsAlike`). It holds of texts that end inside a comment too. Of other sources it says nothing.
  `CleanRecipesAreReadBack`, for recipes of any length: what an author adds keeps a recipe one of its kind (`RecipeOK`).
  A list that is written item by item is read back by any reader that reads each item where it is placed and goes on
  where it ends; this is used three times over, for the previous transactions of a candidate, for candidates, and for the
  rows of a response. That a response's outputs come out under the right transaction needs more than encoding: only
  if none of the violations the gate looks for is found do the outputs follow the order of the transactions, so that each
  takes the longest run that is still its own and none is left over (`GroupIsClean`, `NoneIsLeft`).
  `EvaluatorsAgree` is the part `FormulaeAgree` of `JudgesAgree`, for any literals, any largest word and any number of
  edits: every evaluator is a fold, and steps that keep a relation keep it over the whole fold (`FoldsRelate`). A test
  of the quotient before a product is the test of the product itself, but only of a literal that fits or beside no 0; a
  tree differs from the formula by the one test a lone literal is spared, and any operation makes up for it (`Capped`).
* **`PublicTransaction_proofs`** – `ItemsAreTexts`, `IdentityIsTheBase`, for any base transactions, limits and edits. The
  scan of a transaction and of its base are two readers on two texts that agree from the third cell to the end of the
  base and nowhere else. An item is read in both alike as long as it ends there, and each ends further along than it began,
  at least as far as the count of items asks; so counts accepted in the one are accepted in the other although the second
  text may be shorter. That no second form differs from its base in nothing is the rule that a witness announced is not
  empty: some cell behind the base is not 0. A prepare case then sees of a previous transaction what its base says, and
  of their order nothing, since identities are compared as sets of what is distinct.

Model-checked only:

* Liveness, which is out of the prover's reach: `RoundCompletes`, `CommandIsReported`, the fairness of `ImplementsAtomic`
  and `ImplementsSpendOnce`.
* `JudgesAgree`, but for its part about formulas: that evaluators with different orders of their checks agree on
  requests, batches and boundaries is checked of the reviewed objects and their edits; of arbitrary bases it is not claimed.
* `ScansAgree`: the theorem has the plain sources; lifetimes, characters and words that are joined are left to the run.
* `SurfaceIsReviewed`: what the inventories miss depends on what was reviewed (a marker that occurs once, a public item
  that starts its line); of an arbitrary reviewed crate it is not claimed.

## 6. Not modelled

Byte layouts (only their order, counts and limits enter; the crates' own frame readers and writers are held to the
corpora by replay, and it is the corpora's checkers that are modelled), consensus and cryptography of the Elements fork
(external definitions with the contract the code relies on), addresses (parsing and construction of strings by a
dependency), the root crate (constants and `repr(C)` layouts), wiping of secrets, and the verifier tool (one pass over a
file). Operations 1, 2, 7 and 13 of the coinjoin interface and validate and transaction_id of the plan interface are single
pure calls. The encoder's limits on counts, per transaction and over a whole response, follow from byte sizes of encodings,
which the models abstract.

Of the gates: the text syntax of tables, descriptor checksums, the exact boundary rows of the facts corpus and the text
of its document; how captured bytes are quoted in a report; `ci/test-dependency-capability-gate.py` and the other gates
that compare fixed text (toolchain, C interfaces, public proof surface, compiler and source closure), which have no
state, no order and nothing that could disagree with itself; the test scripts, which enter as the edits of the authors.

## 7. Plan

Done, in this order: `CoinJoinPset`/`CoinJoinRound`/`JointSpend`; `WalletCandidates`/`WalletObservation`/
`AtomicObservation`; `OrdinarySpend`/`SpendOnce`; `LayoutPlan`; `LimbArithmetic`; `HashDrbg`/`BufferedCall`;
`LinearProofs`/`RegistrationProofs`; `PlanFrame` to `PlanCorpus`; `FactsCorpus`; `CorpusTree`; `SealedCommand`;
`StableRead`; `ProofSnapshot`; `PlanSurface`; and proofs of all of these.

Next:
1. The readers of the crates' frames, loop by loop, and that a frame is accepted exactly when it is the encoding of what
   it decodes to.
2. Output opening and the descriptor catalog in more detail (`output-opening`, the derivation in `wallet-facts`).
