# TLA+ models of proveno-zk

proveno-zk proves that a Lua program ran as written over recorded tool answers.
This directory models the pipeline that makes such a proof, the gateway traces it can be
made from, the policy documents it commits to, and the verifier and contracts that
accept one; model-checks the models with TLC, and proves the main results with
TLAPS for every program, policy, tape length, number of edits and number of bounties.

Paths below are relative to the repository root. `PROJECT.json` holds the line-by-line
map from definitions to source, the runs, the faults each property is tried
against, the hazards and the findings.

## 1. The system

| Component | Source | State it keeps | Operations |
|---|---|---|---|
| Policy | `src/policy/mod.rs`, `canonical.rs`, `profiles.rs` | none: a document | check a call, check a response, canonical bytes, hash, parse |
| Dry run | `proveno-witness/src/prover.rs`, `main.rs`, `src/policy/host.rs` | the Vm, the transcript | run the program once against the live host; record the tape |
| Live host | `proveno-witness/src/host.rs` | an HTTP client | answer one tool call |
| Guest replay | `src/zkvm/guest_input.rs`, `src/policy/guest.rs` | tape cursor, `calls_made` | replay under a policy; compute public inputs |
| OpenVM driver and guest | `proveno-openvm-host/src/main.rs`, `proveno-openvm/src/main.rs` | files | choose a policy, replay, compare with the dry run, prove |
| Noir path | `src/noir/encoder.rs`, `proveno-noir/src/{lib,witness,prover}.rs`, `noir/src/main.nr` | artifact files in `circuit_dir` | encode, replay, build a witness, execute the circuit, prove, verify |
| Commitments | `src/zkvm/commitment.rs` | none | the six public inputs, in two hash schemes |
| Gateway traces | `proveno-witness/src/gateway_trace.rs`, `src/bin/gateway_trace.rs` | a store of traces, four output files | rebuild proving inputs from a trace, strictly |
| Wire verifier | `verifier/src/lib.rs` | none | parse and check a proof envelope |
| Contracts | `contracts/src/*.sol` | bounties, escrow, the last result | post, claim, verify, consume |
| proveno-core | a git dependency, not in this repository | Vm, `TapeHost`, `OracleTape`, `ToolRegistry` | execute, replay, record |

**How they interact.** The dry run produces a `DryRunResult` file: the tape (what every
tool call was answered, errors included), an attestation per call, the return value
and the public inputs. Both proving paths read that file and run the program again with
the tape in place of the network. The OpenVM path takes a policy of its own from the
command line and stands `PolicyEnforcingHost` in front of the tape; the Noir path
uses the bare tape and copies `policy_hash` from the file. A Noir proof goes to
`ProvenoVerifier`, on which `Bounty` and `ProvenoConsumer` depend. A gateway trace is a
second source of the files the OpenVM driver reads: `reconstruct` replays it strictly,
makes a policy of the recorded limits, replays again as the guest will, and writes them.
The policy itself travels as bytes: encoded by the driver, parsed, enforced and hashed by the
guest, and hashed once more by a verifier from a document of its own.

**What is hard.** Nothing here runs threads. The difficulty is that one program is
executed two or three times, by hosts that differ, and the executions must agree: a
tape cursor that falls out of step, a policy that one host enforces and another does
not, caps counted at different places, a fixed-size witness that silently drops what
does not fit. On chain, the recipient of a payment may call back. On disk, provers
share a directory. Bytes that decide what is enforced are read by a parser of their own.

**What makes each component correct.**

- Dry run: an HTTP call is handed to the live host only if the lists admit its method and
  the domain the policy reads in its url; no response a schema rejects is recorded as a success.
- Guest replay: whatever the dry run did, what the guest serves is within the committed
  policy; a claim stands for an execution on the committed tape; a run the policy
  admits is replayed unchanged and is provable.
- Noir path: a proof binds every answer the program saw in full, with its recorded
  attestation; a run the circuit can express is not lost.
- Bounty: one payment per bounty, only for a proof of the committed program, out of an
  escrow that always covers the unclaimed rewards; a completed claim is final.
- Noir prover: a call returns a proof of its own witness, for a circuit that was current while
  it ran, under that circuit's key, whatever earlier calls and crashes left in the directory.
- Gateway traces: whatever was edited in the store, what is rebuilt is an execution of the stored
  program; a genuine trace is lost for one reason only; the proof reveals what was predicted.
- Policy bytes and wire verifier: a run whose public inputs verify was served within what the
  verifier's own document says; no policy is applied in part; damage to a proof is noticed. (That a run
  is behind the public inputs is for the proof blob to show, and the verifier does not look into it yet.)
- Consumer: the stored number is one a valid proof returns, through re-entrancy and reverts.

## 2. The modules

```
Policy <- DryRun <- GuestReplay <- MCGuestReplay     DryRun_proofs <- GatewayTrace_proofs
                 <- NoirReplay  <- MCNoirReplay                    <- NoirReplay_proofs
GuestReplay <- GatewayTrace <- MCGatewayTrace
NoirProver <- MCNoirProver                           NoirProver_proofs
   (implements ProvingService)
PolicyCodec, WireVerifier <- PolicyProof <- MCPolicyProof
                                 InductionLemmas <- PolicyCodec_proofs <- PolicyProof_proofs
Bounty <- OnChain <- MCOnChain                   <- OnChain_proofs
   (implements Escrow)
       <- MCBounty
```

**Policy.** `CheckHttpCall` is `check_http_call` (the same in `OraclePolicy` and
`PolicyView`): methods first, then domains; an empty list restricts nothing. A url
is an element, and `ExtractDomain` is the function of it that `extract_domain` is: several urls may have one domain, and
one in which no host is found has `NoDomain`, the code's `""`, as has a call without a url. Method and domain lists
may name anything. What the lists are held against is the domain the policy reads. The live
host passes the raw url to an HTTP client that parses it by itself and follows redirects
(`host.rs:61-65`), so the host that is contacted may be another one than the policy read; `policy/mod.rs:42`
says "may contact". The client is not modelled and no property speaks of the
host it contacts. A JSON schema is the set of payloads it accepts. `Admits` is an
independent reading of the document, used by properties.

**DryRun.** Programs are not modelled instruction by instruction. A program is
deterministic, so its next step is a function of the answers so far; `prog` samples
that function the first time a history is reached and remembers it. TLC therefore
explores *every* program over the given calls, and a replay runs the same program. A call
is made bare or under `pcall` (`caught`), an uncaught failure ends the run.
`OraclePolicyHost::call_tool` is `HostForwards` (list checks before the call) and
`HostAnswer` (what the registry then records: denial, schema failure, or answer).
`forwarded` remembers the calls that were handed to the live host. A call without a url, and an
`http_post`, which `ProverHost` has not, are never answered; any other url may be answered, one no domain is read from included.
`VmMaxToolCalls` is the Vm's own limit.

**GuestReplay.** `StartReplay` is the driver up to the payload check; then each call of the
program is refused by the policy host (`GuestCallRefused`: the tape is *not* advanced),
served from the tape, past its end, or over the Vm's limit. `callsMade` and `cursor` are
the counters of `PolicyEnforcingHost` and `TapeHost`. `GuestReturn` is the divergence
check and the proof; `claim` is what the proof reveals. `guestCalls`, `guestSeen` and
`served` are history variables. The policy is chosen independently of the dry run's,
because nothing in the code ties the two together.

**NoirReplay.** `NoirStart` is `encode_program`'s limit, `NoirCall`/`NoirReturn` the replay
against the bare tape, `BuildWitness` the witness with its two kinds of content: rows,
which hold what fits, and hashes, which bind the whole tape. `CircuitHolds` is the
assertions of `main.nr` about them. The trace is that of a real execution, so checks on
opcodes and jumps pass, with one exception that is modelled: `main.nr` wants `pc + 1` after every
`ToolCall`, and a failed call that `pcall` catches continues elsewhere. At the final `Ret` the
circuit compares the top of the stack with the return value: for an integer they are the same, and for anything else the
return value is 0 and the top whatever the Vm traces (`StackTops`), so such a run may or may not be proved.

**NoirProver.** One call of `prove_from_artifacts` after its witness is built, as steps over the
files of `circuit_dir`: `Prover.toml` is written (twice, as in the code), `nargo execute`,
`vk_needs_refresh`, `bb write_vk`, `bb prove`, the read of `target/proof`, `bb verify`. A command
reads its inputs in its `Start` action and writes in its `End` action, so steps of other calls, and edits of
the circuit, fall in between. A failing or killed command leaves each output untouched,
complete or `Torn`. Modification times enter through `vkOlder`, the one comparison the code
makes. `Exclusive` says whether callers take turns: the code does not make them, the
tests do (`prover_lock`). Assumed of the tools: `nargo` recompiles when the source changed,
`bb` refuses missing or torn files, and a crash takes the running command down too (a command that
outlives its caller would be a second call on the directory).

**ProvingService.** What a caller is promised: a call ends in an error, dies, or returns in one step
the proof of its witness for a version of the circuit between its start and its
return. `NoirProver` maps to it by hiding the files: `status` and `output` are the mapping.

**Bounty.** The contract with `ProvenoVerifier` in front. `ClaimPays` performs the
checks and effects of `claim` and hands control to the recipient by pushing a frame onto
`stack`; until the frame is popped any call may be made, a nested claim included.
`RecipientReverts` restores what the frame saved, as the EVM does. A proof is the public
inputs it proves; an invalid one makes the Honk verifier return false or revert. `balance`
changes by these calls only (ether forced on the contract is outside the model).

**Escrow.** What posters and solvers are promised, with whole transactions as its steps: no recipients that call
back, no saved frames, no reverts. In one transaction a bounty is left alone, is put on offer, or is
taken, on the poster's terms, by one solver and paid in full; taking one that was put on offer in the same
transaction counts. A taken bounty is no longer on offer, and only a program somebody has proved is taken.
`Bounty` maps to it by what an observer between transactions sees: `Committed` and `CommittedPaid`, the state
below the outermost frame. A transaction under way or undone is a stutter.

**GatewayTrace.** Extends `GuestReplay`: the gateway records a run as the dry run does, without a
policy, so the dry-run variables are the trace's records, and the guest variables are the replay
`reconstruct` makes through `GuestInput`. `StoreTrace` writes header and footer; `EditTrace` is
whatever happens in the store, whose signature is not checked here: a record changed, dropped or added, the
footer, the program. `StartReconstruct`, `StrictCallServed`/`Refused` and `StrictReturn` are the
strict replay and its mismatches, `GuestCalls` and `GuestFinishes` the replay under `PolicyFor`,
`WriteFile` the four writes. The driver's part (`DriverLoads` to `DriverVerifies`) is `proveno-openvm-host`
over files, with or without `--policy`, `--vm-config` and paths of its own; `OtherDriver` is another one in the
same directory. `Footer`'s gas and memory are the number of calls they were used on, and
`TapeHost::strict` refuses any call that is not the one recorded at its position, the end of the tape included.

**PolicyCodec.** `CanonicalBytes` is `canonical_bytes` field by field and `Parse` is
`PolicyView::parse`, as reads that thread a `Reader` through, the first error staying.
Bytes are digits of a small base and integers are a byte or two, reduced to their width, so that
lengths which overrun, a cap that does not fit a narrower `usize`, and strings that are not UTF-8 are all in reach.
A sort is the choice of the permutation in order, so that it can be reasoned about. `IsOraclePolicy` says which
documents are policies (strings are UTF-8, `schema_versions` is a map), `FitsWidths` that lengths fit a `u32` and
caps a `u64`: the casts in `canonical_bytes` would reduce anything longer.
The profiles and `LoadSpec` are here.

**WireVerifier.** `BuildProof` and `VerifyProof` on the v1 format, in the order of the checks. Fields before
the blob are one unit long; the blob and what follows it are a sequence, because `proof_blob_len`,
read from the buffer, says where the integrity hash is. SHA-256 of a prefix is that prefix: nobody finds collisions, but
everybody can compute it, the hash needs no key. `VerifyProof` does not look into the blob, as `verify_proof` does
not (`lib.rs:19-22` has it supplemented by a real proof later). `Wire` is the format of any inputs and blob.

**PolicyProof.** One proof from the prover's document to the verifier's verdict: `ShipInput` (host
replay, 64-bit), `EditBytes`, `GuestReplays` (32-bit `usize`), `SendProof`, `EditProof`,
`VerifierJudges` with a document and public inputs of the verifier's own. `BuildAnyProof` is `build_test_proof` called without any
replay: a well-formed buffer, with its hash, for inputs of any choice; and `EditProof` may hash what it changed again
(`Rehashed`). Both set the history variable `rehashed`. A run is what a policy can tell of it, whether the program catches
refused calls included: `LetThrough` is how many of its calls are answered under given rules, and a run that catches the
others goes on (`Enforces`). `served` remembers how many were answered.

*What a verdict is worth.* With an unkeyed hash and a blob nobody verifies, "verified" alone says that the buffer is well-formed and
is of the caller's inputs and policy; no run need be behind it, and the model has states where none is. So
`VerifiedRunKeptPolicy` speaks of a verdict in two cases: the public inputs that were accepted are those a guest revealed
(then it does not matter who built the buffer or what is in it), or the hash in the buffer is the one the prover put there. In
`JudgedProofIsWhole` likewise, framing is shown of every accepted buffer, and whose inputs it has only of those not hashed again.

**OnChain.** Extends `Bounty` by `ProvenoConsumer` behind the same `ProvenoVerifier`, as `Deploy.s.sol`
deploys them. `consumeResult` may be called inside a payment, and a payment that reverts takes
what was consumed in it along (`results` holds `lastResult` at the start of each payment). Signed return values go through
`abi_encode_int256`, `Pack` and `Decoded` with both widths kept.

Abstractions shared by all: a hash is the value it binds; a payload or message is an
element with a size; the program's input is the one value (`Nil`) both paths use.

## 3. The runs

| Run | What it asks | Bounds |
|---|---|---|
| `guest_replay` | safety of the dry run and the guest replay | 2 domains, a url of each and none, `http_get` and a non-HTTP tool, 2 payload sizes, up to 3 calls; no policy, an allowlist with a cap of 2, or a cap of 1 with short payloads and a schema, independently on each side, and on the guest's also the allowlist with a cap of 3, under which a replay can run off the end of its tape; returns 0, 7 and a non-integer, so that a replay can return something else than the dry run, and something else that commits to the same integer |
| `guest_methods` | the same with method lists and a url no domain is read from; an admissible run *is* proved | 1 domain, a url of it, one of none and no url, `http_get`/`http_post`, up to 2 calls, a POST-only policy with a cap of 3, one whose method list names neither HTTP tool, and the tight one; the same three returns |
| `noir_replay` | the Noir path | up to 3 calls against 2 slots, payloads one byte over the buffer, programs and traces at and one over their limits, an integer and a non-integer return with either top of the stack |
| `on_chain` | the bounty board and the consumer, and that the board implements `Escrow` | 2 accounts, 2 programs, right and wrong policy, 2 bounties, nesting depth 2, values 0, 1, 2; results 1 and -1; the payloads of both and of -1 without its sign |
| `gateway_trace` | reconstruction and driver over an edited store | up to 2 calls over 2 tools, answers within and an error over the lower byte limit, 1 edit, a return value that serializes and one that does not, a driver default limit of 1 |
| `policy_proof` | policy bytes and the wire verifier | 5 documents: both profiles, two writings of one list-and-schema policy, one with schemas per domain and a cap beyond the narrow `usize`; 3 runs, one of which catches what it is refused, 2 sets of other commitments, an empty and a 2-byte blob, 1 edit of either buffer at every position, hashed again or not, or 1 buffer built anew; base 4, lengths of 1 byte, caps of 2 |
| `noir_prover` | the artifact directory, and that it implements `ProvingService` | 3 calls taking turns, 2 witnesses, 1 edit of the circuit; calls and witnesses are symmetric |
| `guest_desync`, `guest_unprovable`, `noir_cap`, `bounty_doc`, `noir_prover_shared` | five statements of comments and docs, each refuted | as above; 2 calls that do not take turns |

*Why these bounds suffice.* The interesting events of a replay are: a refused
call, a call shifted against the tape by an earlier refusal, one past the cap and one past
the end of the tape. Three calls give room for a refusal, a shifted answer and an
exhausted tape in the same run; caps of 1 and 2 are below and at the call counts. Two slots
and three calls truncate; the circuit's real sizes (16, 1024, 512, 2048) only scale this.
Depth 2 with two bounties has a nested claim of the same and of the other bounty,
and a revert of either level. One edit of a trace makes it shorter, longer or different anywhere;
one edit of a buffer cuts, continues or changes it at every byte. Each of these is enough to be accepted
where it should not be, and the proofs cover any number for traces and wire proofs. Of three calls on a directory, one can leave artifacts behind, a second
fail or die over them, and a third return; one edit makes the bytecode, the key and the
witness on disk differ in version. Claims of an id never posted are included. The proofs of
section 4 remove the bounds for everything except liveness.

*Symmetry* in `on_chain` (accounts, programs): both are compared for equality only. In `noir_prover`:
calls and witnesses, likewise.

*Deadlock* is off in every cfg because the systems stop: a run ends proved or failed, and
a bounty board may be left alone.

*Fairness.* `WF_vars(GuestStep)` and `WF_vars(NoirStep)`: a replay is one function call on
one thread with no I/O but the tape, so once begun it goes on stepping. Nothing is
assumed of the operator, who may never start a replay, nor of the network, which may
never answer the dry run. Boundedness of the program comes from the Vm's call limit. For the Noir
path it covers `nargo` and `bb`, which the code waits for. `WF_traceVars(ReplayStep /\ UNCHANGED driverVars)`: the same
for the two replays of `reconstruct`, and nothing for the gateway, the writes or the driver.

*Faults.* Every property of a passing run names a mutated definition (beside the original
in the module, marked "Fault") that breaks it: caps off by one, checks dropped, commitments over
the truncated rows, effects after the interaction, a mismatch not looked for, a list written
unsorted, trailing bytes let pass, a sign not extended, a solver written into the wrong field.

### What the five refuted statements say

1. **A caught denial puts the replay out of step** (`guest_desync`). The dry run records a
   denial as a tape entry. The guest refuses the same call before reading the tape, the
   entry stays, and every later answer is the previous one. A program that catches the
   denial and returns the same value anyway is proved on answers it never had. `guest_input.rs:64-65`
   calls the replay bit-identical. What does hold is `GuestTracksDryRun`: it is, for every
   run the policy admits.
2. **A permitted dry run may be unprovable** (`guest_unprovable`). `OraclePolicyHost` enforces
   neither cap; the guest enforces both (`policy/mod.rs:460-461`, `prover.rs:59`).
3. **A Noir proof does not bind the cap** (`noir_cap`). `policy_hash` is copied, so
   README.md:53-54 is true of the OpenVM path only.
4. **`AlreadyClaimed` comes before `ProofInvalid`** (`bounty_doc`), against `Bounty.sol:14-16`.
5. **Calls on one directory mix their proofs** (`noir_prover_shared`). `lib.rs:21` promises "the witness used
   to produce" the proof; a second call that writes `Prover.toml` before the first runs `nargo`
   makes the first return the other's proof with its own public inputs. `verify`
   does not notice: it looks at the same files.

Statements met that differ from the code in wording only, with no run of their own: `verifier/src/lib.rs:88-89`
names `ProofInvalid` for a buffer that fails its structural checks, where the code
returns `MalformedInput`; `ProvenoConsumer.sol:31-33` names the errors without `PolicyHashMismatch`, which
comes first; `gateway_trace.rs:75-76` holds when the driver is given the policy file written beside
the others, which `PredictionIsRevealed` has as its premise.

Four observations have no statement to refute. Bytes after the integrity hash of a wire proof are not looked at. The same
proof can be consumed on chain again after a newer one, and `lastResult` goes back. A `bb write_vk` killed half way leaves a torn key with a new
time, which `vk_needs_refresh` keeps: no call succeeds until the circuit changes or somebody removes
the file. And a run in which a tool call failed and was
caught replays on the Noir path and its witness is built (`witness.rs` has a tag for it),
but the circuit can never be satisfied. `NoirLosesNoCleanRun` is stated for runs without
such failures that return an integer, and its proof shows that these and the sizes are the *only* ways to lose a run.

## 4. The proofs

All are of the form `Spec => []Inv` (or an action property), two are refinements, and four say what the policy
codec computes for every document. They start from the constants'
assumptions alone: sizes and caps are naturals, `NoDomain` is not a domain, `NoHash` is not
a program hash; the prover's and verifier's documents are policies whose lengths fit a `u32` and whose caps fit a `u64`, a
`usize` is no wider than a `u64`; three of `NoirProver`'s also assume `Exclusive`. `PROJECT.json` lists them under "theorems".

**What was hard to state without induction.** The library's induction theorems take a predicate as
parameter, which the provers cannot instantiate. `InductionLemmas` has them for *sets* instead
(a set of naturals that has 0 and every successor has them all), with what rests on them: a function defined by
recursion on its argument exists and satisfies its equation, and in a total order a list that is not empty has a
largest element, and every list has a permutation in order, and only one. Sums (`Unclaimed`), powers
(`Values`) and lists of strings are then reasoned about through the set of lengths at which a claim holds.

**Shared lemmas (`DryRun_proofs`).** `DryInv` says that the recorded tape *is* a run of `prog` (`IsRunOf`)
and, once recorded, that `prog` returns `dryReturn` after it. The key lemmas are
`PrefixCall` and `PrefixReturn`: a program replayed on a prefix of its tape can only make
the recorded call, and can return only at the end. `prog` grows during a replay, so
`DryInvReplay` shows that new histories disturb nothing.

**`GatewayTrace_proofs`, guest replay.** The properties are not inductive: that served responses stay within the cap
needs `callsMade = Len(guestSeen)` and `Len(served) <= callsMade` (`Bookkeeping`), that answers come
from the tape needs the correspondence of `served` and `cursor` (`Consumption`), that
refused calls spend budget needs the counter never to lag (`Budget`), and that a claim is an
execution needs the partial run so far (`Execution`). `IInv` is their
conjunction with `DryInv` and `TypeOK`. For admissible policies the verdict on each
recorded call is "permitted", so `PrefixCall` applies at every step and `GuestTracksDryRun`
and `AdmissibleRunIsProvable` follow.

**`NoirReplay_proofs`.** `IInv` adds what each stage leaves behind (the witness is
`BuildWitness(dryReturn)`, sizes already checked). `CircuitAcceptsWhatFits` is the core:
the circuit accepts the witness *exactly* when every entry has a slot, fits it and is an
answer; truncation anywhere makes row and leaf differ.

**`OnChain_proofs`, the board.** A revert restores an older state, so an invariant of the present state is not
enough: `IInv` says of the present state *and of every saved frame* that it is `Good`: rewards
settle with the claimed flag, claims are backed by proofs, and what was claimed before the
transaction is untouched. `ClaimIsFinal` follows for every step. `Escrowed` is `EscrowIsUnclaimed` of the present
state and of every frame; `UnclaimedChanges` says that changing one bounty changes the sum by what is owed
for that one, and every step changes one at most.

*The refinement.* `InProgress` says that the present state and every frame is something *one* `Escrow` transaction can make of the
committed state. The steps compose: a bounty posted since then can still be claimed (`PaysGoesOn`), an unclaimed one
cannot have been posted over (`PostGoesOn`), a revert goes back to a frame for which the same holds, and
`proved` only grows, which undoes nothing (`TransactionsGrow`). So when the outermost frame goes, what becomes visible is
one transaction (`BoardImplementsEscrow`); every other step leaves the committed state alone (`StepOfStack`).

**`NoirProver_proofs`.** Under `Exclusive`, `IInv` says that one call at most is under way (`OneActive`), what the
files say at each stage of it (`Track`: `Prover.toml` holds its witness, then bytecode and solution are its
own, then the key is not older, then the proof fits), and that a complete key newer than the bytecode
is its key (`CachedKeyIsCurrent`, which has to be part of the invariant because it outlives calls). `StepAlone`
and `OthersKeep` deal with the calls that wait, `StepKeeps` with the one that steps.
`Refinement` maps each step to a step or a stutter of `ProvingService`.

**`GatewayTrace_proofs`, reconstruction.** `DryInv` says that the tape is a run, and holds only until somebody edits the store
(`Genuine`). What replaces it is what the strict replay has found out so far (`StrictSoFar`: the first n recorded calls and
answers are a run), which on its return becomes `Execute`: the whole recording is a run of the
program with the recorded output. From there on the guest replay, which compares nothing, can only make the
recorded calls (`PrefixCall` again), its policy permits each of them (`PolicyForAdmits`), and it is in step
(`GuestInStep`). `DriverOwnFiles` carries the prediction to the proof. `GenuineTraceReconstructs` is part of the
invariant: for an unedited trace the strict replay makes the recorded call at every step (`GenuineCall`) and
matches on return (`GenuineReturn`).

**`PolicyCodec_proofs`.** The round trip (`EncodedPolicyParses`) is proved along the reader's way: `At` says which bytes
are ahead of it, `Rd` what it has read, and each field of `CanonicalBytes` takes a reader that is at the field to one
that has it and is at the next. Lists are read by the parser's own recursion, followed element by element. At the end of the document
the reader compares its place with the end of the buffer, which is `ContinuedIsRefused`. For a cut (`CutIsRefused`), `Agree` compares
a reader of the cut buffer with one of the whole: as long as the first has met no error, both have read the same and stand at
the same place, so it cannot be at its end. `SameBytes` (two writings of a document have one encoding) is uniqueness of sorting.

**`PolicyProof_proofs`.** Two invariants. `ProofInv` says of every buffer on its way that it has the shape of one (`Shaped`), so
that where the verifier finds a hash that fits, a whole proof is in front of it (`WholeWhereHashed`), whoever hashed it; and of one
nobody hashed again that it is at most damaged (`Damaged`): bytes change, but the only integrity hash in it is the prover's, so
its inputs are too (`DamageIsNoProof`). `BytesInv` is what each stage knows of the bytes: a run is
revealed only after it was replayed, under the narrow `usize`, from the shipped bytes, which are what is committed. Where the verified inputs are
the revealed ones, those are the bytes of the verifier's own document, and the codec's theorems say what was enforced; `CapIsNotLoosened` deals with a
cap reduced to the narrow `usize`: it is never looser than the document's.

**`OnChain_proofs`, the consumer.** The board inside the composition is still `Bounty` (`BoardIsBounty`), so its theorems hold there. `ChainInv`
adds that there is one saved result per open payment and that each is proved; that decoding inverts encoding and that packing keeps
int64s apart (`DecodesWhatIsEncoded`, `PackKeepsApart`) are proved for every width.

**Only model-checked.** Liveness (`AdmissibleRunIsProved`, `NoirRunIsProved`, `ReconstructionEnds`): temporal reasoning
under fairness and `ENABLED` are beyond the prover. Every other property of a passing run is a theorem. Documents with lengths of 2^32 and more
are outside the codec's theorems and runs.

## 5. Not modelled

- The word encoding of the OpenVM input file, `--stark`'s baseline, `PublicInputsLib.pack`'s layout,
  TOML and JSON layout, opcode numbering, printing: formatting.
- The two hash schemes and what they feed to the hash: a commitment is the value it binds. A
  consumer ignores `programHash`, and so does the model's.
- The `compile` command: a wrapper around the external compiler.
- The arithmetic of the `add` tool: a response is abstract.
- The transition rules of `main.nr` other than `ToolCall`'s and the final `Ret`'s, and proveno-core: the Vm is outside the
  repository, and a trace it made satisfies them.
- `HonkVerifier.sol` (generated), forge-std (vendored), scripts, benchmarks.
- `required_output_schema`, `tls_requirement`: no code enforces them.
- Collisions of hashes; gas and memory limits of the Vm.
- The HTTP client: how it reads a url, which host it contacts, redirects.
- A verified proof blob, which the wire verifier has a place for and the code does not check.

## 6. Plan

Runs are kept few and each asks a new question. What is left:

- `ProvenExecution`: one abstract specification that both proving paths implement (a claim appears
  only for an execution on its tape). Its content is in `ClaimIsExecution` and `NoirProofBindsTape`; that
  the two paths prove the same output of one dry run follows from `GuestTracksDryRun` and
  `NoirTracksDryRun`, for policies that admit the run.
