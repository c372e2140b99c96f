---------------------------- MODULE GatewayTrace ----------------------------
(***************************************************************************)
(* The second way to an OpenVM proof: proveno-gateway-trace rebuilds the   *)
(* proving inputs from the stored trace of a gateway run (reconstruct in   *)
(* proveno-witness/src/gateway_trace.rs), and proveno-openvm-host proves   *)
(* from the four files it writes.                                          *)
(*                                                                         *)
(* The gateway records a run as the dry run does, without a policy, so the *)
(* dry-run variables are the trace's records and the guest variables the   *)
(* replay reconstruct makes of them with GuestInput.  The signature of the *)
(* trace is not checked here, so the store may hold an edited trace.       *)
(***************************************************************************)
EXTENDS GuestReplay

CONSTANTS
  Unserializable,     \* return values canonical_serialize fails on
  NoOutput,           \* Footer.output of a run without a serializable result
  ByteLimits,         \* the max_tool_bytes_in a header may record
  DefaultMaxToolCalls,\* VmConfig::default().max_tool_calls
  ForeignInputs,      \* what another driver's input file or proof stands for
  MaxEdits            \* bound: edits of the stored trace

ASSUME GatewayTraceAssumption ==
  /\ Unserializable \subseteq Values
  /\ NoOutput \notin Values
  /\ ByteLimits \subseteq Nat
  /\ DefaultMaxToolCalls \in Nat
  /\ MaxEdits \in Nat

VARIABLES
  bytesIn,    \* VmLimits.max_tool_bytes_in in the header, 0 before it is written
  gwPc,       \* "recording", "stored", "strict", "guest", "reconstructed", "refused"
  source,     \* what programs/<program_hash>.lua compiles to
  footer,     \* Footer: the output, and the calls gas and memory were used on
  edits,      \* history: edits of the stored trace
  strictSeen, \* the answers the strict replay has handed out
  replayed,   \* return value of the guest replay
  predicted,  \* Reconstruction.public_inputs, or NoClaim
  written     \* how many of the four files are written

gatewayVars == <<bytesIn, gwPc, source, footer, edits, strictSeen, replayed, predicted, written>>

VARIABLES
  driverPc,   \* "idle", "replayed", "written", "proved", "verified", "failed"
  flags,      \* --policy, --vm-config, and --out/--proof paths nobody else uses
  expected,   \* the public inputs the driver predicts and prints
  inputFile,  \* the public inputs the guest computes from the file at --out
  proofFile   \* the public inputs whose digest the proof at --proof reveals

driverVars == <<driverPc, flags, expected, inputFile, proofFile>>
traceVars == <<vars, gatewayVars, driverVars>>

\* canonical_serialize(value).ok(), which is what the footer records.
Output(value) == IF value \in Unserializable THEN NoOutput ELSE value

\* Fault: one call less than the Vm allows.
PolicyForOneShort ==
  [allowed_domains |-> {}, allowed_http_methods |-> {},
   max_tool_calls |-> VmMaxToolCalls - 1,
   max_payload_bytes_per_call |-> bytesIn,
   schema_versions |-> [d \in ReadDomains |-> Payloads]]

\* gateway_trace::policy_for.
PolicyFor ==
  [allowed_domains |-> {}, allowed_http_methods |-> {},
   max_tool_calls |-> VmMaxToolCalls,
   max_payload_bytes_per_call |-> bytesIn,
   schema_versions |-> [d \in ReadDomains |-> Payloads]]

-----------------------------------------------------------------------------
(* The store. *)

GatewayInit ==
  /\ bytesIn = 0
  /\ gwPc = "recording"
  /\ source = "matches"
  /\ footer = [output |-> NoOutput, calls |-> 0]
  /\ edits = 0
  /\ strictSeen = << >>
  /\ replayed = NonInteger
  /\ predicted = NoClaim
  /\ written = 0

\* The gateway signs and stores the trace of a run, completed or not.
StoreTrace ==
  /\ gwPc = "recording"
  /\ dryPc # "running"
  /\ gwPc' = "stored"
  /\ bytesIn' \in ByteLimits
  /\ footer' = [output |-> IF dryPc = "recorded" THEN Output(dryReturn) ELSE NoOutput,
                calls  |-> Len(tape)]
  /\ UNCHANGED <<vars, source, edits, strictSeen, replayed, predicted, written>>

\* What a record of a gateway run holds.
RecordedEntries == {ErrEntry("tool_failed")} \cup {OkEntry(p) : p \in Payloads}

\* One record, the footer or the program file is not what was stored.
EditRecords ==
  /\ \/ \E i \in 1..Len(tape), entry \in RecordedEntries :
          /\ tape' = [tape EXCEPT ![i] = entry]
          /\ UNCHANGED <<tapeCalls, tapeAtts>>
     \/ \E i \in 1..Len(tape), call \in Calls :
          /\ tapeCalls' = [tapeCalls EXCEPT ![i] = call]
          /\ UNCHANGED <<tape, tapeAtts>>
     \/ /\ tape # << >>
        /\ tape' = SubSeq(tape, 1, Len(tape) - 1)
        /\ tapeCalls' = SubSeq(tapeCalls, 1, Len(tape) - 1)
        /\ tapeAtts' = SubSeq(tapeAtts, 1, Len(tape) - 1)
     \/ \E call \in Calls, entry \in RecordedEntries :
          /\ tape' = Append(tape, entry)
          /\ tapeCalls' = Append(tapeCalls, call)
          /\ tapeAtts' = Append(tapeAtts, NoAttestation)
  /\ UNCHANGED <<footer, source>>

EditFooter ==
  /\ \/ \E output \in Values \cup {NoOutput} : footer' = [footer EXCEPT !.output = output]
     \/ \E calls \in 0..VmMaxToolCalls : footer' = [footer EXCEPT !.calls = calls]
  /\ UNCHANGED <<tape, tapeCalls, tapeAtts, source>>

EditSource ==
  /\ source' \in {"differs", "unreadable"}
  /\ UNCHANGED <<tape, tapeCalls, tapeAtts, footer>>

EditTrace ==
  /\ gwPc = "stored"
  /\ edits < MaxEdits
  /\ edits' = edits + 1
  /\ EditRecords \/ EditFooter \/ EditSource
  /\ UNCHANGED <<prog, dryPc, dryPolicy, dryReturn, forwarded, guestVars, bytesIn, gwPc,
                 strictSeen, replayed, predicted, written>>

-----------------------------------------------------------------------------
(* reconstruct: the strict replay. *)

\* The source is read through store_path, compiled and verified, and must hash
\* to the header's program_hash; then the strict replay starts.
StartReconstruct ==
  /\ gwPc = "stored"
  /\ gwPc' = IF source = "matches" THEN "strict" ELSE "refused"
  /\ UNCHANGED <<vars, bytesIn, source, footer, edits, strictSeen, replayed, predicted,
                 written>>

\* Fault: the recorded call is not compared, as in the guest.
StrictServesAny(call) == Len(strictSeen) < Len(tape)

\* TapeHost::strict serves a call only where that very call was recorded.
StrictServes(call) ==
  /\ Len(strictSeen) < Len(tape)
  /\ tapeCalls[Len(strictSeen) + 1] = call

StrictMakesCall(call, caught) ==
  /\ gwPc = "strict"
  /\ Decides(strictSeen, CallStep(call, caught))
  /\ UNCHANGED <<dryVars, guestVars, bytesIn, source, footer, edits, replayed, predicted, written>>

StrictCallServed(call, caught) ==
  /\ Len(strictSeen) < VmMaxToolCalls
  /\ StrictServes(call)
  /\ StrictMakesCall(call, caught)
  /\ strictSeen' = Append(strictSeen, tape[Len(strictSeen) + 1])
  /\ gwPc' = IF tape[Len(strictSeen) + 1].ok \/ caught THEN "strict" ELSE "refused"

\* Fault: a call that was not recorded is dropped and the replay waits on.
StrictCallDropped(call, caught) ==
  /\ Len(strictSeen) = VmMaxToolCalls \/ ~ StrictServes(call)
  /\ StrictMakesCall(call, caught)
  /\ UNCHANGED <<gwPc, strictSeen>>

\* A divergence, or a call the Vm does not allow: whatever the run still does,
\* it ends without a result or is a mismatch.
StrictCallRefused(call, caught) ==
  /\ Len(strictSeen) = VmMaxToolCalls \/ ~ StrictServes(call)
  /\ StrictMakesCall(call, caught)
  /\ gwPc' = "refused"
  /\ UNCHANGED strictSeen

\* Fault: entries left on the tape are not looked for.
MatchesRecordingPrefix(value) ==
  /\ Output(value) = footer.output
  /\ Len(strictSeen) = footer.calls

\* The mismatches reconstruct collects: entries left over, another output,
\* gas_used or memory_used that differ (as they do after other calls).
MatchesRecording(value) ==
  /\ Len(strictSeen) = Len(tape)
  /\ Output(value) = footer.output
  /\ Len(strictSeen) = footer.calls

\* The strict replay returns; if it matches the recording its output goes into
\* the DryRunResult, and the guest replay starts with the payload check.
StrictReturn(value) ==
  /\ gwPc = "strict"
  /\ Decides(strictSeen, ReturnStep(value))
  /\ IF MatchesRecording(value) /\ TapePayloadsFit(PolicyFor)
       THEN /\ gwPc' = "guest"
            /\ guestPc' = "replaying"
            /\ guestPolicy' = PolicyFor
            /\ dryReturn' = value
       ELSE /\ gwPc' = "refused"
            /\ UNCHANGED <<guestPc, guestPolicy, dryReturn>>
  /\ UNCHANGED <<dryPc, dryPolicy, tapeCalls, tape, tapeAtts, forwarded, guestCalls,
                 guestSeen, cursor, callsMade, served, claim, bytesIn, source,
                 footer, edits, strictSeen, replayed, predicted, written>>

-----------------------------------------------------------------------------
(* reconstruct: replay_public_inputs, and the files. *)

GuestCalls ==
  /\ gwPc = "guest"
  /\ \E call \in Calls, caught \in BOOLEAN :
       \/ GuestCallRefused(call, caught)
       \/ GuestCallServed(call, caught)
       \/ GuestCallExhausted(call, caught)
       \/ GuestCallOverLimit(call, caught)
  /\ gwPc' = IF guestPc' = "failed" THEN "refused" ELSE "guest"
  /\ UNCHANGED <<bytesIn, source, footer, edits, strictSeen, replayed, predicted, written>>

\* Unlike the driver, reconstruct does not compare the return values.
GuestFinishes(value) ==
  /\ gwPc = "guest"
  /\ guestPc = "replaying"
  /\ Decides(guestSeen, ReturnStep(value))
  /\ guestPc' = "claimed"
  /\ claim' = PublicInputs(guestPolicy, value)
  /\ replayed' = value
  /\ predicted' = claim'
  /\ gwPc' = "reconstructed"
  /\ UNCHANGED <<dryVars, guestPolicy, guestCalls, guestSeen, cursor, callsMade,
                 served, bytesIn, source, footer, edits, strictSeen, written>>

\* Fault: the files are written while the guest replay is still to come.
WriteFileEarly ==
  /\ gwPc \in {"guest", "reconstructed"}
  /\ written < 4
  /\ \/ written' = written + 1 /\ UNCHANGED gwPc
     \/ gwPc' = "refused" /\ UNCHANGED written
  /\ UNCHANGED <<vars, bytesIn, source, footer, edits, strictSeen, replayed, predicted>>

\* compiled.json, dry.json, policy.json, vm_config.json, in this order; a
\* write that fails ends the process.
WriteFile ==
  /\ gwPc = "reconstructed"
  /\ written < 4
  /\ \/ written' = written + 1 /\ UNCHANGED gwPc
     \/ gwPc' = "refused" /\ UNCHANGED written
  /\ UNCHANGED <<vars, bytesIn, source, footer, edits, strictSeen, replayed, predicted>>

ReplayStep ==
  \/ \E call \in Calls, caught \in BOOLEAN :
       StrictCallServed(call, caught) \/ StrictCallRefused(call, caught)
  \/ \E value \in Values : StrictReturn(value) \/ GuestFinishes(value)
  \/ GuestCalls

-----------------------------------------------------------------------------
(* proveno-openvm-host on the files. *)

DriverInit ==
  /\ driverPc = "idle"
  /\ flags = [policy |-> FALSE, config |-> FALSE, private |-> FALSE]
  /\ expected = NoClaim
  /\ inputFile = NoClaim
  /\ proofFile = NoClaim

\* The files the command line names are there, the replay completes under the
\* limits it is given, and it returns what the DryRunResult says.
DriverReplays(f) ==
  /\ written >= (IF f.config THEN 4 ELSE IF f.policy THEN 3 ELSE 2)
  /\ f.config \/ Len(tape) <= DefaultMaxToolCalls
  /\ Output(replayed) = Output(dryReturn)

\* Up to the check for divergence; --proof may name the proof of an earlier run.
\* replay_public_inputs is a function of the
\* program, the tape (guest_tape drops only the calls, which no commitment and
\* no guest looks at) and the policy, so it answers as it did in reconstruct;
\* without --policy there is no policy host and nothing to commit to.
DriverLoads(f) ==
  /\ driverPc = "idle"
  /\ predicted # NoClaim
  /\ flags' = f
  /\ proofFile' \in {NoClaim, ForeignInputs}
  /\ IF DriverReplays(f)
       THEN /\ driverPc' = "replayed"
            /\ expected' = [predicted EXCEPT
                 !.policy_hash = IF f.policy THEN PolicyFor ELSE NoPolicy]
       ELSE /\ driverPc' = "failed"
            /\ UNCHANGED expected
  /\ UNCHANGED inputFile

DriverWrites ==
  /\ driverPc = "replayed"
  /\ driverPc' = "written"
  /\ inputFile' = expected
  /\ UNCHANGED <<flags, expected, proofFile>>

\* Fault: the exit status of cargo openvm is not looked at.
DriverProvesUnchecked ==
  /\ driverPc = "written"
  /\ driverPc' = "proved"
  /\ proofFile' = inputFile \/ UNCHANGED proofFile
  /\ UNCHANGED <<flags, expected, inputFile>>

\* cargo openvm prove reads the input file anew; when it fails the driver stops.
DriverProves ==
  /\ driverPc = "written"
  /\ \/ driverPc' = "proved" /\ proofFile' = inputFile
     \/ driverPc' = "failed" /\ UNCHANGED proofFile
  /\ UNCHANGED <<flags, expected, inputFile>>

\* cargo openvm verify accepts any proof of the guest; it is not told the digest.
DriverVerifies ==
  /\ driverPc = "proved"
  /\ driverPc' = IF proofFile = NoClaim THEN "failed" ELSE "verified"
  /\ UNCHANGED <<flags, expected, inputFile, proofFile>>

\* Another driver in the same directory, with the default file names.
OtherDriver ==
  /\ driverPc \in {"written", "proved"}
  /\ ~ flags.private
  /\ \/ inputFile' = ForeignInputs /\ UNCHANGED proofFile
     \/ proofFile' = ForeignInputs /\ UNCHANGED inputFile
  /\ UNCHANGED <<driverPc, flags, expected>>

DriverNext ==
  \/ \E policy, config, private \in BOOLEAN :
       DriverLoads([policy |-> policy, config |-> config, private |-> private])
  \/ DriverWrites
  \/ DriverProves
  \/ DriverVerifies
  \/ OtherDriver

-----------------------------------------------------------------------------
TraceInit == Init /\ GatewayInit /\ DriverInit

RecordStep == gwPc = "recording" /\ DryNext /\ UNCHANGED <<guestVars, gatewayVars>>

GatewayNext ==
  \/ RecordStep
  \/ StoreTrace
  \/ EditTrace
  \/ StartReconstruct
  \/ ReplayStep
  \/ WriteFile

TraceNext ==
  \/ GatewayNext /\ UNCHANGED driverVars
  \/ DriverNext /\ UNCHANGED <<vars, gatewayVars>>

\* Both replays are single-threaded Vm loops.
TraceSpec == TraceInit /\ [][TraceNext]_traceVars
FairTraceSpec == TraceSpec /\ WF_traceVars(ReplayStep /\ UNCHANGED driverVars)

-----------------------------------------------------------------------------
(* Properties. *)

\* Type invariant of the reconstruction and the driver.
TraceTypeOK ==
  /\ TypeOK
  /\ bytesIn \in Nat
  /\ gwPc \in {"recording", "stored", "strict", "guest", "reconstructed", "refused"}
  /\ source \in {"matches", "differs", "unreadable"}
  /\ footer \in [output : Values \cup {NoOutput}, calls : Nat]
  /\ edits \in 0..MaxEdits
  /\ strictSeen \in Seq(Entries)
  /\ replayed \in Values \cup {NonInteger}
  /\ written \in 0..4
  /\ written > 0 => guestPc = "claimed"
  /\ driverPc \in {"idle", "replayed", "written", "proved", "verified", "failed"}
  /\ flags \in [policy : BOOLEAN, config : BOOLEAN, private : BOOLEAN]

\* Whatever was edited in the store, what is reconstructed is an execution: the
\* stored program makes exactly the recorded calls, gets exactly the recorded
\* answers and returns the recorded output (gateway_trace.rs:117-122, 169-215).
ReconstructionIsRun ==
  predicted # NoClaim =>
    /\ source = "matches"
    /\ IsRunOf(prog, tapeCalls, tape)
    /\ Returns(prog, tape, dryReturn)
    /\ Output(dryReturn) = footer.output
    /\ Len(tape) = footer.calls

\* The guest replay repeats the strict one call by call and reads the whole
\* tape, although it checks no call and stands behind a policy: policy_for's
\* policy refuses nothing (gateway_trace.rs:217-232).
GuestRepeatsStrictReplay ==
  /\ gwPc = "guest" =>
       /\ guestSeen = SubSeq(tape, 1, Len(guestSeen))
       /\ guestCalls = SubSeq(tapeCalls, 1, Len(guestSeen))
  /\ predicted # NoClaim =>
       /\ guestSeen = tape
       /\ guestCalls = tapeCalls
       /\ replayed = dryReturn

\* The trace of a completed run, as the gateway stored it, is refused for one
\* reason only: an answer longer than max_tool_bytes_in, which an error may be.
GenuineTraceReconstructs ==
  gwPc = "refused" /\ guestPc # "claimed" /\ edits = 0 /\ dryPc = "recorded" =>
    ~ TapePayloadsFit(PolicyFor)

\* The public inputs of the reconstruction are those the guest reveals
\* (gateway_trace.rs:75-76), when the driver is given the policy written next to
\* them and files no other driver writes; a proof left by an earlier run, or a
\* failed command, does not get in between.
PredictionIsRevealed ==
  driverPc = "verified" /\ flags.policy /\ flags.private => proofFile = predicted

\* A reconstruction that starts to replay is made or refused.
ReconstructionEnds ==
  gwPc \in {"strict", "guest"} ~> gwPc \in {"reconstructed", "refused"}
=============================================================================
