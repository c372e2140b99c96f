---------------------------- MODULE GuestReplay ----------------------------
(***************************************************************************)
(* Phase 2 on the OpenVM path: proveno-openvm-host loads the DryRunResult, *)
(* attaches a policy, and replays the program against the tape with        *)
(* GuestInput::replay_public_inputs, the same function the zkVM guest      *)
(* proves.  With a policy, PolicyEnforcingHost stands between the program  *)
(* and the TapeHost; the driver then compares the replayed return value    *)
(* with the recorded one before it proves.                                 *)
(*                                                                         *)
(* The policy is chosen anew here: nothing checks that it is the one the   *)
(* dry run was given.                                                      *)
(***************************************************************************)
EXTENDS DryRun

CONSTANTS
  GuestPolicies,  \* the policies (or NoPolicy) the replay may be given
  NoClaim         \* nothing proved yet

ASSUME GuestReplayAssumption ==
  /\ GuestPolicies \subseteq Policies \cup {NoPolicy}

VARIABLES
  guestPc,      \* "idle", "replaying", "claimed", "failed"
  guestPolicy,  \* the parsed policy_canonical
  guestCalls,   \* history: the calls the replayed program made
  guestSeen,    \* what each of them was answered
  cursor,       \* TapeHost: entries handed out so far
  callsMade,    \* PolicyEnforcingHost.calls_made
  served,       \* history: position in guestCalls of each call the TapeHost answered
  claim         \* the PublicInputs the proof reveals, or NoClaim

guestVars == <<guestPc, guestPolicy, guestCalls, guestSeen, cursor, callsMade,
               served, claim>>
vars == <<prog, dryVars, guestVars>>

\* commitment::compute_public_inputs_sha256_with_policy_hash, each hash being
\* the value it binds.  program_hash and input_hash are recomputed from the one
\* program and the one input (Nil) there are.
PublicInputs(policy, value) ==
  [policy_hash         |-> policy,
   tool_responses_hash |-> tape,
   attestation_hash    |-> tapeAtts,
   output_hash         |-> ReturnValueI64(value)]

\* GuestInput::check_tape_payload_sizes: every entry, errors included.
TapePayloadsFit(policy) ==
  \A i \in 1..Len(tape) : BodySize[tape[i].body] <= policy.max_payload_bytes_per_call

\* Faults: the cap compared before the call is counted; with >= for >.
VerdictCountsLate(call) ==
  IF guestPolicy = NoPolicy THEN Permitted
  ELSE IF callsMade > guestPolicy.max_tool_calls THEN "limit_exceeded"
  ELSE IF IsHttpTool(call.tool) THEN CheckHttpCall(guestPolicy, call)
  ELSE Permitted

VerdictOneShort(call) ==
  IF guestPolicy = NoPolicy THEN Permitted
  ELSE IF callsMade + 1 >= guestPolicy.max_tool_calls THEN "limit_exceeded"
  ELSE IF IsHttpTool(call.tool) THEN CheckHttpCall(guestPolicy, call)
  ELSE Permitted

\* PolicyEnforcingHost::call_tool, the part before inner.call_tool: the call is
\* counted first, so the cap is compared with a count that includes it.
Verdict(call) ==
  IF guestPolicy = NoPolicy THEN Permitted
  ELSE IF callsMade + 1 > guestPolicy.max_tool_calls THEN "limit_exceeded"
  ELSE IF IsHttpTool(call.tool) THEN CheckHttpCall(guestPolicy, call)
  ELSE Permitted

-----------------------------------------------------------------------------
GuestInit ==
  /\ guestPc = "idle"
  /\ guestPolicy = NoPolicy
  /\ guestCalls = << >>
  /\ guestSeen = << >>
  /\ cursor = 0
  /\ callsMade = 0
  /\ served = << >>
  /\ claim = NoClaim

\* The driver loads the dry run and a policy; a tape with an entry over the
\* policy's payload cap is refused before the program starts.
StartReplay(policy) ==
  /\ dryPc = "recorded"
  /\ guestPc = "idle"
  /\ guestPolicy' = policy
  /\ guestPc' = IF policy = NoPolicy \/ TapePayloadsFit(policy)
                  THEN "replaying" ELSE "failed"
  /\ UNCHANGED <<prog, dryVars, guestCalls, guestSeen, cursor, callsMade,
                 served, claim>>

\* Fault: only a call the policy lets through is counted.
GuestMakesCallFreeProbe(call, caught) ==
  /\ guestPc = "replaying"
  /\ Len(guestSeen) < VmMaxToolCalls
  /\ Decides(guestSeen, CallStep(call, caught))
  /\ guestCalls' = Append(guestCalls, call)
  /\ callsMade' = IF guestPolicy # NoPolicy /\ Verdict(call) = Permitted
                    THEN callsMade + 1 ELSE callsMade

\* The replayed program makes its next call, which is counted when a policy
\* host is there to count it.
GuestMakesCall(call, caught) ==
  /\ guestPc = "replaying"
  /\ Len(guestSeen) < VmMaxToolCalls
  /\ Decides(guestSeen, CallStep(call, caught))
  /\ guestCalls' = Append(guestCalls, call)
  /\ callsMade' = IF guestPolicy = NoPolicy THEN callsMade ELSE callsMade + 1

\* The call is answered: an uncaught error ends the replay.
GuestObserves(entry, caught) ==
  /\ guestSeen' = Append(guestSeen, entry)
  /\ guestPc' = IF entry.ok \/ caught THEN "replaying" ELSE "failed"
  /\ UNCHANGED <<dryVars, guestPolicy, claim>>

\* The policy refuses the call and the TapeHost never hears of it.
GuestCallRefused(call, caught) ==
  /\ Verdict(call) # Permitted
  /\ GuestMakesCall(call, caught)
  /\ GuestObserves(ErrEntry(Verdict(call)), caught)
  /\ UNCHANGED <<cursor, served>>

\* TapeHost: the next entry, whatever the call was.
GuestCallServed(call, caught) ==
  /\ Verdict(call) = Permitted
  /\ cursor < Len(tape)
  /\ GuestMakesCall(call, caught)
  /\ GuestObserves(tape[cursor + 1], caught)
  /\ cursor' = cursor + 1
  /\ served' = Append(served, Len(guestSeen) + 1)

\* TapeHost: no entry left.
GuestCallExhausted(call, caught) ==
  /\ Verdict(call) = Permitted
  /\ cursor = Len(tape)
  /\ GuestMakesCall(call, caught)
  /\ GuestObserves(ErrEntry("tape_exhausted"), caught)
  /\ UNCHANGED <<cursor, served>>

\* One call more than the Vm allows stops the replay.
GuestCallOverLimit(call, caught) ==
  /\ guestPc = "replaying"
  /\ Len(guestSeen) = VmMaxToolCalls
  /\ Decides(guestSeen, CallStep(call, caught))
  /\ guestPc' = "failed"
  /\ UNCHANGED <<dryVars, guestPolicy, guestCalls, guestSeen, cursor,
                 callsMade, served, claim>>

\* Faults: the driver does not compare the returned values; it compares what
\* they are committed as.
GuestReturnUncompared(value) ==
  /\ guestPc = "replaying"
  /\ Decides(guestSeen, ReturnStep(value))
  /\ guestPc' = "claimed"
  /\ claim' = PublicInputs(guestPolicy, value)
  /\ UNCHANGED <<dryVars, guestPolicy, guestCalls, guestSeen, cursor,
                 callsMade, served>>

GuestReturnSameOutput(value) ==
  /\ ReturnValueI64(value) = ReturnValueI64(dryReturn)
  /\ GuestReturnUncompared(value)

\* The replayed program returns.  The driver refuses a return value other than
\* the recorded one, and otherwise has the guest's public inputs proved.
GuestReturn(value) ==
  /\ guestPc = "replaying"
  /\ Decides(guestSeen, ReturnStep(value))
  /\ IF value = dryReturn
       THEN /\ guestPc' = "claimed"
            /\ claim' = PublicInputs(guestPolicy, value)
       ELSE /\ guestPc' = "failed"
            /\ UNCHANGED claim
  /\ UNCHANGED <<dryVars, guestPolicy, guestCalls, guestSeen, cursor,
                 callsMade, served>>

GuestStep ==
  \/ \E call \in Calls, caught \in BOOLEAN :
       \/ GuestCallRefused(call, caught)
       \/ GuestCallServed(call, caught)
       \/ GuestCallExhausted(call, caught)
       \/ GuestCallOverLimit(call, caught)
  \/ \E value \in Values : GuestReturn(value)

Init == DryInit /\ GuestInit

Next ==
  \/ DryNext /\ UNCHANGED guestVars
  \/ \E policy \in GuestPolicies : StartReplay(policy)
  \/ GuestStep

\* A replay in progress is a single-threaded Vm loop: it keeps taking steps.
\* Nothing makes the operator start one, and nothing makes the network answer.
Spec == Init /\ [][Next]_vars
FairSpec == Spec /\ WF_vars(GuestStep)

-----------------------------------------------------------------------------
(* Properties. *)

\* Type invariant of the replay state.
TypeOK ==
  /\ DryTypeOK
  /\ guestPc \in {"idle", "replaying", "claimed", "failed"}
  /\ guestPolicy \in Policies \cup {NoPolicy}
  /\ guestCalls \in Seq(Calls)
  /\ guestSeen \in Seq(Entries)
  /\ cursor \in Nat
  /\ callsMade \in Nat
  /\ served \in Seq(Nat)
  /\ claim \in [policy_hash : Policies \cup {NoPolicy},
               tool_responses_hash : Seq(Entries),
               attestation_hash : Seq(Attestations \cup {NoAttestation}),
               output_hash : (Values \ {NonInteger}) \cup {0}] \cup {NoClaim}

\* What policy_hash claims of an execution (guest_input.rs:67-78): however the
\* dry run was made, and even if it enforced nothing, every response the
\* replayed program was served answers a call the committed policy admits,
\* there are at most max_tool_calls of them, and none is over the payload cap.
ServedWithinPolicy ==
  guestPc \in {"replaying", "claimed"} /\ guestPolicy # NoPolicy =>
    /\ Len(served) <= guestPolicy.max_tool_calls
    /\ \A k \in 1..Len(served) :
         /\ Admits(guestPolicy, guestCalls[served[k]])
         /\ BodySize[guestSeen[served[k]].body] <= guestPolicy.max_payload_bytes_per_call

\* A refused call consumes budget (guest.rs:50-51): whatever mixture of refused
\* and served calls came first, no call after the max_tool_calls-th gets
\* anything but the limit error, so disallowed hosts cannot be probed for free.
RefusedCallsSpendBudget ==
  guestPolicy # NoPolicy =>
    \A i \in 1..Len(guestSeen) :
      i > guestPolicy.max_tool_calls => guestSeen[i] = ErrEntry("limit_exceeded")

\* A claim stands for an execution of the program: the recorded one's return
\* value is what the program returns on the answers it was given, each
\* successful answer is an entry of the committed tape, and the entries were
\* consumed in tape order without a gap (guest_input.rs:52-62).
ClaimIsExecution ==
  claim # NoClaim =>
    /\ IsRunOf(prog, guestCalls, guestSeen)
    /\ Returns(prog, guestSeen, dryReturn)
    /\ claim.output_hash = IF dryReturn = NonInteger THEN 0 ELSE dryReturn
    /\ claim.policy_hash = guestPolicy
    /\ claim.tool_responses_hash = tape
    /\ \A k \in 1..Len(served) : guestSeen[served[k]] = tape[k]
    /\ \A i \in 1..Len(guestSeen) :
         guestSeen[i].ok => \E k \in 1..Len(served) : served[k] = i

\* The recorded run is one the policy would have let through unchanged.
Admissible(policy) ==
  policy # NoPolicy =>
    /\ Len(tape) <= policy.max_tool_calls
    /\ \A i \in 1..Len(tapeCalls) : Admits(policy, tapeCalls[i])

\* Replaying a run the policy admits is replaying the dry run: call by call the
\* same calls and the same answers, and by the time of the claim every recorded
\* entry has been consumed (guest_input.rs:64-65).
GuestTracksDryRun ==
  guestPc \in {"replaying", "claimed"} /\ Admissible(guestPolicy) =>
    /\ cursor = Len(guestSeen)
    /\ Len(guestSeen) <= Len(tape)
    /\ guestSeen = SubSeq(tape, 1, Len(guestSeen))
    /\ guestCalls = SubSeq(tapeCalls, 1, Len(guestSeen))
    /\ guestPc = "claimed" => guestSeen = tape

\* A run the policy admits is provable: once its payloads pass the size check,
\* neither an error, an exhausted tape, a Vm limit nor the divergence check
\* ends the replay (mod.rs:460-461, the direction that holds).
AdmissibleRunIsProvable ==
  guestPc = "failed" /\ Admissible(guestPolicy) =>
    guestPolicy # NoPolicy /\ ~ TapePayloadsFit(guestPolicy)

\* ... and under the Vm loop's fairness it is proved.
AdmissibleRunIsProved ==
  (guestPc = "replaying" /\ Admissible(guestPolicy)) ~> (guestPc = "claimed")

\* What guest_input.rs:64-65 says of every replay: "the run is bit-identical to
\* the host dry run that produced the tape".
ReplayIsBitIdentical ==
  guestPc = "claimed" /\ guestPolicy = dryPolicy => guestSeen = tape

\* What the test at mod.rs:460-461 asks for: a run the dry run permitted does
\* not become unprovable under the same policy.
PermittedRunIsProvable ==
  guestPolicy = dryPolicy => guestPc # "failed"
=============================================================================
