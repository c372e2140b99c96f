------------------------------- MODULE DryRun -------------------------------
(***************************************************************************)
(* Phase 1 of the proving pipeline: proveno-witness runs the compiled      *)
(* program once against the live ProverHost, through OraclePolicyHost when *)
(* a policy is given, and records the oracle tape every later phase        *)
(* replays (Prover::dry_run, Prover::dry_run_with_policy).                 *)
(*                                                                         *)
(* The program is deterministic bytecode: its next step is a function of   *)
(* the tool results it has seen.  prog is that function, sampled when a    *)
(* history is first reached and remembered, so that every program over     *)
(* the given calls and values is explored and a replay runs the program    *)
(* the dry run ran.  The Vm, the ToolRegistry and the OracleTape are in    *)
(* proveno-core, outside this repository; they are modelled from the way   *)
(* the code here uses them.                                                *)
(***************************************************************************)
EXTENDS Policy, Sequences

CONSTANTS
  Values,         \* what a program may return
  NonInteger,     \* the return value that is not an i64
  BodySize,       \* canonical byte length of every payload and message
  Attestations,   \* provenance blobs the live host may source for a response
  NoAttestation,  \* the empty blob
  VmMaxToolCalls, \* VmConfig::max_tool_calls, at which the Vm stops a run
  DryPolicies     \* the policies (or NoPolicy) a dry run may be given

\* Error messages a program can observe, by what raised them.
Messages == {"method_denied", "domain_denied", "schema_mismatch",
             "tool_failed", "limit_exceeded", "tape_exhausted"}
Bodies == Payloads \cup Messages

ASSUME DryRunAssumption ==
  /\ VmMaxToolCalls \in Nat
  /\ BodySize \in [Bodies -> Nat]
  /\ NoPolicy \notin Policies
  /\ DryPolicies \subseteq Policies \cup {NoPolicy}

\* TapeEntry::Ok(bytes) and TapeEntry::Err(message), which are also what the
\* program observes.
Entries == [ok : BOOLEAN, body : Bodies]
OkEntry(payload) == [ok |-> TRUE, body |-> payload]
ErrEntry(message) == [ok |-> FALSE, body |-> message]

\* A step of the program: a tool call, made under pcall or bare, or a return.
CallSteps == [op : {"call"}, call : Calls, caught : BOOLEAN]
ReturnSteps == [op : {"return"}, value : Values]
CallStep(call, caught) == [op |-> "call", call |-> call, caught |-> caught]
ReturnStep(value) == [op |-> "return", value |-> value]

VARIABLES
  prog,       \* the program: partial function from histories to steps
  dryPc,      \* "running", "recorded" (the DryRunResult is written), "failed"
  dryPolicy,  \* the policy given to the dry run, or NoPolicy
  tapeCalls,  \* OracleTape.calls: the calls in the order they were recorded
  tape,       \* OracleTape.entries: what each call was answered
  tapeAtts,   \* OracleTape.attestations: the blob sourced for each call
  dryReturn,  \* the return value in the DryRunResult
  forwarded   \* history: the calls OraclePolicyHost handed to the live host

dryVars == <<dryPc, dryPolicy, tapeCalls, tape, tapeAtts, dryReturn, forwarded>>

-----------------------------------------------------------------------------
\* The program takes step s after history h: a new choice if h is new.
Decides(h, s) ==
  /\ h \in DOMAIN prog => prog[h] = s
  /\ prog' = [g \in DOMAIN prog \cup {h} |-> IF g = h THEN s ELSE prog[g]]

\* Fault: the return value is committed as it is, integer or not.
ReturnValueUnchecked(value) == value

\* commitment::return_value_i64: anything but an integer proves as 0.
ReturnValueI64(value) == IF value = NonInteger THEN 0 ELSE value

\* ProverHost has no http_post tool, and http_get needs a url argument.
Unanswerable(call) ==
  call.tool = "http_post" \/ (call.tool = "http_get" /\ call.url = NoUrl)

\* ProverHost::call_tool: any call may fail (transport, arguments, the clock),
\* and one it has the arguments for may be answered with any payload: what the
\* client makes of the url, and who answers, is the network's choice.
LiveAnswers(call) ==
  {ErrEntry("tool_failed")} \cup
  {OkEntry(p) : p \in IF Unanswerable(call) THEN {} ELSE Payloads}

\* Fault: a call no domain is read from defaults to permitted.
HostForwardsNoUrl(call) ==
  \/ dryPolicy = NoPolicy
  \/ ~ IsHttpTool(call.tool)
  \/ DomainOf(call) = NoDomain
  \/ CheckHttpCall(dryPolicy, call) = Permitted

\* OraclePolicyHost::call_tool lets the call through to the live host.
HostForwards(call) ==
  \/ dryPolicy = NoPolicy
  \/ ~ IsHttpTool(call.tool)
  \/ CheckHttpCall(dryPolicy, call) = Permitted

\* What OraclePolicyHost hands back when the live host would answer `live`:
\* a denial, a schema failure in place of the response, or the response.
HostAnswer(call, live) ==
  IF ~ HostForwards(call)
    THEN ErrEntry(CheckHttpCall(dryPolicy, call))
  ELSE IF /\ dryPolicy # NoPolicy
          /\ IsHttpTool(call.tool)
          /\ live.ok
          /\ ~ CheckResponseSchema(dryPolicy, call, live.body)
    THEN ErrEntry("schema_mismatch")
  ELSE live

-----------------------------------------------------------------------------
DryInit ==
  /\ prog = << >>
  /\ dryPc = "running"
  /\ dryPolicy \in DryPolicies
  /\ tapeCalls = << >>
  /\ tape = << >>
  /\ tapeAtts = << >>
  /\ dryReturn = NonInteger
  /\ forwarded = {}

\* One tool call.  The registry records the outcome, error or not, and an
\* error the program does not catch ends the run (VmError::ToolError).
DryCall(call, caught) ==
  /\ dryPc = "running"
  /\ Len(tape) < VmMaxToolCalls
  /\ Decides(tape, CallStep(call, caught))
  /\ \E live \in LiveAnswers(call), att \in Attestations \cup {NoAttestation} :
       LET entry == HostAnswer(call, live) IN
       /\ tapeCalls' = Append(tapeCalls, call)
       /\ tape' = Append(tape, entry)
       /\ tapeAtts' = Append(tapeAtts, att)
       /\ dryPc' = IF entry.ok \/ caught THEN "running" ELSE "failed"
  /\ forwarded' = IF HostForwards(call) THEN forwarded \cup {call} ELSE forwarded
  /\ UNCHANGED <<dryPolicy, dryReturn>>

\* One call more than the Vm allows: the run stops and nothing is written.
DryCallOverLimit(call, caught) ==
  /\ dryPc = "running"
  /\ Len(tape) = VmMaxToolCalls
  /\ Decides(tape, CallStep(call, caught))
  /\ dryPc' = "failed"
  /\ UNCHANGED <<dryPolicy, tapeCalls, tape, tapeAtts, dryReturn, forwarded>>

\* The program returns: OracleTape::from_records, and the result is written.
DryReturn(value) ==
  /\ dryPc = "running"
  /\ Decides(tape, ReturnStep(value))
  /\ dryReturn' = value
  /\ dryPc' = "recorded"
  /\ UNCHANGED <<dryPolicy, tapeCalls, tape, tapeAtts, forwarded>>

DryNext ==
  \/ \E call \in Calls, caught \in BOOLEAN :
       DryCall(call, caught) \/ DryCallOverLimit(call, caught)
  \/ \E value \in Values : DryReturn(value)

-----------------------------------------------------------------------------
DryTypeOK ==
  /\ DOMAIN prog \subseteq Seq(Entries)
  /\ \A h \in DOMAIN prog : prog[h] \in CallSteps \cup ReturnSteps
  /\ dryPc \in {"running", "recorded", "failed"}
  /\ dryPolicy \in Policies \cup {NoPolicy}
  /\ tapeCalls \in Seq(Calls)
  /\ tape \in Seq(Entries)
  /\ tapeAtts \in Seq(Attestations \cup {NoAttestation})
  /\ dryReturn \in Values \cup {NonInteger}
  /\ forwarded \subseteq Calls

\* Host-side gate (host.rs:38-54): under a policy, an HTTP call whose tool or
\* whose domain, as extract_domain reads it, is not on the lists is not handed
\* to the live host, and no domain read is no way around them; what the program
\* and the tape get for it is a denial and never a response; and a response the
\* schema of that domain rejects is never a success.  It says nothing of the
\* hosts the HTTP client contacts for a call it is handed.
DryRunGate ==
  dryPolicy # NoPolicy =>
    /\ \A call \in forwarded : Admits(dryPolicy, call)
    /\ \A i \in 1..Len(tape) : IsHttpTool(tapeCalls[i].tool) =>
         /\ ~ Admits(dryPolicy, tapeCalls[i]) =>
              tape[i] \in {ErrEntry("method_denied"), ErrEntry("domain_denied")}
         /\ tape[i].ok =>
              tape[i].body \in dryPolicy.schema_versions[DomainOf(tapeCalls[i])]

\* calls and seen are a run of program p that has not died: at each history it
\* made that call, and it went on from the answer.
IsRunOf(p, calls, seen) ==
  /\ Len(calls) = Len(seen)
  /\ \A i \in 1..Len(seen) :
       /\ SubSeq(seen, 1, i - 1) \in DOMAIN p
       /\ \E caught \in BOOLEAN :
            /\ p[SubSeq(seen, 1, i - 1)] = CallStep(calls[i], caught)
            /\ seen[i].ok \/ caught

\* Program p, after the answers in seen, returns value.
Returns(p, seen, value) == seen \in DOMAIN p /\ p[seen] = ReturnStep(value)
=============================================================================
