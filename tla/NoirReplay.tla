----------------------------- MODULE NoirReplay -----------------------------
(***************************************************************************)
(* Phase 2 on the Noir path: prove_from_artifacts encodes the program,     *)
(* replays it against a bare TapeHost to record an instruction trace,      *)
(* builds the fixed-size witness from the recorded tape, and proves the    *)
(* circuit of src/noir over it.  No policy is applied: policy_hash is      *)
(* copied from the DryRunResult.                                           *)
(*                                                                         *)
(* A hash is modelled as the value it binds, so two hashes are equal when  *)
(* their preimages are.                                                    *)
(***************************************************************************)
EXTENDS DryRun

CONSTANTS
  MaxBytecode,        \* instructions the circuit has room for
  MaxSteps,           \* trace steps
  MaxToolCalls,       \* tape entries
  MaxTapeEntryBytes,  \* bytes of one tape entry
  InstrCounts,        \* sizes a compiled program may have
  TraceLengths,       \* lengths its trace may have
  NoWitness

ASSUME NoirAssumption ==
  /\ MaxBytecode \in Nat /\ MaxSteps \in Nat
  /\ MaxToolCalls \in Nat /\ MaxTapeEntryBytes \in Nat
  /\ InstrCounts \subseteq Nat /\ TraceLengths \subseteq Nat

VARIABLES
  noirPc,      \* "idle", "replaying", "witnessed", "proved", "failed"
  noirInstrs,  \* instructions of the encoded program
  noirSteps,   \* steps of the recorded trace
  noirCalls,   \* history: the calls the replayed program made
  noirSeen,    \* what each of them was answered
  witness      \* the NoirWitness

noirVars == <<noirPc, noirInstrs, noirSteps, noirCalls, noirSeen, witness>>
vars == <<prog, dryVars, noirVars>>

-----------------------------------------------------------------------------
\* The preimage of one entry's leaf: tag, length and bytes.
Leaf(entry) ==
  [ok |-> entry.ok, body |-> entry.body, len |-> BodySize[entry.body]]

\* An entry as it fits in the witness: the bytes past the buffer are dropped.
Row(entry) ==
  [Leaf(entry) EXCEPT !.len = IF @ > MaxTapeEntryBytes THEN MaxTapeEntryBytes ELSE @]

\* The ToolCall steps of the trace.  next_pc is the pc of the step that came next:
\* the instruction after the call if it was answered, and one of the pcall's
\* own frame if it failed and the error was caught.
TraceCalls == [i \in 1..Len(noirSeen) |-> IF noirSeen[i].ok THEN "falls_through" ELSE "unwinds"]

\* What the trace may hold as the top of the stack at the final Ret, a number the
\* core computes: an integer is itself, and of anything else only that it is an
\* i64 is known here, which may or may not be the 0 it is committed as.
StackTops(value) == IF value = NonInteger THEN {0, 1} ELSE {value}

\* Fault: the last slot is never used.
SlotsOneShort == 1..(IF Len(tape) >= MaxToolCalls THEN MaxToolCalls - 1 ELSE Len(tape))

\* The slots in use: the entries past the last slot are dropped.
Slots == 1..(IF Len(tape) > MaxToolCalls THEN MaxToolCalls ELSE Len(tape))

\* Faults: the commitment taken over the rows that fitted; the tape rebuilt
\* from the replay's transcript, which carries no attestations.
BuildWitnessFromRows(value, top) ==
  LET rows == [i \in Slots |-> Row(tape[i])]
      atts == [i \in Slots |-> tapeAtts[i]]
  IN [trace_calls |-> TraceCalls, final_top |-> top,
      return_value |-> ReturnValueI64(value),
      rows |-> rows, att_rows |-> atts,
      tool_responses_hash |-> rows,
      attestation_hash |-> [i \in Slots |-> <<rows[i], atts[i]>>],
      output_hash |-> ReturnValueI64(value), policy_hash |-> dryPolicy]

BuildWitnessFromReplay(value, top) ==
  [trace_calls |-> TraceCalls, final_top |-> top,
   return_value |-> ReturnValueI64(value),
   rows |-> [i \in Slots |-> Row(noirSeen[i])],
   att_rows |-> [i \in Slots |-> NoAttestation],
   tool_responses_hash |-> [i \in 1..Len(noirSeen) |-> Leaf(noirSeen[i])],
   attestation_hash |-> [i \in 1..Len(noirSeen) |-> <<Leaf(noirSeen[i]), NoAttestation>>],
   output_hash |-> ReturnValueI64(value), policy_hash |-> dryPolicy]

\* witness::build_witness: the rows hold what fits, the hashes bind all of the
\* original tape.
BuildWitness(value, top) ==
  [trace_calls         |-> TraceCalls,
   final_top           |-> top,
   return_value        |-> ReturnValueI64(value),
   rows                |-> [i \in Slots |-> Row(tape[i])],
   att_rows            |-> [i \in Slots |-> tapeAtts[i]],
   tool_responses_hash |-> [i \in 1..Len(tape) |-> Leaf(tape[i])],
   attestation_hash    |-> [i \in 1..Len(tape) |-> <<Leaf(tape[i]), tapeAtts[i]>>],
   output_hash         |-> ReturnValueI64(value),
   policy_hash         |-> dryPolicy]

\* The assertions of main.nr over the tool calls, the final return, the tape, the
\* attestations and the output.  A ToolCall step must be followed by pc + 1 (it is
\* not among the opcodes whose next_pc is unconstrained), and there must be a
\* tape slot for each.  The trace comes from the Vm that ran the bytecode, so its
\* checks on other steps (opcodes, jumps) pass.
CircuitHolds(w) ==
  /\ \A i \in DOMAIN w.trace_calls : w.trace_calls[i] = "falls_through"
  /\ Len(w.trace_calls) = Len(w.rows)
  /\ w.final_top = w.return_value
  /\ w.rows = w.tool_responses_hash
  /\ [i \in DOMAIN w.rows |-> <<w.rows[i], w.att_rows[i]>>] = w.attestation_hash
  /\ w.return_value = w.output_hash

-----------------------------------------------------------------------------
NoirInit ==
  /\ noirPc = "idle"
  /\ noirInstrs = 0
  /\ noirSteps = 0
  /\ noirCalls = << >>
  /\ noirSeen = << >>
  /\ witness = NoWitness

\* encode_program refuses a program the circuit has no room for.
NoirStart(instrs) ==
  /\ dryPc = "recorded"
  /\ noirPc = "idle"
  /\ noirInstrs' = instrs
  /\ noirPc' = IF instrs > MaxBytecode THEN "failed" ELSE "replaying"
  /\ UNCHANGED <<prog, dryVars, noirSteps, noirCalls, noirSeen, witness>>

\* Fault: the Err entries of the tape are not replayed.
NoirAnswerSkipsErrors ==
  LET rest == {i \in 1..Len(tape) : tape[i].ok /\ i > Len(noirSeen)}
  IN IF rest = {} THEN ErrEntry("tape_exhausted")
     ELSE tape[CHOOSE i \in rest : \A j \in rest : i <= j]

\* TapeHost: the entry after the last one handed out, if there is one.
NoirAnswer ==
  IF Len(noirSeen) < Len(tape) THEN tape[Len(noirSeen) + 1]
  ELSE ErrEntry("tape_exhausted")

\* The replayed program calls a tool and goes on, or dies, on the answer; a
\* call more than the Vm allows stops the replay.
NoirCall(call, caught) ==
  /\ noirPc = "replaying"
  /\ Decides(noirSeen, CallStep(call, caught))
  /\ IF Len(noirSeen) = VmMaxToolCalls
       THEN noirPc' = "failed" /\ UNCHANGED <<noirCalls, noirSeen>>
       ELSE /\ noirCalls' = Append(noirCalls, call)
            /\ noirSeen' = Append(noirSeen, NoirAnswer)
            /\ noirPc' = IF NoirAnswer.ok \/ caught THEN "replaying" ELSE "failed"
  /\ UNCHANGED <<dryVars, noirInstrs, noirSteps, witness>>

\* The program returns and the witness is built, if the trace fits.
NoirReturn(value, steps) ==
  /\ noirPc = "replaying"
  /\ Decides(noirSeen, ReturnStep(value))
  /\ noirSteps' = steps
  /\ IF steps > MaxSteps
       THEN noirPc' = "failed" /\ UNCHANGED witness
       ELSE /\ noirPc' = "witnessed"
            /\ \E top \in StackTops(value) : witness' = BuildWitness(value, top)
  /\ UNCHANGED <<dryVars, noirInstrs, noirCalls, noirSeen>>

\* NoirProver::prove: nargo executes the circuit, which fails on an assertion,
\* and bb proves it; the public inputs returned are the witness's.
NoirProve ==
  /\ noirPc = "witnessed"
  /\ noirPc' = IF CircuitHolds(witness) THEN "proved" ELSE "failed"
  /\ UNCHANGED <<prog, dryVars, noirInstrs, noirSteps, noirCalls, noirSeen, witness>>

NoirStep ==
  \/ \E call \in Calls, caught \in BOOLEAN : NoirCall(call, caught)
  \/ \E value \in Values, steps \in TraceLengths : NoirReturn(value, steps)
  \/ NoirProve

Init == DryInit /\ NoirInit

Next ==
  \/ DryNext /\ UNCHANGED noirVars
  \/ \E instrs \in InstrCounts : NoirStart(instrs)
  \/ NoirStep

\* prove_from_artifacts is one function call: once begun it keeps going.
Spec == Init /\ [][Next]_vars
FairSpec == Spec /\ WF_vars(NoirStep)

-----------------------------------------------------------------------------
(* Properties. *)

Leaves == [ok : BOOLEAN, body : Bodies, len : Nat]
Atts == Attestations \cup {NoAttestation}

\* Type invariant of the Noir path.
TypeOK ==
  /\ DryTypeOK
  /\ noirPc \in {"idle", "replaying", "witnessed", "proved", "failed"}
  /\ noirInstrs \in Nat
  /\ noirSteps \in Nat
  /\ noirCalls \in Seq(Calls)
  /\ noirSeen \in Seq(Entries)
  /\ witness \in
       [trace_calls : Seq({"falls_through", "unwinds"}),
        final_top : (Values \ {NonInteger}) \cup {0, 1},
        return_value : (Values \ {NonInteger}) \cup {0},
        rows : Seq(Leaves), att_rows : Seq(Atts),
        tool_responses_hash : Seq(Leaves), attestation_hash : Seq(Leaves \X Atts),
        output_hash : (Values \ {NonInteger}) \cup {0},
        policy_hash : Policies \cup {NoPolicy}] \cup {NoWitness}

\* The bare TapeHost replays every run, denials included, call by call as it
\* was recorded, and consumes the whole tape before it returns (lib.rs:61-65,
\* "Responses are identical by determinism").
NoirTracksDryRun ==
  noirPc \in {"replaying", "witnessed", "proved"} =>
    /\ Len(noirSeen) <= Len(tape)
    /\ noirSeen = SubSeq(tape, 1, Len(noirSeen))
    /\ noirCalls = SubSeq(tapeCalls, 1, Len(noirSeen))
    /\ noirPc # "replaying" => noirSeen = tape

\* A proof never stands for a truncated tape: the witness silently drops the
\* entries past MAX_TOOL_CALLS and the bytes past MAX_TAPE_ENTRY_BYTES
\* (witness.rs:116-133), and what is proved was never dropped anything, commits
\* every answer the program saw in full, and returns what the dry run returned.
NoirProofBindsTape ==
  noirPc = "proved" =>
    /\ Len(witness.rows) = Len(noirSeen)
    /\ \A i \in 1..Len(noirSeen) : witness.rows[i] = Leaf(noirSeen[i])
    /\ witness.tool_responses_hash = [i \in 1..Len(tape) |-> Leaf(tape[i])]
    /\ witness.output_hash = ReturnValueI64(dryReturn)

\* The attestations the proof welds to the answers are the recorded ones, one
\* for one, although the replay that made the trace saw none (lib.rs:61-65).
NoirProofKeepsAttestations ==
  noirPc = "proved" =>
    /\ Len(witness.attestation_hash) = Len(noirSeen)
    /\ \A i \in 1..Len(noirSeen) :
         witness.attestation_hash[i] = <<Leaf(noirSeen[i]), tapeAtts[i]>>

\* A run the circuit is sure to prove: within the four sizes it is compiled for,
\* with no failed tool call, for which it has no transition (main.nr:132-144), and
\* returning an integer, which the trace and the commitment agree on.
CleanRun ==
  /\ dryReturn # NonInteger
  /\ noirInstrs <= MaxBytecode
  /\ noirSteps <= MaxSteps
  /\ Len(tape) <= MaxToolCalls
  /\ \A i \in 1..Len(tape) :
       tape[i].ok /\ BodySize[tape[i].body] <= MaxTapeEntryBytes

\* A recorded run is lost to a size limit, to a caught tool failure or to the way
\* the trace records a return value that is no integer, never to a divergence
\* between the replay, the witness and the circuit.
NoirLosesNoCleanRun == noirPc = "failed" => ~ CleanRun

\* Every replay of such a run, once begun, ends in a proof.
NoirRunIsProved == noirPc = "replaying" ~> (noirPc = "proved" \/ ~ CleanRun)

\* What README.md:50-54 says of a proof under a policy, read for the cap: "A run
\* that violates the policy cannot be replayed, so no proof of it exists."
NoirProofWithinCap ==
  noirPc = "proved" /\ witness.policy_hash # NoPolicy =>
    Len(noirSeen) <= witness.policy_hash.max_tool_calls
=============================================================================
