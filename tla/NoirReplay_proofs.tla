--------------------------- MODULE NoirReplay_proofs ---------------------------
(***************************************************************************)
(* Proofs about NoirReplay: the bare TapeHost replays the dry run, a proof *)
(* binds the whole tape and its attestations although the witness drops    *)
(* what does not fit, and a run is lost only to a size limit or a caught   *)
(* tool failure.                                                           *)
(***************************************************************************)
EXTENDS NoirReplay, DryRun_proofs

\* The replay is some way along the tape.
OnTape ==
  /\ Len(noirSeen) <= Len(tape)
  /\ noirSeen = SubSeq(tape, 1, Len(noirSeen))
  /\ noirCalls = SubSeq(tapeCalls, 1, Len(noirSeen))

\* The stages of prove_from_artifacts and what each leaves behind.
Stages ==
  /\ noirPc # "idle" => dryPc = "recorded"
  /\ noirPc = "idle" => noirSeen = << >> /\ noirCalls = << >> /\ witness = NoWitness
  /\ noirPc \in {"replaying", "witnessed", "proved"} => noirInstrs <= MaxBytecode
  /\ noirPc \in {"witnessed", "proved"} =>
       /\ noirSteps <= MaxSteps
       /\ witness = BuildWitness(dryReturn, witness.final_top)
       /\ witness.final_top \in StackTops(dryReturn)
  /\ noirPc = "proved" => CircuitHolds(witness)

\* The inductive invariant.
IInv ==
  /\ DryInv
  /\ TypeOK
  /\ Stages
  /\ NoirTracksDryRun
  /\ NoirLosesNoCleanRun

-----------------------------------------------------------------------------
\* A leaf of an entry; the row of an entry that fits is its leaf, and that of
\* one that does not is not.
LEMMA RowIsLeaf ==
  ASSUME NEW entry \in Entries
  PROVE  /\ Leaf(entry) \in Leaves /\ Row(entry) \in Leaves
         /\ Row(entry) = Leaf(entry) <=> BodySize[entry.body] <= MaxTapeEntryBytes
<1>1. BodySize[entry.body] \in Nat /\ MaxTapeEntryBytes \in Nat
  BY DryRunAssumption, NoirAssumption DEF Entries
<1> QED BY <1>1 DEF Leaf, Row, Leaves, Entries

\* The witness has its type.
LEMMA WitnessType ==
  ASSUME DryInv, noirSeen \in Seq(Entries), NEW value \in Values,
         NEW top \in StackTops(value)
  PROVE  BuildWitness(value, top) \in
           [trace_calls : Seq({"falls_through", "unwinds"}),
            final_top : (Values \ {NonInteger}) \cup {0, 1}, return_value : (Values \ {NonInteger}) \cup {0},
            rows : Seq(Leaves), att_rows : Seq(Atts),
            tool_responses_hash : Seq(Leaves), attestation_hash : Seq(Leaves \X Atts),
            output_hash : (Values \ {NonInteger}) \cup {0},
            policy_hash : Policies \cup {NoPolicy}]
<1>1. /\ tape \in Seq(Entries) /\ tapeAtts \in Seq(Atts) /\ Len(tape) \in Nat
      /\ Len(tapeAtts) = Len(tape) /\ dryPolicy \in Policies \cup {NoPolicy}
  BY DEF DryInv, DryTypeOK, Atts
<1>2. PICK m \in 0..Len(tape) : Slots = 1..m
  BY <1>1, NoirAssumption DEF Slots
<1>3. \A i \in 1..Len(tape) :
        /\ tape[i] \in Entries /\ tapeAtts[i] \in Atts
        /\ Leaf(tape[i]) \in Leaves /\ Row(tape[i]) \in Leaves
  BY <1>1, RowIsLeaf
<1>4. [i \in Slots |-> Row(tape[i])] \in Seq(Leaves) BY <1>1, <1>2, <1>3
<1>5. [i \in Slots |-> tapeAtts[i]] \in Seq(Atts) BY <1>1, <1>2, <1>3
<1>6. [i \in 1..Len(tape) |-> Leaf(tape[i])] \in Seq(Leaves) BY <1>1, <1>3
<1>7. [i \in 1..Len(tape) |-> <<Leaf(tape[i]), tapeAtts[i]>>] \in Seq(Leaves \X Atts)
  BY <1>1, <1>3
<1>8. ReturnValueI64(value) \in (Values \ {NonInteger}) \cup {0}
  BY DEF ReturnValueI64
<1>9. TraceCalls \in Seq({"falls_through", "unwinds"}) BY DEF TraceCalls
<1>10. top \in (Values \ {NonInteger}) \cup {0, 1} BY DEF StackTops
<1> QED BY <1>1, <1>4, <1>5, <1>6, <1>7, <1>8, <1>9, <1>10 DEF BuildWitness

\* The circuit accepts the witness of a fully replayed tape exactly when every
\* entry has a slot, fits it and is an answer, and the trace ends with the value
\* that is committed.
LEMMA CircuitAcceptsWhatFits ==
  ASSUME DryInv, noirSeen = tape, NEW value, NEW top
  PROVE  CircuitHolds(BuildWitness(value, top)) <=>
           /\ top = ReturnValueI64(value)
           /\ Len(tape) <= MaxToolCalls
           /\ \A i \in 1..Len(tape) :
                tape[i].ok /\ BodySize[tape[i].body] <= MaxTapeEntryBytes
<1> DEFINE w == BuildWitness(value, top)
<1>1. /\ tape \in Seq(Entries) /\ Len(tape) \in Nat /\ MaxToolCalls \in Nat
  BY NoirAssumption DEF DryInv, DryTypeOK
<1>2. /\ w.rows = [i \in Slots |-> Row(tape[i])]
      /\ w.att_rows = [i \in Slots |-> tapeAtts[i]]
      /\ w.tool_responses_hash = [i \in 1..Len(tape) |-> Leaf(tape[i])]
      /\ w.attestation_hash = [i \in 1..Len(tape) |-> <<Leaf(tape[i]), tapeAtts[i]>>]
      /\ w.trace_calls = [i \in 1..Len(tape) |->
                           IF tape[i].ok THEN "falls_through" ELSE "unwinds"]
      /\ w.return_value = w.output_hash
      /\ w.final_top = top /\ w.return_value = ReturnValueI64(value)
  BY <1>1 DEF BuildWitness, TraceCalls
<1> HIDE DEF w
<1>3. ASSUME top = ReturnValueI64(value), Len(tape) <= MaxToolCalls,
             \A i \in 1..Len(tape) :
               tape[i].ok /\ BodySize[tape[i].body] <= MaxTapeEntryBytes
      PROVE  CircuitHolds(w)
  <2>1. Slots = 1..Len(tape) BY <1>1, <1>3 DEF Slots
  <2>2. \A i \in 1..Len(tape) : Row(tape[i]) = Leaf(tape[i])
    BY <1>1, <1>3, RowIsLeaf
  <2>3. w.rows = w.tool_responses_hash BY <1>2, <2>1, <2>2
  <2>4. Len(w.rows) = Len(tape) /\ Len(w.trace_calls) = Len(tape) BY <1>1, <1>2, <2>1
  <2>6. \A i \in DOMAIN w.trace_calls : w.trace_calls[i] = "falls_through"
    BY <1>2, <1>3
  <2>5. [i \in DOMAIN w.rows |-> <<w.rows[i], w.att_rows[i]>>] = w.attestation_hash
    BY <1>2, <2>1, <2>2
  <2> QED BY <1>2, <1>3, <2>3, <2>4, <2>5, <2>6 DEF CircuitHolds
<1>4. ASSUME CircuitHolds(w)
      PROVE  /\ top = ReturnValueI64(value)
             /\ Len(tape) <= MaxToolCalls
             /\ \A i \in 1..Len(tape) :
                  tape[i].ok /\ BodySize[tape[i].body] <= MaxTapeEntryBytes
  <2>1. w.rows = w.tool_responses_hash BY <1>4 DEF CircuitHolds
  <2>2. DOMAIN w.rows = Slots /\ DOMAIN w.tool_responses_hash = 1..Len(tape)
    BY <1>2
  <2>3. Slots = 1..Len(tape) BY <2>1, <2>2
  <2>4. Len(tape) <= MaxToolCalls BY <1>1, <2>3 DEF Slots
  <2>5. \A i \in 1..Len(tape) : Row(tape[i]) = Leaf(tape[i])
    BY <1>2, <2>1, <2>3
  <2>6. \A i \in 1..Len(tape) : tape[i].ok BY <1>2, <1>4 DEF CircuitHolds
  <2>7. top = ReturnValueI64(value) BY <1>2, <1>4 DEF CircuitHolds
  <2> QED BY <1>1, <2>4, <2>5, <2>6, <2>7, RowIsLeaf
<1> QED BY <1>3, <1>4 DEF w

-----------------------------------------------------------------------------
\* The invariant holds initially.
LEMMA IInvInit == Init => IInv
<1> SUFFICES ASSUME Init PROVE IInv OBVIOUS
<1>1. DryInv BY DryInvInit DEF Init
<1>2. TypeOK BY <1>1 DEF Init, NoirInit, TypeOK, DryInv
<1> QED BY <1>1, <1>2
        DEF Init, NoirInit, IInv, Stages, NoirTracksDryRun, NoirLosesNoCleanRun

\* While the dry run is going on there is no replay to disturb.
LEMMA IInvDryRun == IInv /\ DryNext /\ UNCHANGED noirVars => IInv'
<1> SUFFICES ASSUME IInv, DryNext, UNCHANGED noirVars PROVE IInv' OBVIOUS
<1>1. DryInv' BY DryInvNext DEF IInv
<1>2. TypeOK' BY <1>1 DEF IInv, TypeOK, DryInv, noirVars
<1>3. dryPc = "running"
  BY DEF DryNext, DryCall, DryCallOverLimit, DryReturn
<1>4. noirPc = "idle" BY <1>3 DEF IInv, Stages
<1> QED BY <1>1, <1>2, <1>4
        DEF IInv, Stages, NoirTracksDryRun, NoirLosesNoCleanRun, noirVars

\* Starting: the program is encoded, or is too large.
LEMMA IInvStart ==
  ASSUME IInv, NEW instrs \in InstrCounts, NoirStart(instrs)
  PROVE  IInv'
<1>1. /\ UNCHANGED <<prog, dryVars, noirSteps, noirCalls, noirSeen, witness>>
      /\ noirSeen = << >> /\ noirCalls = << >> /\ witness = NoWitness
      /\ noirInstrs' = instrs /\ dryPc = "recorded"
      /\ noirPc' = IF instrs > MaxBytecode THEN "failed" ELSE "replaying"
  BY DEF IInv, Stages, NoirStart
<1>2. instrs \in Nat /\ MaxBytecode \in Nat BY NoirAssumption
<1>3. DryInv' BY <1>1 DEF IInv, DryInv, DryTypeOK, dryVars
<1>4. TypeOK' BY <1>1, <1>2, <1>3 DEF IInv, TypeOK, DryInv
<1>5. Stages' BY <1>1, <1>2 DEF IInv, Stages, dryVars
<1>6. /\ Len(noirSeen) = 0 /\ Len(tape) \in Nat
      /\ SubSeq(tape, 1, 0) = << >> /\ SubSeq(tapeCalls, 1, 0) = << >>
  BY <1>1 DEF IInv, DryInv, DryTypeOK
<1>7. NoirTracksDryRun' BY <1>1, <1>6 DEF NoirTracksDryRun, dryVars
<1>8. NoirLosesNoCleanRun'
  BY <1>1, <1>2 DEF NoirLosesNoCleanRun, CleanRun
<1> QED BY <1>3, <1>4, <1>5, <1>7, <1>8 DEF IInv

\* A call of the replay is the recorded one, answered as it was recorded.
LEMMA IInvCall ==
  ASSUME IInv, NEW call \in Calls, NEW caught \in BOOLEAN, NoirCall(call, caught)
  PROVE  IInv'
<1>1. /\ noirPc = "replaying" /\ Decides(noirSeen, CallStep(call, caught))
      /\ UNCHANGED <<dryVars, noirInstrs, noirSteps, witness>>
  BY DEF NoirCall
<1>2. /\ tape \in Seq(Entries) /\ tapeCalls \in Seq(Calls) /\ Len(tape) \in Nat
      /\ Len(tapeCalls) = Len(tape) /\ Len(tape) <= VmMaxToolCalls
      /\ VmMaxToolCalls \in Nat /\ dryPc = "recorded"
      /\ noirSeen \in Seq(Entries) /\ noirCalls \in Seq(Calls)
  BY <1>1, DryRunAssumption DEF IInv, DryInv, DryTypeOK, TypeOK, Stages
<1>3. OnTape BY <1>1 DEF IInv, NoirTracksDryRun, OnTape
<1>4. IsRunOf(prog, tapeCalls, tape) /\ Returns(prog, tape, dryReturn)
  BY <1>2 DEF IInv, DryInv
<1>5. PICK n \in 0..Len(tape) : n = Len(noirSeen) /\ noirSeen = SubSeq(tape, 1, n)
  <2>1. Len(noirSeen) \in 0..Len(tape) BY <1>2, <1>3 DEF OnTape
  <2>2. noirSeen = SubSeq(tape, 1, Len(noirSeen)) BY <1>3 DEF OnTape
  <2> QED BY <2>1, <2>2
<1>6. n < Len(tape) /\ call = tapeCalls[n + 1] /\ (tape[n + 1].ok \/ caught)
  <2>1. MayTake(prog, noirSeen, CallStep(call, caught)) BY <1>1 DEF Decides, MayTake
  <2>2. tape \in Seq(Entries) /\ tapeCalls \in Seq(Calls) BY <1>2
  <2> QED BY <1>4, <1>5, <2>1, <2>2, PrefixCall
<1>7. NoirAnswer = tape[n + 1] BY <1>5, <1>6 DEF NoirAnswer
<1>8. n # VmMaxToolCalls BY <1>2, <1>6
<1>9. /\ noirCalls' = Append(noirCalls, call)
      /\ noirSeen' = Append(noirSeen, tape[n + 1])
      /\ noirPc' = "replaying"
  BY <1>5, <1>6, <1>7, <1>8 DEF NoirCall
<1>10. noirSeen' = SubSeq(tape, 1, n + 1)
  BY <1>2, <1>5, <1>6, <1>9, PrefixStep
<1>11. noirCalls' = SubSeq(tapeCalls, 1, n + 1)
  BY <1>2, <1>3, <1>5, <1>6, <1>9, PrefixStep DEF OnTape
<1>12. DryInv'
  <2>1. CallStep(call, caught) \in CallSteps BY DEF CallStep, CallSteps
  <2> QED BY <1>1, <1>2, <2>1, DryInvReplay DEF IInv
<1>13. Len(noirSeen') = n + 1 BY <1>2, <1>6, <1>10
<1>14. noirSeen' \in Seq(Entries) /\ noirCalls' \in Seq(Calls)
  <2>1. tape[n + 1] \in Entries BY <1>2, <1>6
  <2> QED BY <1>2, <1>9, <2>1
<1>15. TypeOK' BY <1>1, <1>9, <1>12, <1>14 DEF IInv, TypeOK, DryInv
<1>16. Stages' BY <1>1, <1>2, <1>9 DEF IInv, Stages, dryVars
<1>17. NoirTracksDryRun'
  BY <1>1, <1>2, <1>6, <1>9, <1>10, <1>11, <1>13 DEF NoirTracksDryRun, dryVars
<1>18. NoirLosesNoCleanRun' BY <1>9 DEF NoirLosesNoCleanRun
<1> QED BY <1>12, <1>15, <1>16, <1>17, <1>18 DEF IInv

\* The replay returns at the end of the tape, and the witness is built.
LEMMA IInvReturn ==
  ASSUME IInv, NEW value \in Values, NEW steps \in TraceLengths,
         NoirReturn(value, steps)
  PROVE  IInv'
<1>1. /\ noirPc = "replaying" /\ Decides(noirSeen, ReturnStep(value))
      /\ noirSteps' = steps
      /\ UNCHANGED <<dryVars, noirInstrs, noirCalls, noirSeen>>
      /\ \/ steps > MaxSteps /\ noirPc' = "failed" /\ witness' = witness
         \/ /\ ~ (steps > MaxSteps) /\ noirPc' = "witnessed"
            /\ \E top \in StackTops(value) : witness' = BuildWitness(value, top)
  BY DEF NoirReturn
<1>2. /\ tape \in Seq(Entries) /\ tapeCalls \in Seq(Calls) /\ Len(tape) \in Nat
      /\ Len(tapeCalls) = Len(tape) /\ dryPc = "recorded"
      /\ noirSeen \in Seq(Entries) /\ noirCalls \in Seq(Calls)
      /\ steps \in Nat /\ MaxSteps \in Nat
  BY <1>1, NoirAssumption DEF IInv, DryInv, DryTypeOK, TypeOK, Stages
<1>3. OnTape BY <1>1 DEF IInv, NoirTracksDryRun, OnTape
<1>4. IsRunOf(prog, tapeCalls, tape) /\ Returns(prog, tape, dryReturn)
  BY <1>2 DEF IInv, DryInv
<1>5. /\ Len(noirSeen) \in 0..Len(tape)
      /\ noirSeen = SubSeq(tape, 1, Len(noirSeen))
      /\ MayTake(prog, noirSeen, ReturnStep(value))
  BY <1>1, <1>2, <1>3 DEF OnTape, Decides, MayTake
<1>6. noirSeen = tape /\ value = dryReturn
  BY <1>2, <1>4, <1>5, PrefixReturn
<1>7. DryInv'
  <2>1. ReturnStep(value) \in ReturnSteps BY DEF ReturnStep, ReturnSteps
  <2> QED BY <1>1, <1>2, <2>1, DryInvReplay DEF IInv
<1>8. TypeOK'
  <2>1. DryTypeOK' BY <1>7 DEF DryInv
  <2>2. ASSUME NEW top \in StackTops(value)
        PROVE  BuildWitness(value, top) \in
           [trace_calls : Seq({"falls_through", "unwinds"}),
            final_top : (Values \ {NonInteger}) \cup {0, 1}, return_value : (Values \ {NonInteger}) \cup {0},
            rows : Seq(Leaves), att_rows : Seq(Atts),
            tool_responses_hash : Seq(Leaves), attestation_hash : Seq(Leaves \X Atts),
            output_hash : (Values \ {NonInteger}) \cup {0},
            policy_hash : Policies \cup {NoPolicy}]
    BY <1>2, WitnessType DEF IInv
  <2> QED BY <1>1, <1>2, <2>1, <2>2 DEF IInv, TypeOK
<1>9. \A top : BuildWitness(value, top) = BuildWitness(dryReturn, top)' BY <1>1, <1>6
      DEF BuildWitness, TraceCalls, Slots, dryVars
<1>10. Stages'
  <2>1. CASE steps > MaxSteps BY <1>1, <1>2, <2>1 DEF IInv, Stages, dryVars
  <2>2. CASE ~ (steps > MaxSteps)
    <3>1. PICK top \in StackTops(value) : witness' = BuildWitness(value, top)
      BY <1>1, <2>2
    <3>2. witness'.final_top = top BY <3>1 DEF BuildWitness
    <3>3. /\ witness' = BuildWitness(dryReturn, witness.final_top)'
          /\ (witness.final_top \in StackTops(dryReturn))'
      BY <1>1, <1>6, <1>9, <3>1, <3>2 DEF StackTops, dryVars
    <3> QED BY <1>1, <1>2, <2>2, <3>3 DEF IInv, Stages, dryVars
  <2> QED BY <2>1, <2>2
<1>11. NoirTracksDryRun'
  BY <1>1, <1>2, <1>3, <1>6 DEF NoirTracksDryRun, OnTape, dryVars
<1>12. NoirLosesNoCleanRun'
  BY <1>1, <1>2 DEF NoirLosesNoCleanRun, CleanRun
<1> QED BY <1>7, <1>8, <1>10, <1>11, <1>12 DEF IInv

\* The circuit accepts what fits, and only that.
LEMMA IInvProve == IInv /\ NoirProve => IInv'
<1> SUFFICES ASSUME IInv, NoirProve PROVE IInv' OBVIOUS
<1>1. /\ noirPc = "witnessed"
      /\ noirPc' = IF CircuitHolds(witness) THEN "proved" ELSE "failed"
      /\ UNCHANGED <<prog, dryVars, noirInstrs, noirSteps, noirCalls, noirSeen, witness>>
  BY DEF NoirProve
<1>2. DryInv' BY <1>1 DEF IInv, DryInv, DryTypeOK, dryVars
<1>3. TypeOK' BY <1>1, <1>2 DEF IInv, TypeOK, DryInv
<1>4. /\ witness = BuildWitness(dryReturn, witness.final_top) /\ dryPc = "recorded"
      /\ witness.final_top \in StackTops(dryReturn)
  BY <1>1 DEF IInv, Stages
<1>5. BuildWitness(dryReturn, witness.final_top)' = BuildWitness(dryReturn, witness.final_top)
  BY <1>1 DEF BuildWitness, TraceCalls, Slots, dryVars
<1>6. CircuitHolds(witness)' = CircuitHolds(witness) BY <1>1 DEF CircuitHolds
<1>7. Stages' BY <1>1, <1>4, <1>5, <1>6 DEF IInv, Stages, StackTops, dryVars
<1>8. NoirTracksDryRun' BY <1>1 DEF IInv, NoirTracksDryRun, dryVars
<1>9. NoirLosesNoCleanRun'
  <2>1. noirSeen = tape BY <1>1 DEF IInv, NoirTracksDryRun
  <2>2. dryReturn # NonInteger => witness.final_top = ReturnValueI64(dryReturn)
    BY <1>4 DEF StackTops, ReturnValueI64
  <2> QED BY <1>1, <1>4, <2>1, <2>2, CircuitAcceptsWhatFits
          DEF IInv, NoirLosesNoCleanRun, CleanRun, dryVars
<1> QED BY <1>2, <1>3, <1>7, <1>8, <1>9 DEF IInv

\* The invariant is inductive.
LEMMA IInvNext == IInv /\ [Next]_vars => IInv'
<1> SUFFICES ASSUME IInv, [Next]_vars PROVE IInv' OBVIOUS
<1>1. CASE DryNext /\ UNCHANGED noirVars BY <1>1, IInvDryRun
<1>2. ASSUME NEW instrs \in InstrCounts, NoirStart(instrs) PROVE IInv'
  BY <1>2, IInvStart
<1>3. ASSUME NEW call \in Calls, NEW caught \in BOOLEAN, NoirCall(call, caught)
      PROVE  IInv'
  BY <1>3, IInvCall
<1>4. ASSUME NEW value \in Values, NEW steps \in TraceLengths, NoirReturn(value, steps)
      PROVE  IInv'
  BY <1>4, IInvReturn
<1>5. CASE NoirProve BY <1>5, IInvProve
<1>6. CASE UNCHANGED vars
  BY <1>6 DEF vars, dryVars, noirVars, IInv, DryInv, DryTypeOK, TypeOK, Stages,
              NoirTracksDryRun, NoirLosesNoCleanRun, CleanRun, CircuitHolds,
              BuildWitness, TraceCalls, Slots, StackTops
<1> QED BY <1>1, <1>2, <1>3, <1>4, <1>5, <1>6 DEF Next, NoirStep

\* ... and so it always holds.
THEOREM Invariance == Spec => []IInv
<1>1. Init => IInv BY IInvInit
<1>2. IInv /\ [Next]_vars => IInv' BY IInvNext
<1> QED BY <1>1, <1>2, PTL DEF Spec

-----------------------------------------------------------------------------
(* The properties the run checks. *)

\* Every variable keeps its type (lib.rs, witness.rs).
THEOREM TypeCorrect == Spec => []TypeOK
<1>1. IInv => TypeOK BY DEF IInv
<1> QED BY <1>1, Invariance, PTL

\* The bare TapeHost replays every recorded run as it was, denials included, and
\* consumes the whole tape (prove_from_artifacts).
THEOREM ReplayIsDryRun == Spec => []NoirTracksDryRun
<1>1. IInv => NoirTracksDryRun BY DEF IInv
<1> QED BY <1>1, Invariance, PTL

\* A recorded run is lost to a size limit, a caught tool failure or a return value
\* that is no integer, or not at all
\* (prove_from_artifacts, encode_program, build_witness, main.nr).
THEOREM CleanRunsNotLost == Spec => []NoirLosesNoCleanRun
<1>1. IInv => NoirLosesNoCleanRun BY DEF IInv
<1> QED BY <1>1, Invariance, PTL

\* Although the witness drops what does not fit, no proof stands for a truncated
\* tape: the circuit accepts a witness only if nothing was dropped
\* (build_witness against main.nr).
THEOREM NothingTruncated == Spec => []NoirProofBindsTape
<1>1. ASSUME IInv PROVE NoirProofBindsTape
  <2> SUFFICES ASSUME noirPc = "proved" PROVE NoirProofBindsTape
    BY DEF NoirProofBindsTape
  <2>1. /\ witness = BuildWitness(dryReturn, witness.final_top) /\ CircuitHolds(witness)
        /\ noirSeen = tape /\ tape \in Seq(Entries) /\ Len(tape) \in Nat
    BY <1>1 DEF IInv, Stages, NoirTracksDryRun, DryInv, DryTypeOK
  <2>2. /\ witness.tool_responses_hash = [i \in 1..Len(tape) |-> Leaf(tape[i])]
        /\ witness.output_hash = ReturnValueI64(dryReturn)
    BY <2>1 DEF BuildWitness
  <2>3. witness.rows = witness.tool_responses_hash BY <2>1 DEF CircuitHolds
  <2>4. /\ Len(witness.rows) = Len(tape)
        /\ \A i \in 1..Len(tape) : witness.rows[i] = Leaf(tape[i])
    BY <2>1, <2>2, <2>3
  <2> QED BY <2>1, <2>2, <2>4 DEF NoirProofBindsTape
<1> QED BY <1>1, Invariance, PTL

\* The attestations a proof welds to the answers are those of the dry run
\* (lib.rs:61-65, build_witness).
THEOREM AttestationsKept == Spec => []NoirProofKeepsAttestations
<1>1. ASSUME IInv PROVE NoirProofKeepsAttestations
  <2> SUFFICES ASSUME noirPc = "proved" PROVE NoirProofKeepsAttestations
    BY DEF NoirProofKeepsAttestations
  <2>1. /\ witness = BuildWitness(dryReturn, witness.final_top) /\ noirSeen = tape
        /\ tape \in Seq(Entries) /\ Len(tape) \in Nat
    BY <1>1 DEF IInv, Stages, NoirTracksDryRun, DryInv, DryTypeOK
  <2>2. witness.attestation_hash = [i \in 1..Len(tape) |-> <<Leaf(tape[i]), tapeAtts[i]>>]
    BY <2>1 DEF BuildWitness
  <2> QED BY <2>1, <2>2 DEF NoirProofKeepsAttestations
<1> QED BY <1>1, Invariance, PTL
=============================================================================
