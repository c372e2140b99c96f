------------------------- MODULE GatewayTrace_proofs -------------------------
(***************************************************************************)
(* Proofs about GuestReplay and GatewayTrace.                              *)
(*                                                                         *)
(* The guest: type correctness, what a replay under a policy consumed,     *)
(* that a claim stands for an execution, and that an admissible run is     *)
(* replayed as it was recorded and is never lost.                          *)
(*                                                                         *)
(* The gateway: whatever happened to the stored trace, what is             *)
(* reconstructed is an execution of the program; the guest replay repeats  *)
(* the strict one; a genuine trace is lost to the payload cap only; and a  *)
(* driver with files of its own proves what was predicted.  DryInv, which  *)
(* says that the tape is a run of the program, holds until the trace is    *)
(* edited.  What replaces it is what the strict replay has found out so    *)
(* far.                                                                    *)
(***************************************************************************)
EXTENDS GatewayTrace, DryRun_proofs

-----------------------------------------------------------------------------
(* The guest. *)

\* The counters agree with the histories they count.
Bookkeeping ==
  /\ guestPc # "idle" => dryPc = "recorded"
  /\ guestPc = "idle" =>
       /\ guestPolicy = NoPolicy /\ claim = NoClaim
       /\ guestCalls = << >> /\ guestSeen = << >> /\ served = << >>
       /\ callsMade = 0
  /\ Len(guestCalls) = Len(guestSeen)
  /\ Len(served) = cursor
  /\ cursor <= Len(tape)
  /\ cursor <= Len(guestSeen)
  /\ guestPolicy # NoPolicy => callsMade = Len(guestSeen)

\* The k-th entry handed out is the k-th of the tape, and nothing else was a
\* success.
Consumption ==
  /\ \A k \in 1..Len(served) :
       served[k] \in 1..Len(guestSeen) /\ guestSeen[served[k]] = tape[k]
  /\ \A i \in 1..Len(guestSeen) :
       guestSeen[i].ok => \E k \in 1..Len(served) : served[k] = i

\* What was handed out is within the policy.
Budget ==
  guestPolicy # NoPolicy =>
    /\ Len(served) <= guestPolicy.max_tool_calls
    /\ \A k \in 1..Len(served) : Admits(guestPolicy, guestCalls[served[k]])
    /\ guestPc \in {"replaying", "claimed"} => TapePayloadsFit(guestPolicy)

\* A replay that has not failed is a run of the program, and a claim is made of
\* a complete one.
Execution ==
  /\ guestPc \in {"replaying", "claimed"} => IsRunOf(prog, guestCalls, guestSeen)
  /\ claim # NoClaim => guestPc = "claimed"
  /\ guestPc = "claimed" =>
       /\ Returns(prog, guestSeen, dryReturn)
       /\ claim = PublicInputs(guestPolicy, dryReturn)

\* The inductive invariant.
IInv ==
  /\ DryInv
  /\ TypeOK
  /\ Bookkeeping
  /\ Consumption
  /\ Budget
  /\ RefusedCallsSpendBudget
  /\ Execution

-----------------------------------------------------------------------------
\* A refusal is one of the three policy errors.
LEMMA VerdictType ==
  ASSUME NEW call, Verdict(call) # Permitted
  PROVE  ErrEntry(Verdict(call)) \in Entries
<1>1. Verdict(call) \in {"limit_exceeded", "method_denied", "domain_denied"}
  BY RefusalIsMessage DEF Verdict
<1> QED BY <1>1 DEF Entries, Bodies, Messages, ErrEntry

\* The public inputs have their types.
LEMMA PublicInputsType ==
  ASSUME TypeOK, NEW policy \in Policies \cup {NoPolicy}, NEW value \in Values
  PROVE  PublicInputs(policy, value) \in
           [policy_hash : Policies \cup {NoPolicy},
            tool_responses_hash : Seq(Entries),
            attestation_hash : Seq(Attestations \cup {NoAttestation}),
            output_hash : (Values \ {NonInteger}) \cup {0}]
<1>1. ReturnValueI64(value) \in (Values \ {NonInteger}) \cup {0}
  BY DEF ReturnValueI64
<1> QED BY <1>1 DEF PublicInputs, TypeOK, DryTypeOK

\* The invariant holds initially.
LEMMA IInvInit == Init => IInv
<1> SUFFICES ASSUME Init PROVE IInv OBVIOUS
<1>1. DryInv BY DryInvInit DEF Init
<1>2. TypeOK BY <1>1 DEF Init, GuestInit, TypeOK, DryInv
<1>3. Bookkeeping BY <1>1 DEF Init, GuestInit, DryInit, Bookkeeping
<1>4. Consumption /\ Budget /\ RefusedCallsSpendBudget
  BY DEF Init, GuestInit, Consumption, Budget, RefusedCallsSpendBudget
<1>5. Execution BY DEF Init, GuestInit, Execution
<1> QED BY <1>1, <1>2, <1>3, <1>4, <1>5 DEF IInv

\* While the dry run is going on there is no replay to disturb.
LEMMA IInvDryRun == IInv /\ DryNext /\ UNCHANGED guestVars => IInv'
<1> SUFFICES ASSUME IInv, DryNext, UNCHANGED guestVars PROVE IInv' OBVIOUS
<1>1. DryInv' BY DryInvNext DEF IInv
<1>2. TypeOK' BY <1>1 DEF IInv, TypeOK, DryInv, guestVars
<1>3. dryPc = "running"
  BY DEF DryNext, DryCall, DryCallOverLimit, DryReturn
<1>4. guestPc = "idle" BY <1>3 DEF IInv, Bookkeeping
<1>5. tape' \in Seq(Entries) BY <1>1 DEF DryInv, DryTypeOK
<1>6. Bookkeeping'
  BY <1>4, <1>5 DEF IInv, Bookkeeping, guestVars
<1>7. (Consumption /\ Budget /\ RefusedCallsSpendBudget)'
  BY <1>4 DEF IInv, Bookkeeping, Consumption, Budget, RefusedCallsSpendBudget, guestVars
<1>8. Execution' BY <1>4 DEF IInv, Bookkeeping, Execution, guestVars
<1> QED BY <1>1, <1>2, <1>6, <1>7, <1>8 DEF IInv

\* Loading the dry run: the payloads are checked before anything is replayed.
LEMMA IInvStart ==
  ASSUME IInv, NEW policy \in GuestPolicies, StartReplay(policy)
  PROVE  IInv'
<1>1. DryInv' BY DEF IInv, DryInv, DryTypeOK, StartReplay, dryVars
<1>2. policy \in Policies \cup {NoPolicy} BY GuestReplayAssumption
<1>3. TypeOK' BY <1>1, <1>2 DEF IInv, TypeOK, DryInv, StartReplay
<1>4. Bookkeeping' BY DEF IInv, Bookkeeping, StartReplay, dryVars
<1>5. Consumption' BY DEF IInv, Consumption, StartReplay, dryVars
<1>6. Budget'
  BY <1>2 DEF IInv, Bookkeeping, Budget, StartReplay, TapePayloadsFit, dryVars, Policies
<1>7. RefusedCallsSpendBudget'
  BY DEF IInv, Bookkeeping, RefusedCallsSpendBudget, StartReplay
<1>8. Execution' BY DEF IInv, Bookkeeping, Execution, StartReplay, IsRunOf
<1> QED BY <1>1, <1>3, <1>4, <1>5, <1>6, <1>7, <1>8 DEF IInv

-----------------------------------------------------------------------------
(* A call that is answered, however it is answered. *)

\* What the three ways of answering a call have in common.
Answered(call, caught, e) ==
  /\ GuestMakesCall(call, caught)
  /\ GuestObserves(e, caught)

\* The histories and the program after the answer.
LEMMA AnsweredHistories ==
  ASSUME IInv, NEW call \in Calls, NEW caught \in BOOLEAN, NEW e \in Entries,
         Answered(call, caught, e)
  PROVE  /\ DryInv'
         /\ guestCalls' = Append(guestCalls, call) /\ guestCalls' \in Seq(Calls)
         /\ guestSeen' = Append(guestSeen, e) /\ guestSeen' \in Seq(Entries)
         /\ Len(guestCalls') = Len(guestSeen) + 1
         /\ Len(guestSeen') = Len(guestSeen) + 1
         /\ Len(guestSeen) \in Nat
         /\ \A i \in 1..Len(guestSeen) :
              guestCalls'[i] = guestCalls[i] /\ guestSeen'[i] = guestSeen[i]
         /\ guestCalls'[Len(guestSeen) + 1] = call
         /\ guestSeen'[Len(guestSeen) + 1] = e
         /\ callsMade' \in Nat
         /\ guestPolicy # NoPolicy => callsMade' = Len(guestSeen) + 1
         /\ Execution'
<1>1. /\ Decides(guestSeen, CallStep(call, caught)) /\ guestPc = "replaying"
      /\ UNCHANGED <<dryVars, guestPolicy, claim>>
      /\ guestPc' = IF e.ok \/ caught THEN "replaying" ELSE "failed"
  BY DEF Answered, GuestMakesCall, GuestObserves
<1>2. guestSeen \in Seq(Entries) /\ guestCalls \in Seq(Calls) /\ callsMade \in Nat
  BY DEF IInv, TypeOK
<1>3. CallStep(call, caught) \in CallSteps BY DEF CallStep, CallSteps
<1>4. DryInv' BY <1>1, <1>2, <1>3, DryInvReplay DEF IInv
<1>5. /\ guestCalls' = Append(guestCalls, call)
      /\ guestSeen' = Append(guestSeen, e)
  BY DEF Answered, GuestMakesCall, GuestObserves
<1>6. Len(guestCalls) = Len(guestSeen) BY DEF IInv, Bookkeeping
<1>7. /\ guestCalls' \in Seq(Calls) /\ guestSeen' \in Seq(Entries)
      /\ Len(guestCalls') = Len(guestSeen) + 1
      /\ Len(guestSeen') = Len(guestSeen) + 1
      /\ Len(guestSeen) \in Nat
  BY <1>2, <1>5, <1>6
<1>8. /\ \A i \in 1..Len(guestSeen) :
            guestCalls'[i] = guestCalls[i] /\ guestSeen'[i] = guestSeen[i]
      /\ guestCalls'[Len(guestSeen) + 1] = call
      /\ guestSeen'[Len(guestSeen) + 1] = e
  BY <1>2, <1>5, <1>6
<1>9. /\ callsMade' \in Nat
      /\ guestPolicy # NoPolicy => callsMade' = Len(guestSeen) + 1
  BY <1>2 DEF Answered, GuestMakesCall, IInv, Bookkeeping
<1>10. Execution'
  <2>1. Extends(prog, prog') BY <1>1, <1>2, <1>3, ProgramTyped DEF IInv, DryInv
  <2>2. IsRunOf(prog', guestCalls, guestSeen)
    BY <1>1, <2>1, RunSurvives DEF IInv, Execution
  <2>3. guestSeen \in DOMAIN prog' /\ prog'[guestSeen] = CallStep(call, caught)
    BY <1>1, ProgramRemembers
  <2>4. e.ok \/ caught => IsRunOf(prog', guestCalls', guestSeen')
    BY <1>2, <1>5, <2>2, <2>3, RunGrows
  <2>5. claim = NoClaim BY <1>1 DEF IInv, Execution
  <2> QED BY <1>1, <2>4, <2>5 DEF Execution
<1> QED BY <1>4, <1>5, <1>7, <1>8, <1>9, <1>10

\* An answer that is an error and not the tape's: a refusal, or a tape that has
\* run out.
LEMMA IInvUnserved ==
  ASSUME IInv, NEW call \in Calls, NEW caught \in BOOLEAN, NEW e \in Entries,
         Answered(call, caught, e), ~ e.ok, UNCHANGED <<cursor, served>>,
         guestPolicy # NoPolicy /\ callsMade + 1 > guestPolicy.max_tool_calls
           => e = ErrEntry("limit_exceeded")
  PROVE  IInv'
<1> USE AnsweredHistories
<1>1. /\ UNCHANGED <<dryVars, guestPolicy, claim>> /\ guestPc = "replaying"
      /\ guestPc' \in {"replaying", "failed"}
  BY DEF Answered, GuestMakesCall, GuestObserves
<1>2. TypeOK' BY <1>1 DEF IInv, TypeOK, DryInv
<1>3. Bookkeeping' BY <1>1 DEF IInv, Bookkeeping, TypeOK, dryVars
<1>4. Consumption'
  <2>1. ASSUME NEW k \in 1..Len(served)
        PROVE  served[k] \in 1..Len(guestSeen') /\ guestSeen'[served[k]] = tape[k]
    BY DEF IInv, Consumption
  <2>2. ASSUME NEW i \in 1..Len(guestSeen'), guestSeen'[i].ok
        PROVE  \E k \in 1..Len(served) : served[k] = i
    <3>1. i # Len(guestSeen) + 1 BY <2>2
    <3>2. i \in 1..Len(guestSeen) BY <3>1
    <3> QED BY <2>2, <3>2 DEF IInv, Consumption
  <2> QED BY <1>1, <2>1, <2>2 DEF Consumption, dryVars
<1>5. Budget'
  BY <1>1 DEF IInv, Budget, Consumption, TapePayloadsFit, dryVars
<1>6. RefusedCallsSpendBudget'
  <2>1. ASSUME guestPolicy # NoPolicy, NEW i \in 1..Len(guestSeen'),
               i > guestPolicy.max_tool_calls
        PROVE  guestSeen'[i] = ErrEntry("limit_exceeded")
    <3>1. CASE i = Len(guestSeen) + 1
      BY <2>1, <3>1 DEF IInv, Bookkeeping
    <3>2. CASE i # Len(guestSeen) + 1
      <4>1. i \in 1..Len(guestSeen) BY <3>2
      <4> QED BY <2>1, <4>1 DEF IInv, RefusedCallsSpendBudget
    <3> QED BY <3>1, <3>2
  <2> QED BY <1>1, <2>1 DEF RefusedCallsSpendBudget
<1> QED BY <1>2, <1>3, <1>4, <1>5, <1>6 DEF IInv

\* The next entry of the tape is handed out.
LEMMA IInvServed ==
  ASSUME IInv, NEW call \in Calls, NEW caught \in BOOLEAN,
         GuestCallServed(call, caught)
  PROVE  IInv'
<1> DEFINE e == tape[cursor + 1]
<1>1. /\ tape \in Seq(Entries) /\ Len(tape) \in Nat /\ cursor \in 0..Len(tape)
      /\ cursor < Len(tape) /\ cursor + 1 \in 1..Len(tape)
  BY DEF GuestCallServed, IInv, DryInv, DryTypeOK, TypeOK
<1>2. e \in Entries BY <1>1
<1>3. Answered(call, caught, e) BY DEF GuestCallServed, Answered
<1>4. Verdict(call) = Permitted /\ cursor' = cursor + 1
      /\ served' = Append(served, Len(guestSeen) + 1)
  BY DEF GuestCallServed
<1> HIDE DEF e
<1>5. /\ UNCHANGED <<dryVars, guestPolicy, claim>> /\ guestPc = "replaying"
      /\ guestPc' \in {"replaying", "failed"}
  BY <1>3 DEF Answered, GuestMakesCall, GuestObserves
<1>6. /\ served \in Seq(Nat) /\ Len(served) = cursor /\ cursor \in Nat
      /\ Len(guestSeen) \in Nat
  BY DEF IInv, TypeOK, Bookkeeping
<1>7. /\ served' \in Seq(Nat) /\ Len(served') = cursor + 1
      /\ served'[cursor + 1] = Len(guestSeen) + 1
      /\ \A k \in 1..cursor : served'[k] = served[k]
  BY <1>4, <1>6
<1>8. /\ guestPolicy # NoPolicy => callsMade + 1 <= guestPolicy.max_tool_calls
      /\ guestPolicy # NoPolicy => Admits(guestPolicy, call)
  <2>1. ASSUME guestPolicy # NoPolicy PROVE callsMade + 1 <= guestPolicy.max_tool_calls
    <3>1. guestPolicy \in Policies /\ guestPolicy.max_tool_calls \in Nat
      BY <2>1 DEF IInv, TypeOK, Policies
    <3>2. callsMade \in Nat BY DEF IInv, TypeOK
    <3> QED BY <1>4, <2>1, <3>1, <3>2 DEF Verdict, Permitted
  <2>2. ASSUME guestPolicy # NoPolicy PROVE Admits(guestPolicy, call)
    <3>1. IsHttpTool(call.tool) => CheckHttpCall(guestPolicy, call) = Permitted
      BY <1>4, <2>2 DEF Verdict, Permitted
    <3> QED BY <3>1, PermittedIsAdmitted DEF Admits, IsHttpTool, HttpTools
  <2> QED BY <2>1, <2>2
<1> USE <1>2, <1>3, AnsweredHistories
<1>9. TypeOK' BY <1>4, <1>5, <1>6, <1>7 DEF IInv, TypeOK, DryInv
<1>10. Bookkeeping'
  BY <1>1, <1>4, <1>5, <1>6, <1>7 DEF IInv, Bookkeeping, TypeOK, dryVars
<1>11. Consumption'
  <2>1. ASSUME NEW k \in 1..Len(served')
        PROVE  served'[k] \in 1..Len(guestSeen') /\ guestSeen'[served'[k]] = tape[k]
    <3>1. CASE k = cursor + 1 BY <1>7, <3>1 DEF e
    <3>2. CASE k # cursor + 1
      <4>1. k \in 1..Len(served) BY <1>6, <1>7, <3>2
      <4>2. served'[k] = served[k] BY <4>1, <1>6, <1>7
      <4>3. served[k] \in 1..Len(guestSeen) /\ guestSeen[served[k]] = tape[k]
        BY <4>1 DEF IInv, Consumption
      <4> QED BY <4>2, <4>3
    <3> QED BY <3>1, <3>2
  <2>2. ASSUME NEW i \in 1..Len(guestSeen'), guestSeen'[i].ok
        PROVE  \E k \in 1..Len(served') : served'[k] = i
    <3>1. CASE i = Len(guestSeen) + 1 BY <1>6, <1>7, <3>1
    <3>2. CASE i # Len(guestSeen) + 1
      <4>1. i \in 1..Len(guestSeen) BY <3>2
      <4>2. PICK k \in 1..Len(served) : served[k] = i
        BY <2>2, <4>1 DEF IInv, Consumption
      <4> QED BY <4>2, <1>6, <1>7
    <3> QED BY <3>1, <3>2
  <2> QED BY <1>5, <2>1, <2>2 DEF Consumption, dryVars
<1>12. Budget'
  <2>1. ASSUME guestPolicy # NoPolicy
        PROVE  /\ Len(served') <= guestPolicy.max_tool_calls
               /\ TapePayloadsFit(guestPolicy)
    <3>1. guestPolicy.max_tool_calls \in Nat
      BY <2>1 DEF IInv, TypeOK, Policies
    <3>2. cursor <= Len(guestSeen) /\ callsMade = Len(guestSeen)
      BY <2>1 DEF IInv, Bookkeeping
    <3> QED BY <1>5, <1>6, <1>7, <1>8, <2>1, <3>1, <3>2 DEF IInv, Budget
  <2>2. ASSUME guestPolicy # NoPolicy, NEW k \in 1..Len(served')
        PROVE  Admits(guestPolicy, guestCalls'[served'[k]])
    <3>1. CASE k = cursor + 1 BY <1>7, <1>8, <2>2, <3>1
    <3>2. CASE k # cursor + 1
      <4>1. k \in 1..Len(served) BY <1>6, <1>7, <3>2
      <4>2. served'[k] = served[k] BY <4>1, <1>6, <1>7
      <4>3. served[k] \in 1..Len(guestSeen) /\ Admits(guestPolicy, guestCalls[served[k]])
        BY <2>2, <4>1 DEF IInv, Consumption, Budget
      <4> QED BY <4>2, <4>3
    <3> QED BY <3>1, <3>2
  <2> QED BY <1>5, <2>1, <2>2 DEF Budget, TapePayloadsFit, dryVars
<1>13. RefusedCallsSpendBudget'
  <2>1. ASSUME guestPolicy # NoPolicy, NEW i \in 1..Len(guestSeen'),
               i > guestPolicy.max_tool_calls
        PROVE  guestSeen'[i] = ErrEntry("limit_exceeded")
    <3>1. guestPolicy.max_tool_calls \in Nat
      BY <2>1 DEF IInv, TypeOK, Policies
    <3>2. i # Len(guestSeen) + 1
      BY <1>6, <1>8, <2>1, <3>1 DEF IInv, Bookkeeping
    <3>3. i \in 1..Len(guestSeen) BY <3>2
    <3> QED BY <2>1, <3>3 DEF IInv, RefusedCallsSpendBudget
  <2> QED BY <1>5, <2>1 DEF RefusedCallsSpendBudget
<1> QED BY <1>9, <1>10, <1>11, <1>12, <1>13 DEF IInv

\* The invariant survives every step of the replay.
LEMMA IInvGuestStep == IInv /\ GuestStep => IInv'
<1> SUFFICES ASSUME IInv, GuestStep PROVE IInv' OBVIOUS
<1>1. ASSUME NEW call \in Calls, NEW caught \in BOOLEAN, GuestCallRefused(call, caught)
      PROVE  IInv'
  <2> DEFINE e == ErrEntry(Verdict(call))
  <2>1. e \in Entries BY <1>1, VerdictType DEF GuestCallRefused
  <2>2. Answered(call, caught, e) /\ UNCHANGED <<cursor, served>>
    BY <1>1 DEF GuestCallRefused, Answered
  <2>3. guestPolicy # NoPolicy /\ callsMade + 1 > guestPolicy.max_tool_calls
          => e = ErrEntry("limit_exceeded")
    BY DEF Verdict
  <2>4. ~ e.ok BY DEF ErrEntry
  <2> HIDE DEF e
  <2> QED BY <2>1, <2>2, <2>3, <2>4, IInvUnserved
<1>2. ASSUME NEW call \in Calls, NEW caught \in BOOLEAN, GuestCallServed(call, caught)
      PROVE  IInv'
  BY <1>2, IInvServed
<1>3. ASSUME NEW call \in Calls, NEW caught \in BOOLEAN, GuestCallExhausted(call, caught)
      PROVE  IInv'
  <2> DEFINE e == ErrEntry("tape_exhausted")
  <2>1. e \in Entries /\ ~ e.ok BY DEF ErrEntry, Entries, Bodies, Messages
  <2>2. Answered(call, caught, e) /\ UNCHANGED <<cursor, served>>
    BY <1>3 DEF GuestCallExhausted, Answered
  <2>3. ~ (guestPolicy # NoPolicy /\ callsMade + 1 > guestPolicy.max_tool_calls)
    BY <1>3 DEF GuestCallExhausted, Verdict, Permitted
  <2> HIDE DEF e
  <2> QED BY <2>1, <2>2, <2>3, IInvUnserved
<1>4. ASSUME NEW call \in Calls, NEW caught \in BOOLEAN, GuestCallOverLimit(call, caught)
      PROVE  IInv'
  <2>1. DryInv'
    <3>1. guestSeen \in Seq(Entries) /\ CallStep(call, caught) \in CallSteps
      BY DEF IInv, TypeOK, CallStep, CallSteps
    <3> QED BY <1>4, <3>1, DryInvReplay DEF IInv, GuestCallOverLimit
  <2>2. TypeOK' BY <1>4, <2>1 DEF IInv, TypeOK, DryInv, GuestCallOverLimit
  <2>3. Bookkeeping' BY <1>4 DEF IInv, Bookkeeping, GuestCallOverLimit, dryVars
  <2>4. (Consumption /\ Budget /\ RefusedCallsSpendBudget)'
    BY <1>4 DEF IInv, Consumption, Budget, RefusedCallsSpendBudget, TapePayloadsFit,
                GuestCallOverLimit, dryVars
  <2>5. Execution' BY <1>4 DEF IInv, Execution, GuestCallOverLimit
  <2> QED BY <2>1, <2>2, <2>3, <2>4, <2>5 DEF IInv
<1>5. ASSUME NEW value \in Values, GuestReturn(value)
      PROVE  IInv'
  <2>1. /\ Decides(guestSeen, ReturnStep(value)) /\ guestPc = "replaying"
        /\ UNCHANGED <<dryVars, guestPolicy, guestCalls, guestSeen, cursor,
                       callsMade, served>>
    BY <1>5 DEF GuestReturn
  <2>2. guestSeen \in Seq(Entries) /\ ReturnStep(value) \in ReturnSteps
    BY DEF IInv, TypeOK, ReturnStep, ReturnSteps
  <2>3. DryInv' BY <2>1, <2>2, DryInvReplay DEF IInv
  <2>4. TypeOK'
    <3>1. guestPc' \in {"claimed", "failed"} BY <1>5 DEF GuestReturn
    <3>2. PublicInputs(guestPolicy, value) \in
            [policy_hash : Policies \cup {NoPolicy},
             tool_responses_hash : Seq(Entries),
             attestation_hash : Seq(Attestations \cup {NoAttestation}),
             output_hash : (Values \ {NonInteger}) \cup {0}]
      BY PublicInputsType DEF IInv, TypeOK
    <3>3. claim' = claim \/ claim' = PublicInputs(guestPolicy, value)
      BY <1>5 DEF GuestReturn
    <3> QED BY <2>1, <2>3, <3>1, <3>2, <3>3 DEF IInv, TypeOK, DryInv
  <2>5. Bookkeeping' BY <1>5, <2>1 DEF IInv, Bookkeeping, GuestReturn, dryVars
  <2>6. (Consumption /\ RefusedCallsSpendBudget)'
    BY <2>1 DEF IInv, Consumption, RefusedCallsSpendBudget, dryVars
  <2>7. Budget'
    BY <2>1 DEF IInv, Budget, TapePayloadsFit, dryVars
  <2>8. Execution'
    <3>1. Extends(prog, prog') BY <2>1, <2>2, ProgramTyped DEF IInv, DryInv
    <3>2. IsRunOf(prog', guestCalls, guestSeen)
      BY <2>1, <3>1, RunSurvives DEF IInv, Execution
    <3>3. Returns(prog', guestSeen, value)
      BY <2>1, ProgramRemembers DEF Returns
    <3>4. CASE value = dryReturn
      <4>1. PublicInputs(guestPolicy, value)' = PublicInputs(guestPolicy, dryReturn)'
        BY <3>4, <2>1 DEF dryVars
      <4>2. claim' = PublicInputs(guestPolicy, value)'
        BY <1>5, <2>1, <3>4 DEF GuestReturn, PublicInputs, dryVars
      <4> QED BY <1>5, <2>1, <3>2, <3>3, <3>4, <4>1, <4>2
              DEF Execution, GuestReturn, dryVars
    <3>5. CASE value # dryReturn
      <4>1. guestPc' = "failed" /\ claim' = claim BY <1>5, <3>5 DEF GuestReturn
      <4> QED BY <2>1, <4>1 DEF IInv, Execution
    <3> QED BY <3>4, <3>5
  <2> QED BY <2>3, <2>4, <2>5, <2>6, <2>7, <2>8 DEF IInv
<1> QED BY <1>1, <1>2, <1>3, <1>4, <1>5 DEF GuestStep

\* The invariant is inductive.
LEMMA IInvNext == IInv /\ [Next]_vars => IInv'
<1> SUFFICES ASSUME IInv, [Next]_vars PROVE IInv' OBVIOUS
<1>1. CASE DryNext /\ UNCHANGED guestVars BY <1>1, IInvDryRun
<1>2. ASSUME NEW policy \in GuestPolicies, StartReplay(policy) PROVE IInv'
  BY <1>2, IInvStart
<1>3. CASE GuestStep BY <1>3, IInvGuestStep
<1>4. CASE UNCHANGED vars
  BY <1>4 DEF vars, dryVars, guestVars, IInv, DryInv, DryTypeOK, TypeOK, Bookkeeping,
              Consumption, Budget, RefusedCallsSpendBudget, Execution, TapePayloadsFit,
              PublicInputs
<1> QED BY <1>1, <1>2, <1>3, <1>4 DEF Next

\* ... and so it always holds.
THEOREM Invariance == Spec => []IInv
<1>1. Init => IInv BY IInvInit
<1>2. IInv /\ [Next]_vars => IInv' BY IInvNext
<1> QED BY <1>1, <1>2, PTL DEF Spec

-----------------------------------------------------------------------------
(* The properties the runs check. *)

\* Every variable keeps its type (guest_input.rs, guest.rs, host.rs).
THEOREM TypeCorrect == Spec => []TypeOK
<1>1. IInv => TypeOK BY DEF IInv
<1> QED BY <1>1, Invariance, PTL

\* Under every policy, and whatever the dry run enforced, a replay consumes only
\* answers to calls the committed policy admits, at most max_tool_calls of them,
\* none over the payload cap (replay_public_inputs, PolicyEnforcingHost).
THEOREM PolicyBoundsReplay == Spec => []ServedWithinPolicy
<1>1. ASSUME IInv PROVE ServedWithinPolicy
  <2>1. ASSUME guestPc \in {"replaying", "claimed"}, guestPolicy # NoPolicy,
               NEW k \in 1..Len(served)
        PROVE  /\ Admits(guestPolicy, guestCalls[served[k]])
               /\ BodySize[guestSeen[served[k]].body]
                    <= guestPolicy.max_payload_bytes_per_call
    <3>1. guestSeen[served[k]] = tape[k] /\ k \in 1..Len(tape)
      <4>1. Len(served) <= Len(tape) /\ Len(served) \in Nat /\ Len(tape) \in Nat
        BY <1>1 DEF IInv, Bookkeeping, TypeOK, DryInv, DryTypeOK
      <4> QED BY <1>1, <4>1 DEF IInv, Consumption
    <3>2. TapePayloadsFit(guestPolicy) BY <1>1, <2>1 DEF IInv, Budget
    <3> QED BY <1>1, <2>1, <3>1, <3>2 DEF IInv, Budget, TapePayloadsFit
  <2> QED BY <1>1, <2>1 DEF IInv, Budget, ServedWithinPolicy
<1> QED BY <1>1, Invariance, PTL

\* Refused calls spend budget: past the cap there is only the limit error
\* (PolicyEnforcingHost::call_tool).
THEOREM NoFreeProbes == Spec => []RefusedCallsSpendBudget
<1>1. IInv => RefusedCallsSpendBudget BY DEF IInv
<1> QED BY <1>1, Invariance, PTL

\* A claim stands for an execution of the program on the committed tape
\* (replay_public_inputs and the driver's comparison of return values).
THEOREM ClaimSound == Spec => []ClaimIsExecution
<1>1. ASSUME IInv PROVE ClaimIsExecution
  BY <1>1 DEF IInv, Consumption, Execution, ClaimIsExecution, PublicInputs, ReturnValueI64
<1> QED BY <1>1, Invariance, PTL

\* Under every policy and for every reading of the urls: a dry run hands the live
\* host no HTTP call whose tool or read domain is off the lists, records its denial
\* and nothing else for one, and takes no response the schema of the read domain
\* rejects for a success (OraclePolicyHost).  Where the HTTP client goes with
\* a call it is handed is not part of the model.
THEOREM GateHolds == Spec => []DryRunGate
<1>1. Init => DryRunGate BY GateInit DEF Init
<1>2. IInv /\ DryRunGate /\ [Next]_vars => DryRunGate'
  <2> SUFFICES ASSUME IInv, DryRunGate, [Next]_vars PROVE DryRunGate' OBVIOUS
  <2>1. CASE DryNext BY <2>1, GateNext DEF IInv
  <2>2. CASE UNCHANGED dryVars BY <2>2 DEF DryRunGate, dryVars
  <2>3. DryNext \/ UNCHANGED dryVars
    BY DEF Next, vars, StartReplay, GuestStep, GuestCallRefused, GuestCallServed,
           GuestCallExhausted, GuestCallOverLimit, GuestReturn, GuestObserves
  <2> QED BY <2>1, <2>2, <2>3
<1> QED BY <1>1, <1>2, Invariance, PTL DEF Spec

-----------------------------------------------------------------------------
(* A run the policy admits is replayed as it was recorded. *)

\* Where an admissible replay has got to: some way along the tape.
OnTape ==
  /\ cursor = Len(guestSeen)
  /\ Len(guestSeen) <= Len(tape)
  /\ guestSeen = SubSeq(tape, 1, Len(guestSeen))
  /\ guestCalls = SubSeq(tapeCalls, 1, Len(guestSeen))

\* The call an admissible replay makes next is the one recorded next: there is
\* an entry for it, the policy lets it through, and the dry run got past it.
LEMMA NextCallIsRecorded ==
  ASSUME IInv, OnTape, guestPc = "replaying", Admissible(guestPolicy),
         NEW call \in Calls, NEW caught \in BOOLEAN,
         Decides(guestSeen, CallStep(call, caught))
  PROVE  /\ cursor < Len(tape)
         /\ call = tapeCalls[cursor + 1]
         /\ tape[cursor + 1].ok \/ caught
         /\ Verdict(call) = Permitted
<1>1. /\ tape \in Seq(Entries) /\ tapeCalls \in Seq(Calls)
      /\ Len(tapeCalls) = Len(tape) /\ Len(tape) \in Nat
      /\ Len(guestSeen) \in 0..Len(tape) /\ cursor = Len(guestSeen)
  BY DEF IInv, DryInv, DryTypeOK, TypeOK, OnTape
<1>2. IsRunOf(prog, tapeCalls, tape) /\ Returns(prog, tape, dryReturn)
  BY DEF IInv, DryInv, Bookkeeping
<1>3. /\ guestSeen = SubSeq(tape, 1, Len(guestSeen))
      /\ MayTake(prog, guestSeen, CallStep(call, caught))
  BY DEF OnTape, Decides, MayTake
<1>4. /\ cursor < Len(tape) /\ call = tapeCalls[cursor + 1]
      /\ tape[cursor + 1].ok \/ caught
  BY <1>1, <1>2, <1>3, PrefixCall
<1>5. CASE guestPolicy = NoPolicy BY <1>4, <1>5 DEF Verdict
<1>6. CASE guestPolicy # NoPolicy
  <2>1. guestPolicy.max_tool_calls \in Nat BY <1>6 DEF IInv, TypeOK, Policies
  <2>2. callsMade = cursor BY <1>1, <1>6 DEF IInv, Bookkeeping
  <2>3. Len(tape) <= guestPolicy.max_tool_calls /\ Admits(guestPolicy, call)
    BY <1>1, <1>4, <1>6 DEF Admissible
  <2>4. ~ (callsMade + 1 > guestPolicy.max_tool_calls)
    BY <1>1, <1>4, <2>1, <2>2, <2>3
  <2>5. IsHttpTool(call.tool) => CheckHttpCall(guestPolicy, call) = Permitted
    BY <2>3, PermittedIsAdmitted
  <2> QED BY <1>4, <2>4, <2>5 DEF Verdict
<1> QED BY <1>5, <1>6

\* An admissible replay returns only at the end of the tape, and what was
\* recorded.
LEMMA ReturnIsRecorded ==
  ASSUME IInv, OnTape, NEW value, Decides(guestSeen, ReturnStep(value)),
         guestPc = "replaying"
  PROVE  guestSeen = tape /\ value = dryReturn
<1>1. /\ tape \in Seq(Entries) /\ tapeCalls \in Seq(Calls)
      /\ Len(tape) \in Nat /\ Len(guestSeen) \in 0..Len(tape)
  BY DEF IInv, DryInv, DryTypeOK, TypeOK, OnTape
<1>2. IsRunOf(prog, tapeCalls, tape) /\ Returns(prog, tape, dryReturn)
  BY DEF IInv, DryInv, Bookkeeping
<1>3. /\ guestSeen = SubSeq(tape, 1, Len(guestSeen))
      /\ MayTake(prog, guestSeen, ReturnStep(value))
  BY DEF OnTape, Decides, MayTake
<1> QED BY <1>1, <1>2, <1>3, PrefixReturn

\* What is kept along an admissible replay, claimed or lost to the size check.
Tracks == GuestTracksDryRun /\ AdmissibleRunIsProvable

\* An admissible replay stays on the tape, call by call.
LEMMA TracksGuestStep == IInv /\ Tracks /\ GuestStep => Tracks'
<1> SUFFICES ASSUME IInv, Tracks, GuestStep PROVE Tracks' OBVIOUS
<1>1. guestPc = "replaying" /\ UNCHANGED <<dryVars, guestPolicy>>
  BY DEF GuestStep, GuestCallRefused, GuestCallServed, GuestCallExhausted,
         GuestCallOverLimit, GuestReturn, GuestMakesCall, GuestObserves
<1>2. Admissible(guestPolicy)' = Admissible(guestPolicy)
  BY <1>1 DEF Admissible, dryVars
<1>3. CASE ~ Admissible(guestPolicy)
  BY <1>2, <1>3 DEF Tracks, GuestTracksDryRun, AdmissibleRunIsProvable
<1>4. CASE Admissible(guestPolicy)
  <2>1. OnTape BY <1>1, <1>4 DEF Tracks, GuestTracksDryRun, OnTape
  <2>2. /\ tape \in Seq(Entries) /\ tapeCalls \in Seq(Calls)
        /\ Len(tapeCalls) = Len(tape) /\ Len(tape) \in Nat
        /\ Len(guestSeen) \in Nat /\ cursor = Len(guestSeen)
        /\ Len(tape) <= VmMaxToolCalls /\ VmMaxToolCalls \in Nat
    BY <2>1, DryRunAssumption DEF IInv, DryInv, DryTypeOK, TypeOK, OnTape
  <2>3. ASSUME NEW call \in Calls, NEW caught \in BOOLEAN,
               GuestCallRefused(call, caught) \/ GuestCallExhausted(call, caught)
        PROVE  FALSE
    <3>1. Decides(guestSeen, CallStep(call, caught))
      BY <2>3 DEF GuestCallRefused, GuestCallExhausted, GuestMakesCall
    <3>2. cursor < Len(tape) /\ Verdict(call) = Permitted
      BY <1>1, <1>4, <2>1, <3>1, NextCallIsRecorded
    <3> QED BY <2>2, <2>3, <3>2 DEF GuestCallRefused, GuestCallExhausted
  <2>4. ASSUME NEW call \in Calls, NEW caught \in BOOLEAN,
               GuestCallOverLimit(call, caught)
        PROVE  FALSE
    <3>1. Decides(guestSeen, CallStep(call, caught)) /\ Len(guestSeen) = VmMaxToolCalls
      BY <2>4 DEF GuestCallOverLimit
    <3>2. cursor < Len(tape) BY <1>1, <1>4, <2>1, <3>1, NextCallIsRecorded
    <3> QED BY <2>2, <3>1, <3>2
  <2>5. ASSUME NEW call \in Calls, NEW caught \in BOOLEAN,
               GuestCallServed(call, caught)
        PROVE  Tracks'
    <3>1. Decides(guestSeen, CallStep(call, caught)) /\ cursor' = cursor + 1
      BY <2>5 DEF GuestCallServed, GuestMakesCall
    <3>2. /\ cursor < Len(tape) /\ call = tapeCalls[cursor + 1]
          /\ tape[cursor + 1].ok \/ caught
      BY <1>1, <1>4, <2>1, <3>1, NextCallIsRecorded
    <3>3. /\ guestSeen' = Append(guestSeen, tape[cursor + 1])
          /\ guestCalls' = Append(guestCalls, tapeCalls[cursor + 1])
          /\ guestPc' = "replaying"
      BY <2>5, <3>2 DEF GuestCallServed, GuestMakesCall, GuestObserves
    <3>4. guestSeen' = SubSeq(tape, 1, Len(guestSeen) + 1)
      BY <2>1, <2>2, <3>2, <3>3, PrefixStep DEF OnTape
    <3>5. guestCalls' = SubSeq(tapeCalls, 1, Len(guestSeen) + 1)
      BY <2>1, <2>2, <3>2, <3>3, PrefixStep DEF OnTape
    <3>6. Len(guestSeen') = Len(guestSeen) + 1 BY <2>2, <3>2, <3>4
    <3> QED BY <1>1, <2>2, <3>1, <3>2, <3>3, <3>4, <3>5, <3>6
            DEF Tracks, GuestTracksDryRun, AdmissibleRunIsProvable, dryVars
  <2>6. ASSUME NEW value \in Values, GuestReturn(value)
        PROVE  Tracks'
    <3>1. guestSeen = tape /\ value = dryReturn
      BY <1>1, <2>1, <2>6, ReturnIsRecorded DEF GuestReturn
    <3>2. guestPc' = "claimed" /\ UNCHANGED <<guestCalls, guestSeen, cursor>>
      BY <2>6, <3>1 DEF GuestReturn
    <3> QED BY <1>1, <2>1, <3>1, <3>2
            DEF Tracks, GuestTracksDryRun, AdmissibleRunIsProvable, OnTape, dryVars
  <2> QED BY <2>3, <2>4, <2>5, <2>6 DEF GuestStep
<1> QED BY <1>3, <1>4

\* ... and so does every other step.
LEMMA TracksNext == IInv /\ Tracks /\ [Next]_vars => Tracks'
<1> SUFFICES ASSUME IInv, Tracks, [Next]_vars PROVE Tracks' OBVIOUS
<1> USE DEF Tracks, GuestTracksDryRun, AdmissibleRunIsProvable
<1>1. CASE DryNext /\ UNCHANGED guestVars
  <2>1. dryPc = "running"
    BY <1>1 DEF DryNext, DryCall, DryCallOverLimit, DryReturn
  <2>2. guestPc = "idle" BY <2>1 DEF IInv, Bookkeeping
  <2> QED BY <1>1, <2>2 DEF guestVars
<1>2. ASSUME NEW policy \in GuestPolicies, StartReplay(policy) PROVE Tracks'
  <2>1. /\ guestSeen' = << >> /\ guestCalls' = << >> /\ cursor' = 0
        /\ UNCHANGED dryVars /\ guestPc' \in {"replaying", "failed"}
        /\ guestPc' = "failed" => guestPolicy' # NoPolicy /\ ~ TapePayloadsFit(guestPolicy')
    BY <1>2 DEF IInv, Bookkeeping, TypeOK, StartReplay
  <2>2. Len(tape) \in Nat /\ tape \in Seq(Entries) /\ tapeCalls \in Seq(Calls)
    BY DEF IInv, DryInv, DryTypeOK
  <2>3. SubSeq(tape, 1, 0) = << >> /\ SubSeq(tapeCalls, 1, 0) = << >> BY <2>2
  <2> QED BY <2>1, <2>2, <2>3 DEF TapePayloadsFit, dryVars
<1>3. CASE GuestStep BY <1>3, TracksGuestStep
<1>4. CASE UNCHANGED vars
  BY <1>4 DEF vars, dryVars, guestVars, Admissible, TapePayloadsFit
<1> QED BY <1>1, <1>2, <1>3, <1>4 DEF Next

\* A replay under a policy that admits the recorded run is bit-identical to it
\* (guest_input.rs:64-65, for the runs of which it is true).
THEOREM AdmissibleReplayIsDryRun == Spec => []GuestTracksDryRun
<1>1. Init => Tracks
  BY DEF Init, GuestInit, Tracks, GuestTracksDryRun, AdmissibleRunIsProvable
<1>2. IInv /\ Tracks /\ [Next]_vars => Tracks' BY TracksNext
<1>3. Tracks => GuestTracksDryRun BY DEF Tracks
<1> QED BY <1>1, <1>2, <1>3, Invariance, PTL DEF Spec

\* A run the policy admits is never lost, except to the payload cap
\* (policy/mod.rs:460-461, for the runs of which it is true).
THEOREM AdmissibleRunNotLost == Spec => []AdmissibleRunIsProvable
<1>1. Init => Tracks
  BY DEF Init, GuestInit, Tracks, GuestTracksDryRun, AdmissibleRunIsProvable
<1>2. IInv /\ Tracks /\ [Next]_vars => Tracks' BY TracksNext
<1>3. Tracks => AdmissibleRunIsProvable BY DEF Tracks
<1> QED BY <1>1, <1>2, <1>3, Invariance, PTL DEF Spec

-----------------------------------------------------------------------------
(* The gateway. *)

\* A call and an attestation for each answer, edited or not.
Shape == Len(tapeCalls) = Len(tape) /\ Len(tapeAtts) = Len(tape)

\* The guest replay has not begun.
Waiting ==
  gwPc \in {"recording", "stored", "strict"} =>
    /\ guestPc = "idle"
    /\ guestCalls = << >> /\ guestSeen = << >>
    /\ cursor = 0 /\ callsMade = 0
    /\ predicted = NoClaim /\ written = 0
    /\ gwPc # "strict" => strictSeen = << >>

\* The first n recorded calls and answers are a run of the program.
RunsUpTo(n) == IsRunOf(prog, SubSeq(tapeCalls, 1, n), SubSeq(tape, 1, n))

\* What the strict replay has found out.
StrictSoFar ==
  gwPc = "strict" =>
    /\ source = "matches"
    /\ Len(strictSeen) <= Len(tape) /\ Len(strictSeen) <= VmMaxToolCalls
    /\ strictSeen = SubSeq(tape, 1, Len(strictSeen))
    /\ RunsUpTo(Len(strictSeen))

\* The recording is a complete run of the program.
Execute ==
  /\ source = "matches"
  /\ IsRunOf(prog, tapeCalls, tape)
  /\ Returns(prog, tape, dryReturn)
  /\ Output(dryReturn) = footer.output
  /\ Len(tape) = footer.calls
  /\ Len(tape) <= VmMaxToolCalls

\* The guest replay is in step with the recording.
GuestInStep ==
  gwPc = "guest" =>
    /\ Execute
    /\ guestPc = "replaying" /\ guestPolicy = PolicyFor /\ predicted = NoClaim
    /\ Len(guestSeen) <= Len(tape)
    /\ cursor = Len(guestSeen) /\ callsMade = Len(guestSeen)
    /\ guestSeen = SubSeq(tape, 1, Len(guestSeen))
    /\ guestCalls = SubSeq(tapeCalls, 1, Len(guestSeen))

\* What a prediction stands on.
Predicted ==
  /\ gwPc = "reconstructed" => guestPc = "claimed"
  /\ guestPc = "claimed" \/ predicted # NoClaim =>
       /\ gwPc \in {"reconstructed", "refused"}
       /\ Execute
       /\ guestPc = "claimed"
       /\ predicted = PublicInputs(PolicyFor, dryReturn)
       /\ guestSeen = tape /\ guestCalls = tapeCalls /\ replayed = dryReturn

\* As long as nobody edited it, the trace is the record of a dry run.
Genuine ==
  /\ gwPc = "recording" => edits = 0
  /\ edits = 0 =>
       /\ DryInv
       /\ source = "matches"
       /\ dryPc = "recorded" => dryReturn \in Values
       /\ gwPc # "recording" /\ dryPc = "recorded" =>
            footer.output = Output(dryReturn) /\ footer.calls = Len(tape)

\* The driver's files, as far as they are its own.
DriverOwnFiles ==
  /\ driverPc # "idle" => predicted # NoClaim
  /\ driverPc \in {"replayed", "written", "proved", "verified"} /\ flags.policy =>
       expected = predicted
  /\ driverPc \in {"written", "proved", "verified"} /\ flags.private =>
       inputFile = expected
  /\ driverPc \in {"proved", "verified"} /\ flags.private => proofFile = inputFile

\* What the gateway's and the reconstruction's steps preserve.
GatewayInv ==
  /\ TypeOK
  /\ bytesIn \in Nat
  /\ gwPc \in {"recording", "stored", "strict", "guest", "reconstructed", "refused"}
  /\ source \in {"matches", "differs", "unreadable"}
  /\ footer \in [output : Values \cup {NoOutput}, calls : Nat]
  /\ edits \in 0..MaxEdits
  /\ strictSeen \in Seq(Entries)
  /\ replayed \in Values \cup {NonInteger}
  /\ written \in 0..4
  /\ written > 0 => guestPc = "claimed"
  /\ Shape
  /\ Waiting
  /\ StrictSoFar
  /\ GuestInStep
  /\ Predicted
  /\ Genuine
  /\ GenuineTraceReconstructs

\* What the driver's steps preserve.
DriverInv ==
  /\ driverPc \in {"idle", "replayed", "written", "proved", "verified", "failed"}
  /\ flags \in [policy : BOOLEAN, config : BOOLEAN, private : BOOLEAN]
  /\ DriverOwnFiles

\* The inductive invariant.
TraceInv == GatewayInv /\ DriverInv

\* Everything the gateway's invariant speaks of.
TraceState == <<vars, gatewayVars>>

-----------------------------------------------------------------------------
\* A stutter keeps the gateway's invariant.
LEMMA GatewayKeeps ==
  ASSUME GatewayInv, UNCHANGED TraceState PROVE GatewayInv'
BY DEF TraceState, vars, dryVars, guestVars, gatewayVars, GatewayInv, TypeOK, DryTypeOK, Shape,
       Waiting, StrictSoFar, RunsUpTo, Execute, GuestInStep, Predicted, Genuine, DryInv,
       GenuineTraceReconstructs, PolicyFor, PublicInputs, TapePayloadsFit

\* The policy made of a trace's limits is a policy, and restricts no call.
LEMMA PolicyForAdmits ==
  ASSUME bytesIn \in Nat
  PROVE  /\ PolicyFor \in Policies /\ PolicyFor # NoPolicy
         /\ \A call : CheckHttpCall(PolicyFor, call) = Permitted
         /\ PolicyFor.max_tool_calls = VmMaxToolCalls
<1>1. VmMaxToolCalls \in Nat /\ NoPolicy \notin Policies BY DryRunAssumption
<1>2. PolicyFor \in Policies BY <1>1 DEF PolicyFor, Policies
<1>3. PolicyFor # NoPolicy BY <1>1, <1>2
<1>4. \A call : CheckHttpCall(PolicyFor, call) = Permitted
  BY DEF PolicyFor, CheckHttpCall
<1>5. PolicyFor.max_tool_calls = VmMaxToolCalls BY DEF PolicyFor
<1> QED BY <1>2, <1>3, <1>4, <1>5

\* Before anything is recorded.
LEMMA GatewayInvInit == Init /\ GatewayInit => GatewayInv
<1> SUFFICES ASSUME Init, GatewayInit PROVE GatewayInv OBVIOUS
<1>1. IInv BY IInvInit
<1>2. DryInv /\ TypeOK BY <1>1 DEF IInv
<1>3. /\ guestPc = "idle" /\ guestCalls = << >> /\ guestSeen = << >>
      /\ cursor = 0 /\ callsMade = 0
  BY DEF Init, GuestInit
<1>4. Shape BY <1>2 DEF Shape, DryInv
<1>5. footer \in [output : Values \cup {NoOutput}, calls : Nat] BY DEF GatewayInit
<1>6. /\ bytesIn \in Nat /\ edits \in 0..MaxEdits /\ strictSeen \in Seq(Entries)
      /\ replayed \in Values \cup {NonInteger} /\ written \in 0..4
  BY GatewayTraceAssumption DEF GatewayInit
<1>7. Waiting /\ StrictSoFar /\ GuestInStep /\ Predicted /\ GenuineTraceReconstructs
  BY <1>3 DEF GatewayInit, Waiting, StrictSoFar, GuestInStep, Predicted,
              GenuineTraceReconstructs
<1>8. Genuine BY <1>2 DEF Genuine, GatewayInit, Init, DryInit
<1> QED BY <1>2, <1>3, <1>4, <1>5, <1>6, <1>7, <1>8 DEF GatewayInv, GatewayInit

-----------------------------------------------------------------------------
(* The store. *)

\* The gateway's run is a dry run.
LEMMA RecordKeeps == GatewayInv /\ RecordStep => GatewayInv'
<1> SUFFICES ASSUME GatewayInv, RecordStep PROVE GatewayInv' OBVIOUS
<1>1. /\ gwPc = "recording" /\ DryNext /\ UNCHANGED <<guestVars, gatewayVars>>
  BY DEF RecordStep
<1>2. edits = 0 BY <1>1 DEF GatewayInv, Genuine
<1>3. DryInv' BY <1>1, <1>2, DryInvNext DEF GatewayInv, Genuine
<1>4. TypeOK' BY <1>1, <1>3 DEF GatewayInv, TypeOK, DryInv, guestVars
<1>5. Shape' BY <1>3 DEF Shape, DryInv
<1>6. (Waiting /\ StrictSoFar /\ GuestInStep /\ GenuineTraceReconstructs)'
  BY <1>1 DEF GatewayInv, Waiting, StrictSoFar, GuestInStep, GenuineTraceReconstructs,
              guestVars, gatewayVars
<1>7. Predicted' BY <1>1 DEF GatewayInv, Waiting, Predicted, guestVars, gatewayVars
<1>8. Genuine'
  <2>1. dryPc' = "recorded" => dryReturn' \in Values
    BY <1>1 DEF DryNext, DryCall, DryCallOverLimit, DryReturn
  <2> QED BY <1>1, <1>2, <1>3, <2>1 DEF GatewayInv, Genuine, gatewayVars
<1> QED BY <1>1, <1>4, <1>5, <1>6, <1>7, <1>8 DEF GatewayInv, guestVars, gatewayVars

\* Storing the trace writes down what the run returned.
LEMMA StoreKeeps == GatewayInv /\ StoreTrace => GatewayInv'
<1> SUFFICES ASSUME GatewayInv, StoreTrace PROVE GatewayInv' OBVIOUS
<1>1. /\ gwPc = "recording" /\ dryPc # "running" /\ gwPc' = "stored"
      /\ bytesIn' \in ByteLimits
      /\ footer' = [output |-> IF dryPc = "recorded" THEN Output(dryReturn) ELSE NoOutput,
                    calls  |-> Len(tape)]
      /\ UNCHANGED <<vars, source, edits, strictSeen, replayed, predicted, written>>
  BY DEF StoreTrace
<1>2. edits = 0 /\ DryInv BY <1>1 DEF GatewayInv, Genuine
<1>4. footer' \in [output : Values \cup {NoOutput}, calls : Nat]
  <2>1. Len(tape) \in Nat BY <1>2 DEF DryInv, DryTypeOK
  <2>2. Output(dryReturn) \in Values \cup {NoOutput} \/ dryPc # "recorded"
    BY <1>2 DEF GatewayInv, Genuine, Output
  <2> QED BY <1>1, <2>1, <2>2
<1>5. bytesIn' \in Nat BY <1>1, GatewayTraceAssumption
<1>6. TypeOK' /\ Shape' BY <1>1 DEF GatewayInv, TypeOK, DryTypeOK, Shape, vars, dryVars, guestVars
<1>7. (Waiting /\ StrictSoFar /\ GuestInStep /\ GenuineTraceReconstructs)'
  BY <1>1 DEF GatewayInv, Waiting, StrictSoFar, GuestInStep, GenuineTraceReconstructs,
              vars, guestVars
<1>8. Predicted' BY <1>1 DEF GatewayInv, Waiting, Predicted, vars, guestVars
<1>9. Genuine'
  BY <1>1, <1>2 DEF GatewayInv, Genuine, DryInv, DryTypeOK, vars, dryVars
<1> QED BY <1>1, <1>4, <1>5, <1>6, <1>7, <1>8, <1>9 DEF GatewayInv, vars, guestVars

\* Whatever is edited, the store holds a trace.
LEMMA EditedRecords ==
  ASSUME GatewayInv, EditRecords
  PROVE  /\ tape' \in Seq(Entries) /\ tapeCalls' \in Seq(Calls)
         /\ tapeAtts' \in Seq(Attestations \cup {NoAttestation})
         /\ Shape'
<1> DEFINE Atts == Attestations \cup {NoAttestation}
<1>1. /\ tape \in Seq(Entries) /\ tapeCalls \in Seq(Calls) /\ tapeAtts \in Seq(Atts)
      /\ Len(tapeCalls) = Len(tape) /\ Len(tapeAtts) = Len(tape)
  BY DEF GatewayInv, TypeOK, DryTypeOK, Shape
<1>2. RecordedEntries \subseteq Entries
  <2>1. ErrEntry("tool_failed") \in Entries BY DEF Entries, Bodies, Messages, ErrEntry
  <2>2. \A p \in Payloads : OkEntry(p) \in Entries BY DEF Entries, Bodies, OkEntry
  <2> QED BY <2>1, <2>2 DEF RecordedEntries
<1>3. ASSUME NEW i \in 1..Len(tape), NEW entry \in RecordedEntries,
             tape' = [tape EXCEPT ![i] = entry], UNCHANGED <<tapeCalls, tapeAtts>>
      PROVE  tape' \in Seq(Entries) /\ Len(tape') = Len(tape)
  BY <1>1, <1>2, <1>3
<1>4. ASSUME NEW i \in 1..Len(tape), NEW call \in Calls,
             tapeCalls' = [tapeCalls EXCEPT ![i] = call], UNCHANGED <<tape, tapeAtts>>
      PROVE  tapeCalls' \in Seq(Calls) /\ Len(tapeCalls') = Len(tapeCalls)
  BY <1>1, <1>4
<1>5. ASSUME tape # << >>,
             tape' = SubSeq(tape, 1, Len(tape) - 1),
             tapeCalls' = SubSeq(tapeCalls, 1, Len(tape) - 1),
             tapeAtts' = SubSeq(tapeAtts, 1, Len(tape) - 1)
      PROVE  /\ tape' \in Seq(Entries) /\ tapeCalls' \in Seq(Calls) /\ tapeAtts' \in Seq(Atts)
             /\ Len(tapeCalls') = Len(tape') /\ Len(tapeAtts') = Len(tape')
  <2>1. Len(tape) - 1 \in 0..Len(tape) /\ Len(tape) \in Nat BY <1>1, <1>5
  <2> HIDE DEF Atts
  <2> QED BY <1>1, <1>5, <2>1
<1>6. ASSUME NEW call \in Calls, NEW entry \in RecordedEntries,
             tape' = Append(tape, entry), tapeCalls' = Append(tapeCalls, call),
             tapeAtts' = Append(tapeAtts, NoAttestation)
      PROVE  /\ tape' \in Seq(Entries) /\ tapeCalls' \in Seq(Calls) /\ tapeAtts' \in Seq(Atts)
             /\ Len(tapeCalls') = Len(tape') /\ Len(tapeAtts') = Len(tape')
  <2>1. NoAttestation \in Atts /\ entry \in Entries BY <1>2
  <2> HIDE DEF Atts
  <2> QED BY <1>1, <1>6, <2>1
<1> HIDE DEF Atts
<1>7. /\ tape' \in Seq(Entries) /\ tapeCalls' \in Seq(Calls) /\ tapeAtts' \in Seq(Atts)
      /\ Len(tapeCalls') = Len(tape') /\ Len(tapeAtts') = Len(tape')
  BY <1>1, <1>3, <1>4, <1>5, <1>6 DEF EditRecords
<1> QED BY <1>7 DEF Shape, Atts

\* Only a stored trace is edited, and then nothing has been replayed yet.
LEMMA EditKeeps == GatewayInv /\ EditTrace => GatewayInv'
<1> SUFFICES ASSUME GatewayInv, EditTrace PROVE GatewayInv' OBVIOUS
<1>1. /\ gwPc = "stored" /\ edits < MaxEdits /\ edits' = edits + 1
      /\ UNCHANGED <<prog, dryPc, dryPolicy, dryReturn, forwarded, guestVars, bytesIn, gwPc,
                     strictSeen, replayed, predicted, written>>
      /\ EditRecords \/ EditFooter \/ EditSource
  BY DEF EditTrace
<1>2. edits' \in 0..MaxEdits /\ edits' # 0
  BY <1>1, GatewayTraceAssumption DEF GatewayInv
<1>3. /\ tape' \in Seq(Entries) /\ tapeCalls' \in Seq(Calls)
      /\ tapeAtts' \in Seq(Attestations \cup {NoAttestation})
      /\ Shape'
  <2>1. CASE EditRecords BY <2>1, EditedRecords
  <2>2. CASE UNCHANGED <<tape, tapeCalls, tapeAtts>>
    BY <2>2 DEF GatewayInv, TypeOK, DryTypeOK, Shape
  <2> QED BY <1>1, <2>1, <2>2 DEF EditFooter, EditSource
<1>4. TypeOK' BY <1>1, <1>3 DEF GatewayInv, TypeOK, DryTypeOK, guestVars
<1>5. footer' \in [output : Values \cup {NoOutput}, calls : Nat]
  BY <1>1, DryRunAssumption DEF GatewayInv, EditRecords, EditFooter, EditSource
<1>6. source' \in {"matches", "differs", "unreadable"}
  BY <1>1 DEF GatewayInv, EditRecords, EditFooter, EditSource
<1>7. (Waiting /\ StrictSoFar /\ GuestInStep /\ GenuineTraceReconstructs)'
  BY <1>1 DEF GatewayInv, Waiting, StrictSoFar, GuestInStep, GenuineTraceReconstructs,
              guestVars
<1>8. Predicted' BY <1>1 DEF GatewayInv, Waiting, Predicted, guestVars
<1>9. Genuine' BY <1>1, <1>2 DEF Genuine
<1> QED BY <1>1, <1>2, <1>3, <1>4, <1>5, <1>6, <1>7, <1>8, <1>9 DEF GatewayInv, guestVars

-----------------------------------------------------------------------------
(* The strict replay. *)

\* It begins with nothing replayed.
LEMMA StartKeeps == GatewayInv /\ StartReconstruct => GatewayInv'
<1> SUFFICES ASSUME GatewayInv, StartReconstruct PROVE GatewayInv' OBVIOUS
<1>1. /\ gwPc = "stored"
      /\ gwPc' = IF source = "matches" THEN "strict" ELSE "refused"
      /\ UNCHANGED <<vars, bytesIn, source, footer, edits, strictSeen, replayed, predicted,
                     written>>
  BY DEF StartReconstruct
<1>2. TypeOK' /\ Shape' BY <1>1 DEF GatewayInv, TypeOK, DryTypeOK, Shape, vars, dryVars, guestVars
<1>3. Waiting'
  BY <1>1 DEF GatewayInv, Waiting, vars, guestVars
<1>4. StrictSoFar'
  <2>1. strictSeen = << >> BY <1>1 DEF GatewayInv, Waiting
  <2>2. tape \in Seq(Entries) /\ tapeCalls \in Seq(Calls) BY DEF GatewayInv, TypeOK, DryTypeOK
  <2>3. SubSeq(tape, 1, 0) = << >> /\ SubSeq(tapeCalls, 1, 0) = << >> BY <2>2
  <2>4. Len(strictSeen) = 0 /\ Len(tape) \in Nat /\ VmMaxToolCalls \in Nat
    BY <2>1, <2>2, DryRunAssumption
  <2>5. RunsUpTo(0) BY <2>3 DEF RunsUpTo, IsRunOf
  <2> QED BY <1>1, <2>1, <2>3, <2>4, <2>5 DEF StrictSoFar, RunsUpTo, vars, dryVars
<1>5. GuestInStep' BY <1>1 DEF GuestInStep
<1>6. Predicted' BY <1>1 DEF GatewayInv, Waiting, Predicted, vars, guestVars
<1>7. Genuine' BY <1>1 DEF GatewayInv, Genuine, DryInv, DryTypeOK, vars, dryVars
<1>8. GenuineTraceReconstructs'
  BY <1>1 DEF GatewayInv, Genuine, GenuineTraceReconstructs
<1> QED BY <1>1, <1>2, <1>3, <1>4, <1>5, <1>6, <1>7, <1>8 DEF GatewayInv, vars, guestVars

\* A replay, of either kind, consults the program and leaves the record alone.
LEMMA ReplayConsults ==
  ASSUME GatewayInv, NEW h \in Seq(Entries), NEW s \in CallSteps \cup ReturnSteps,
         Decides(h, s), UNCHANGED dryVars
  PROVE  /\ DryTypeOK' /\ Shape'
         /\ Extends(prog, prog')
         /\ edits = 0 => DryInv'
<1>1. DryTypeOK BY DEF GatewayInv, TypeOK
<1>2. /\ (DOMAIN prog \subseteq Seq(Entries))'
      /\ (\A g \in DOMAIN prog : prog[g] \in CallSteps \cup ReturnSteps)'
      /\ Extends(prog, prog')
  BY <1>1, ProgramTyped
<1>3. DryTypeOK' BY <1>1, <1>2 DEF DryTypeOK, dryVars
<1>4. Shape' BY DEF GatewayInv, Shape, dryVars
<1>5. edits = 0 => DryInv' BY DryInvReplay DEF GatewayInv, Genuine
<1> QED BY <1>2, <1>3, <1>4, <1>5

\* The strict replay of a genuine trace makes the recorded call, and gets past it.
LEMMA GenuineCall ==
  ASSUME GatewayInv, gwPc = "strict", edits = 0, dryPc = "recorded",
         NEW call \in Calls, NEW caught \in BOOLEAN,
         Decides(strictSeen, CallStep(call, caught))
  PROVE  /\ Len(strictSeen) < VmMaxToolCalls
         /\ StrictServes(call)
         /\ tape[Len(strictSeen) + 1].ok \/ caught
<1>1. /\ IsRunOf(prog, tapeCalls, tape) /\ Returns(prog, tape, dryReturn)
      /\ Len(tape) <= VmMaxToolCalls
      /\ tape \in Seq(Entries) /\ tapeCalls \in Seq(Calls)
  BY DEF GatewayInv, Genuine, DryInv, DryTypeOK
<1>2. /\ Len(strictSeen) \in 0..Len(tape)
      /\ strictSeen = SubSeq(tape, 1, Len(strictSeen))
  BY <1>1 DEF GatewayInv, StrictSoFar
<1>3. MayTake(prog, strictSeen, CallStep(call, caught)) BY DEF Decides, MayTake
<1>4. /\ Len(strictSeen) < Len(tape)
      /\ call = tapeCalls[Len(strictSeen) + 1]
      /\ tape[Len(strictSeen) + 1].ok \/ caught
  BY <1>1, <1>2, <1>3, PrefixCall
<1> QED BY <1>1, <1>2, <1>4, DryRunAssumption DEF StrictServes

\* A recorded call gets the recorded answer.
LEMMA StrictServedKeeps ==
  ASSUME GatewayInv, NEW call \in Calls, NEW caught \in BOOLEAN,
         StrictCallServed(call, caught)
  PROVE  GatewayInv'
<1> DEFINE n == Len(strictSeen)
           e == tape[n + 1]
<1>1. /\ gwPc = "strict" /\ Decides(strictSeen, CallStep(call, caught))
      /\ UNCHANGED <<dryVars, guestVars, bytesIn, source, footer, edits, replayed, predicted,
                     written>>
      /\ n < VmMaxToolCalls /\ n < Len(tape) /\ tapeCalls[n + 1] = call
      /\ strictSeen' = Append(strictSeen, e)
      /\ gwPc' = IF e.ok \/ caught THEN "strict" ELSE "refused"
  BY DEF StrictCallServed, StrictMakesCall, StrictServes
<1>2. /\ tape \in Seq(Entries) /\ tapeCalls \in Seq(Calls) /\ strictSeen \in Seq(Entries)
      /\ Len(tapeCalls) = Len(tape) /\ n \in Nat /\ VmMaxToolCalls \in Nat
  BY DryRunAssumption DEF GatewayInv, TypeOK, DryTypeOK, Shape
<1>3. CallStep(call, caught) \in CallSteps BY DEF CallStep, CallSteps
<1>4. /\ DryTypeOK' /\ Shape' /\ Extends(prog, prog')
      /\ edits = 0 => DryInv'
  BY <1>1, <1>2, <1>3, ReplayConsults
<1>5. TypeOK' BY <1>1, <1>4 DEF GatewayInv, TypeOK, guestVars
<1>6. e \in Entries BY <1>1, <1>2
<1>7. strictSeen' \in Seq(Entries) /\ Len(strictSeen') = n + 1
  BY <1>1, <1>2, <1>6
<1>8. strictSeen = SubSeq(tape, 1, n) /\ RunsUpTo(n) /\ source = "matches"
  BY <1>1 DEF GatewayInv, StrictSoFar
<1>9. /\ Append(SubSeq(tape, 1, n), e) = SubSeq(tape, 1, n + 1)
      /\ Append(SubSeq(tapeCalls, 1, n), call) = SubSeq(tapeCalls, 1, n + 1)
  BY <1>1, <1>2, PrefixStep
<1>10. strictSeen' = SubSeq(tape, 1, n + 1) BY <1>1, <1>8, <1>9
<1>11. e.ok \/ caught => IsRunOf(prog', SubSeq(tapeCalls, 1, n + 1), SubSeq(tape, 1, n + 1))
  <2>1. IsRunOf(prog', SubSeq(tapeCalls, 1, n), SubSeq(tape, 1, n))
    BY <1>4, <1>8, RunSurvives DEF RunsUpTo
  <2>2. strictSeen \in DOMAIN prog' /\ prog'[strictSeen] = CallStep(call, caught)
    BY <1>1, ProgramRemembers
  <2>3. SubSeq(tapeCalls, 1, n) \in Seq(Calls) /\ SubSeq(tape, 1, n) \in Seq(Entries)
    BY <1>1, <1>2
  <2> QED BY <1>6, <1>8, <1>9, <2>1, <2>2, <2>3, RunGrows
<1>12. StrictSoFar'
  BY <1>1, <1>2, <1>7, <1>8, <1>10, <1>11 DEF StrictSoFar, RunsUpTo, dryVars
<1>13. Waiting' BY <1>1 DEF GatewayInv, Waiting, guestVars
<1>14. GuestInStep' BY <1>1 DEF GuestInStep
<1>15. Predicted' BY <1>1 DEF GatewayInv, Waiting, Predicted, guestVars
<1>16. Genuine' BY <1>1, <1>4 DEF GatewayInv, Genuine, dryVars
<1>17. GenuineTraceReconstructs'
  BY <1>1, GenuineCall DEF GenuineTraceReconstructs, dryVars
<1> QED BY <1>1, <1>4, <1>5, <1>7, <1>12, <1>13, <1>14, <1>15, <1>16, <1>17
        DEF GatewayInv, guestVars

\* Any other call ends the reconstruction, and no genuine trace has one.
LEMMA StrictRefusedKeeps ==
  ASSUME GatewayInv, NEW call \in Calls, NEW caught \in BOOLEAN,
         StrictCallRefused(call, caught)
  PROVE  GatewayInv'
<1>1. /\ gwPc = "strict" /\ Decides(strictSeen, CallStep(call, caught))
      /\ UNCHANGED <<dryVars, guestVars, bytesIn, source, footer, edits, replayed, predicted,
                     written, strictSeen>>
      /\ Len(strictSeen) = VmMaxToolCalls \/ ~ StrictServes(call)
      /\ gwPc' = "refused"
  BY DEF StrictCallRefused, StrictMakesCall
<1>2. strictSeen \in Seq(Entries) /\ CallStep(call, caught) \in CallSteps
  BY DEF GatewayInv, CallStep, CallSteps
<1>3. /\ DryTypeOK' /\ Shape'
      /\ edits = 0 => DryInv'
  BY <1>1, <1>2, ReplayConsults
<1>4. TypeOK' BY <1>1, <1>3 DEF GatewayInv, TypeOK, guestVars
<1>5. (Waiting /\ StrictSoFar /\ GuestInStep)'
  BY <1>1 DEF Waiting, StrictSoFar, GuestInStep
<1>6. Predicted' BY <1>1 DEF GatewayInv, Waiting, Predicted, guestVars
<1>7. Genuine' BY <1>1, <1>3 DEF GatewayInv, Genuine, dryVars
<1>8. GenuineTraceReconstructs'
  <2>1. ~ (edits = 0 /\ dryPc = "recorded") BY <1>1, GenuineCall, DryRunAssumption
  <2> QED BY <1>1, <2>1 DEF GenuineTraceReconstructs, dryVars
<1> QED BY <1>1, <1>3, <1>4, <1>5, <1>6, <1>7, <1>8 DEF GatewayInv, guestVars

\* The strict replay of a genuine trace returns what the run returned.
LEMMA GenuineReturn ==
  ASSUME GatewayInv, gwPc = "strict", edits = 0, dryPc = "recorded",
         NEW value \in Values, Decides(strictSeen, ReturnStep(value))
  PROVE  value = dryReturn /\ MatchesRecording(value)
<1>1. /\ IsRunOf(prog, tapeCalls, tape) /\ Returns(prog, tape, dryReturn)
      /\ tape \in Seq(Entries) /\ tapeCalls \in Seq(Calls)
      /\ footer.output = Output(dryReturn) /\ footer.calls = Len(tape)
  BY DEF GatewayInv, Genuine, DryInv, DryTypeOK
<1>2. /\ Len(strictSeen) \in 0..Len(tape)
      /\ strictSeen = SubSeq(tape, 1, Len(strictSeen))
  BY <1>1 DEF GatewayInv, StrictSoFar
<1>3. MayTake(prog, strictSeen, ReturnStep(value)) BY DEF Decides, MayTake
<1>4. strictSeen = tape /\ value = dryReturn BY <1>1, <1>2, <1>3, PrefixReturn
<1> QED BY <1>1, <1>4 DEF MatchesRecording

\* The strict replay returns: what it found out is that the recording is a run.
LEMMA StrictReturnKeeps ==
  ASSUME GatewayInv, NEW value \in Values, StrictReturn(value)
  PROVE  GatewayInv'
<1>1. /\ gwPc = "strict" /\ Decides(strictSeen, ReturnStep(value))
      /\ UNCHANGED <<dryPc, dryPolicy, tapeCalls, tape, tapeAtts, forwarded, guestCalls,
                     guestSeen, cursor, callsMade, served, claim, bytesIn, source,
                     footer, edits, strictSeen, replayed, predicted, written>>
  BY DEF StrictReturn
<1>2. /\ tape \in Seq(Entries) /\ tapeCalls \in Seq(Calls) /\ strictSeen \in Seq(Entries)
      /\ DryTypeOK /\ Len(tapeCalls) = Len(tape)
  BY DEF GatewayInv, TypeOK, DryTypeOK, Shape
<1>3. ReturnStep(value) \in ReturnSteps BY DEF ReturnStep, ReturnSteps
<1>4. /\ (DOMAIN prog \subseteq Seq(Entries))'
      /\ (\A g \in DOMAIN prog : prog[g] \in CallSteps \cup ReturnSteps)'
      /\ Extends(prog, prog')
  BY <1>1, <1>2, <1>3, ProgramTyped
<1>5. /\ guestPc = "idle" /\ guestCalls = << >> /\ guestSeen = << >>
      /\ cursor = 0 /\ callsMade = 0 /\ predicted = NoClaim /\ written = 0
  BY <1>1 DEF GatewayInv, Waiting
<1>6. strictSeen \in DOMAIN prog' /\ prog'[strictSeen] = ReturnStep(value)
  BY <1>1, ProgramRemembers
<1>7. CASE MatchesRecording(value) /\ TapePayloadsFit(PolicyFor)
  <2>1. gwPc' = "guest" /\ guestPc' = "replaying" /\ guestPolicy' = PolicyFor /\ dryReturn' = value
    BY <1>7 DEF StrictReturn
  <2>2. bytesIn \in Nat /\ PolicyFor \in Policies BY PolicyForAdmits DEF GatewayInv
  <2>3. DryTypeOK' BY <1>1, <1>2, <1>4, <2>1 DEF DryTypeOK
  <2>4. TypeOK' BY <1>1, <2>1, <2>2, <2>3 DEF GatewayInv, TypeOK
  <2>5. Shape' BY <1>1 DEF GatewayInv, Shape
  <2>6. /\ Len(strictSeen) = Len(tape) /\ Output(value) = footer.output
        /\ Len(strictSeen) = footer.calls
    BY <1>7 DEF MatchesRecording
  <2>7. /\ source = "matches" /\ Len(strictSeen) <= VmMaxToolCalls
        /\ strictSeen = SubSeq(tape, 1, Len(tape)) /\ RunsUpTo(Len(tape))
    BY <1>1, <2>6 DEF GatewayInv, StrictSoFar
  <2>8. SubSeq(tape, 1, Len(tape)) = tape /\ SubSeq(tapeCalls, 1, Len(tape)) = tapeCalls
    BY <1>2, FullPrefix
  <2>9. IsRunOf(prog', tapeCalls, tape)
    BY <1>4, <2>7, <2>8, RunSurvives DEF RunsUpTo
  <2>10. Returns(prog', tape, value) BY <1>6, <2>7, <2>8 DEF Returns
  <2>11. Execute' BY <1>1, <2>1, <2>6, <2>7, <2>9, <2>10 DEF Execute, Output
  <2>12. GuestInStep'
    <3>1. SubSeq(tape, 1, 0) = << >> /\ SubSeq(tapeCalls, 1, 0) = << >> /\ Len(tape) \in Nat
      BY <1>2
    <3>2. guestSeen' = << >> /\ guestCalls' = << >> /\ Len(guestSeen') = 0 BY <1>1, <1>5
    <3>3. PolicyFor' = PolicyFor BY <1>1 DEF PolicyFor
    <3> QED BY <1>1, <1>5, <2>1, <2>11, <3>1, <3>2, <3>3 DEF GuestInStep
  <2>13. (Waiting /\ StrictSoFar /\ GenuineTraceReconstructs)'
    BY <2>1 DEF Waiting, StrictSoFar, GenuineTraceReconstructs
  <2>14. Predicted' BY <1>1, <1>5, <2>1 DEF Predicted
  <2>15. Genuine'
    <3>1. ASSUME edits = 0 PROVE DryInv'
      <4>1. Len(tapeAtts) = Len(tape) /\ Len(tape) <= VmMaxToolCalls
        BY <3>1 DEF GatewayInv, Genuine, DryInv
      <4> QED BY <1>1, <1>2, <2>1, <2>3, <2>9, <2>10, <4>1 DEF DryInv
    <3>2. ASSUME edits = 0, dryPc = "recorded"
          PROVE  footer.output = Output(value) /\ footer.calls = Len(tape)
      BY <2>6
    <3> QED BY <1>1, <2>1, <2>7, <3>1, <3>2 DEF GatewayInv, Genuine, Output
  <2> QED BY <1>1, <1>5, <2>1, <2>4, <2>5, <2>12, <2>13, <2>14, <2>15 DEF GatewayInv
<1>8. CASE ~ (MatchesRecording(value) /\ TapePayloadsFit(PolicyFor))
  <2>1. gwPc' = "refused" /\ UNCHANGED <<guestPc, guestPolicy, dryReturn>>
    BY <1>8 DEF StrictReturn
  <2>2. UNCHANGED dryVars BY <1>1, <2>1 DEF dryVars
  <2>3. /\ DryTypeOK' /\ Shape'
        /\ edits = 0 => DryInv'
    BY <1>1, <1>2, <1>3, <2>2, ReplayConsults
  <2>4. TypeOK' BY <1>1, <2>1, <2>3 DEF GatewayInv, TypeOK
  <2>5. (Waiting /\ StrictSoFar /\ GuestInStep)'
    BY <2>1 DEF Waiting, StrictSoFar, GuestInStep
  <2>6. Predicted' BY <1>1, <1>5, <2>1 DEF Predicted
  <2>7. Genuine' BY <1>1, <2>1, <2>3 DEF GatewayInv, Genuine, Output
  <2>8. GenuineTraceReconstructs'
    <3>1. ASSUME edits = 0, dryPc = "recorded" PROVE ~ TapePayloadsFit(PolicyFor)
      BY <1>1, <1>8, <3>1, GenuineReturn
    <3> QED BY <1>1, <2>1, <3>1 DEF GenuineTraceReconstructs, TapePayloadsFit, PolicyFor
  <2> QED BY <1>1, <1>5, <2>1, <2>3, <2>4, <2>5, <2>6, <2>7, <2>8 DEF GatewayInv
<1> QED BY <1>7, <1>8

-----------------------------------------------------------------------------
(* The guest replay, and the files. *)

\* The guest replay of a reconstruction makes the recorded call, which its
\* policy permits, and gets past it.
LEMMA GuestMakesRecordedCall ==
  ASSUME GatewayInv, gwPc = "guest",
         NEW call \in Calls, NEW caught \in BOOLEAN,
         Decides(guestSeen, CallStep(call, caught))
  PROVE  /\ Len(guestSeen) < Len(tape) /\ Len(guestSeen) < VmMaxToolCalls
         /\ call = tapeCalls[Len(guestSeen) + 1]
         /\ tape[Len(guestSeen) + 1].ok \/ caught
         /\ Verdict(call) = Permitted
<1>1. /\ Execute /\ guestPolicy = PolicyFor
      /\ Len(guestSeen) <= Len(tape) /\ callsMade = Len(guestSeen)
      /\ guestSeen = SubSeq(tape, 1, Len(guestSeen))
  BY DEF GatewayInv, GuestInStep
<1>2. /\ IsRunOf(prog, tapeCalls, tape) /\ Returns(prog, tape, dryReturn)
      /\ Len(tape) <= VmMaxToolCalls
  BY <1>1 DEF Execute
<1>3. /\ tape \in Seq(Entries) /\ tapeCalls \in Seq(Calls) /\ guestSeen \in Seq(Entries)
      /\ bytesIn \in Nat /\ VmMaxToolCalls \in Nat
  BY DryRunAssumption DEF GatewayInv, TypeOK, DryTypeOK
<1>4. Len(guestSeen) \in 0..Len(tape) BY <1>1, <1>3
<1>5. MayTake(prog, guestSeen, CallStep(call, caught)) BY DEF Decides, MayTake
<1>6. /\ Len(guestSeen) < Len(tape) /\ call = tapeCalls[Len(guestSeen) + 1]
      /\ tape[Len(guestSeen) + 1].ok \/ caught
  BY <1>1, <1>2, <1>3, <1>4, <1>5, PrefixCall
<1>7. Len(guestSeen) < VmMaxToolCalls BY <1>2, <1>3, <1>4, <1>6
<1>8. Verdict(call) = Permitted
  <2>1. /\ guestPolicy.max_tool_calls = VmMaxToolCalls
        /\ CheckHttpCall(guestPolicy, call) = Permitted
    BY <1>1, <1>3, PolicyForAdmits
  <2>2. ~ (callsMade + 1 > VmMaxToolCalls) BY <1>1, <1>3, <1>4, <1>7
  <2> QED BY <2>1, <2>2 DEF Verdict
<1> QED BY <1>6, <1>7, <1>8

\* ... so each of its calls is served, by the entry recorded for it.
LEMMA GuestCallsKeeps == GatewayInv /\ GuestCalls => GatewayInv'
<1> SUFFICES ASSUME GatewayInv, GuestCalls PROVE GatewayInv' OBVIOUS
<1>1. /\ gwPc = "guest"
      /\ gwPc' = IF guestPc' = "failed" THEN "refused" ELSE "guest"
      /\ UNCHANGED <<bytesIn, source, footer, edits, strictSeen, replayed, predicted, written>>
  BY DEF GuestCalls
<1> DEFINE n == Len(guestSeen)
           e == tape[n + 1]
<1>2. PICK call \in Calls, caught \in BOOLEAN :
        \/ GuestCallRefused(call, caught)
        \/ GuestCallServed(call, caught)
        \/ GuestCallExhausted(call, caught)
        \/ GuestCallOverLimit(call, caught)
  BY DEF GuestCalls
<1>3. Decides(guestSeen, CallStep(call, caught))
  BY <1>2 DEF GuestCallRefused, GuestCallServed, GuestCallExhausted, GuestCallOverLimit,
              GuestMakesCall
<1>4. /\ n < Len(tape) /\ n < VmMaxToolCalls
      /\ call = tapeCalls[n + 1]
      /\ e.ok \/ caught
      /\ Verdict(call) = Permitted
  BY <1>1, <1>3, GuestMakesRecordedCall
<1>5. /\ Execute /\ guestPc = "replaying" /\ guestPolicy = PolicyFor /\ predicted = NoClaim
      /\ cursor = n /\ callsMade = n
      /\ guestSeen = SubSeq(tape, 1, n) /\ guestCalls = SubSeq(tapeCalls, 1, n)
  BY <1>1 DEF GatewayInv, GuestInStep
<1>6. /\ tape \in Seq(Entries) /\ tapeCalls \in Seq(Calls) /\ guestSeen \in Seq(Entries)
      /\ guestCalls \in Seq(Calls) /\ served \in Seq(Nat)
      /\ bytesIn \in Nat /\ VmMaxToolCalls \in Nat /\ n \in Nat
      /\ Len(tapeCalls) = Len(tape)
  BY DryRunAssumption DEF GatewayInv, TypeOK, DryTypeOK, Shape
<1>7. GuestCallServed(call, caught)
  <2>1. ~ GuestCallRefused(call, caught) BY <1>4 DEF GuestCallRefused
  <2>2. ~ GuestCallExhausted(call, caught) BY <1>4, <1>5, <1>6 DEF GuestCallExhausted
  <2>3. ~ GuestCallOverLimit(call, caught) BY <1>4, <1>6 DEF GuestCallOverLimit
  <2> QED BY <1>2, <2>1, <2>2, <2>3
<1>8. /\ guestCalls' = Append(guestCalls, call) /\ guestSeen' = Append(guestSeen, e)
      /\ guestPc' = "replaying" /\ cursor' = n + 1 /\ served' = Append(served, n + 1)
      /\ UNCHANGED <<dryVars, guestPolicy, claim>>
  BY <1>4, <1>5, <1>7 DEF GuestCallServed, GuestMakesCall, GuestObserves
<1>9. callsMade' = n + 1
  <2>1. guestPolicy # NoPolicy BY <1>5, <1>6, PolicyForAdmits
  <2> QED BY <1>5, <1>7, <2>1 DEF GuestCallServed, GuestMakesCall
<1>10. gwPc' = "guest" BY <1>1, <1>8
<1>11. CallStep(call, caught) \in CallSteps BY DEF CallStep, CallSteps
<1>12. /\ DryTypeOK' /\ Shape' /\ Extends(prog, prog')
       /\ edits = 0 => DryInv'
  BY <1>3, <1>6, <1>8, <1>11, ReplayConsults
<1>13. e \in Entries /\ tapeCalls[n + 1] \in Calls BY <1>4, <1>6
<1>14. /\ guestSeen' \in Seq(Entries) /\ guestCalls' \in Seq(Calls) /\ served' \in Seq(Nat)
       /\ Len(guestSeen') = n + 1
  BY <1>6, <1>8, <1>13
<1>15. TypeOK' BY <1>6, <1>8, <1>9, <1>12, <1>14 DEF GatewayInv, TypeOK
<1>16. Execute'
  <2>1. /\ IsRunOf(prog', tapeCalls, tape) /\ Returns(prog', tape, dryReturn)
    BY <1>5, <1>12, RunSurvives, ReturnSurvives DEF Execute
  <2> QED BY <1>1, <1>5, <1>8, <2>1 DEF Execute, dryVars, Output
<1>17. GuestInStep'
  <2>1. guestSeen' = SubSeq(tape, 1, n + 1) BY <1>4, <1>5, <1>6, <1>8, PrefixStep
  <2>2. guestCalls' = SubSeq(tapeCalls, 1, n + 1) BY <1>4, <1>5, <1>6, <1>8, PrefixStep
  <2>3. PolicyFor' = PolicyFor BY <1>1 DEF PolicyFor
  <2>4. n + 1 <= Len(tape) BY <1>4, <1>6
  <2> QED BY <1>1, <1>5, <1>8, <1>9, <1>14, <1>16, <2>1, <2>2, <2>3, <2>4
          DEF GuestInStep, dryVars
<1>18. (Waiting /\ StrictSoFar /\ GenuineTraceReconstructs)'
  BY <1>10 DEF Waiting, StrictSoFar, GenuineTraceReconstructs
<1>19. Predicted' BY <1>1, <1>5, <1>8, <1>10 DEF Predicted
<1>20. Genuine' BY <1>1, <1>8, <1>10, <1>12 DEF GatewayInv, Genuine, dryVars, Output
<1>21. written = 0 BY <1>5 DEF GatewayInv
<1> QED BY <1>1, <1>10, <1>12, <1>15, <1>17, <1>18, <1>19, <1>20, <1>21 DEF GatewayInv

\* The guest replay returns when it has read the whole recording.
LEMMA GuestFinishesKeeps ==
  ASSUME GatewayInv, NEW value \in Values, GuestFinishes(value)
  PROVE  GatewayInv'
<1>1. /\ gwPc = "guest" /\ Decides(guestSeen, ReturnStep(value))
      /\ guestPc' = "claimed" /\ claim' = PublicInputs(guestPolicy, value)
      /\ replayed' = value /\ predicted' = claim' /\ gwPc' = "reconstructed"
      /\ UNCHANGED <<dryVars, guestPolicy, guestCalls, guestSeen, cursor, callsMade,
                     served, bytesIn, source, footer, edits, strictSeen, written>>
  BY DEF GuestFinishes
<1>2. /\ Execute /\ guestPolicy = PolicyFor
      /\ Len(guestSeen) <= Len(tape)
      /\ guestSeen = SubSeq(tape, 1, Len(guestSeen))
      /\ guestCalls = SubSeq(tapeCalls, 1, Len(guestSeen))
  BY <1>1 DEF GatewayInv, GuestInStep
<1>3. /\ tape \in Seq(Entries) /\ tapeCalls \in Seq(Calls) /\ guestSeen \in Seq(Entries)
      /\ Len(tapeCalls) = Len(tape)
  BY DEF GatewayInv, TypeOK, DryTypeOK, Shape
<1>4. ReturnStep(value) \in ReturnSteps BY DEF ReturnStep, ReturnSteps
<1>5. /\ DryTypeOK' /\ Shape' /\ Extends(prog, prog')
      /\ edits = 0 => DryInv'
  BY <1>1, <1>3, <1>4, ReplayConsults
<1>6. guestSeen = tape /\ value = dryReturn
  <2>1. Len(guestSeen) \in 0..Len(tape) BY <1>2, <1>3
  <2>2. MayTake(prog, guestSeen, ReturnStep(value)) BY <1>1 DEF Decides, MayTake
  <2>3. IsRunOf(prog, tapeCalls, tape) /\ Returns(prog, tape, dryReturn)
    BY <1>2 DEF Execute
  <2> QED BY <1>2, <1>3, <2>1, <2>2, <2>3, PrefixReturn
<1>7. guestCalls = tapeCalls BY <1>2, <1>3, <1>6, FullPrefix
<1>8. Execute'
  <2>1. /\ IsRunOf(prog', tapeCalls, tape) /\ Returns(prog', tape, dryReturn)
    BY <1>2, <1>5, RunSurvives, ReturnSurvives DEF Execute
  <2> QED BY <1>1, <1>2, <2>1 DEF Execute, dryVars, Output
<1>9. TypeOK'
  <2>1. PublicInputs(guestPolicy, value) \in
          [policy_hash : Policies \cup {NoPolicy},
           tool_responses_hash : Seq(Entries),
           attestation_hash : Seq(Attestations \cup {NoAttestation}),
           output_hash : (Values \ {NonInteger}) \cup {0}]
    BY PublicInputsType DEF GatewayInv, TypeOK
  <2> QED BY <1>1, <1>5, <2>1 DEF GatewayInv, TypeOK
<1>10. Predicted'
  <2>1. PublicInputs(PolicyFor, dryReturn)' = PublicInputs(guestPolicy, value)
    BY <1>1, <1>2, <1>6 DEF PublicInputs, PolicyFor, dryVars
  <2> QED BY <1>1, <1>6, <1>7, <1>8, <2>1 DEF Predicted, dryVars
<1>11. (Waiting /\ StrictSoFar /\ GuestInStep /\ GenuineTraceReconstructs)'
  BY <1>1 DEF Waiting, StrictSoFar, GuestInStep, GenuineTraceReconstructs
<1>12. Genuine' BY <1>1, <1>5 DEF GatewayInv, Genuine, dryVars, Output
<1> QED BY <1>1, <1>5, <1>9, <1>10, <1>11, <1>12 DEF GatewayInv

\* Writing the files changes nothing that was predicted.
LEMMA WriteKeeps == GatewayInv /\ WriteFile => GatewayInv'
<1> SUFFICES ASSUME GatewayInv, WriteFile PROVE GatewayInv' OBVIOUS
<1>1. /\ gwPc = "reconstructed" /\ gwPc' \in {"reconstructed", "refused"}
      /\ written' \in 0..4
      /\ UNCHANGED <<vars, bytesIn, source, footer, edits, strictSeen, replayed, predicted>>
  BY DEF WriteFile, GatewayInv
<1>2. guestPc = "claimed" BY <1>1 DEF GatewayInv, Predicted
<1>3. TypeOK' /\ Shape'
  BY <1>1 DEF GatewayInv, TypeOK, DryTypeOK, Shape, vars, dryVars, guestVars
<1>4. (Waiting /\ StrictSoFar /\ GuestInStep /\ GenuineTraceReconstructs)'
  BY <1>1, <1>2 DEF Waiting, StrictSoFar, GuestInStep, GenuineTraceReconstructs, vars, guestVars
<1>5. Predicted'
  BY <1>1 DEF GatewayInv, Predicted, Execute, PublicInputs, PolicyFor, Output, vars, dryVars,
              guestVars
<1>6. Genuine'
  BY <1>1 DEF GatewayInv, Genuine, DryInv, DryTypeOK, Output, vars, dryVars
<1> QED BY <1>1, <1>2, <1>3, <1>4, <1>5, <1>6 DEF GatewayInv, vars, guestVars

\* All the gateway does keeps its invariant.
LEMMA GatewayStepKeeps == GatewayInv /\ GatewayNext => GatewayInv'
<1> SUFFICES ASSUME GatewayInv, GatewayNext PROVE GatewayInv' OBVIOUS
<1>1. ASSUME ReplayStep PROVE GatewayInv'
  BY <1>1, StrictServedKeeps, StrictRefusedKeeps, StrictReturnKeeps, GuestFinishesKeeps,
     GuestCallsKeeps
     DEF ReplayStep
<1> QED BY <1>1, RecordKeeps, StoreKeeps, EditKeeps, StartKeeps, WriteKeeps DEF GatewayNext

-----------------------------------------------------------------------------
(* The driver. *)

\* A prediction stays as it was made.
LEMMA PredictionStays ==
  ASSUME GatewayInv, GatewayNext, predicted # NoClaim
  PROVE  UNCHANGED predicted
<1>1. gwPc \in {"reconstructed", "refused"} BY DEF GatewayInv, Predicted
<1>2. ASSUME RecordStep PROVE UNCHANGED predicted BY <1>2 DEF RecordStep, gatewayVars
<1>3. ASSUME StoreTrace \/ EditTrace \/ StartReconstruct \/ WriteFile
      PROVE  UNCHANGED predicted
  BY <1>3 DEF StoreTrace, EditTrace, StartReconstruct, WriteFile
<1>4. ASSUME ReplayStep PROVE FALSE
  BY <1>1, <1>4 DEF ReplayStep, StrictCallServed, StrictCallRefused, StrictMakesCall,
                    StrictReturn, GuestFinishes, GuestCalls
<1> QED BY <1>2, <1>3, <1>4 DEF GatewayNext

\* What the gateway does leaves the driver's files alone.
LEMMA DriverUntouched ==
  ASSUME GatewayInv, DriverInv, GatewayNext, UNCHANGED driverVars
  PROVE  DriverInv'
BY PredictionStays DEF DriverInv, DriverOwnFiles, driverVars

\* Each step of the driver keeps its files as far as they are its own: the
\* public inputs it predicts under the policy of the trace are those of the
\* reconstruction, and nobody else writes its files.
LEMMA DriverStepKeeps ==
  ASSUME GatewayInv, DriverInv, DriverNext, UNCHANGED TraceState
  PROVE  DriverInv'
<1>1. UNCHANGED predicted BY DEF TraceState, gatewayVars
<1>2. ASSUME NEW policy \in BOOLEAN, NEW config \in BOOLEAN, NEW private \in BOOLEAN,
             DriverLoads([policy |-> policy, config |-> config, private |-> private])
      PROVE  DriverInv'
  <2> DEFINE f == [policy |-> policy, config |-> config, private |-> private]
  <2>1. /\ f \in [policy : BOOLEAN, config : BOOLEAN, private : BOOLEAN]
        /\ f.policy = policy
    OBVIOUS
  <2> HIDE DEF f
  <2>2. /\ predicted # NoClaim /\ flags' = f
        /\ \/ /\ driverPc' = "replayed"
              /\ expected' = [predicted EXCEPT
                   !.policy_hash = IF f.policy THEN PolicyFor ELSE NoPolicy]
           \/ driverPc' = "failed"
    BY <1>2 DEF DriverLoads, f
  <2>3. predicted = PublicInputs(PolicyFor, dryReturn) BY <2>2 DEF GatewayInv, Predicted
  <2>4. [predicted EXCEPT !.policy_hash = PolicyFor] = predicted
    BY <2>3 DEF PublicInputs
  <2> QED BY <1>1, <2>1, <2>2, <2>4 DEF DriverInv, DriverOwnFiles
<1>3. ASSUME DriverWrites PROVE DriverInv'
  BY <1>1, <1>3 DEF DriverWrites, DriverInv, DriverOwnFiles
<1>4. ASSUME DriverProves PROVE DriverInv'
  BY <1>1, <1>4 DEF DriverProves, DriverInv, DriverOwnFiles
<1>5. ASSUME DriverVerifies PROVE DriverInv'
  BY <1>1, <1>5 DEF DriverVerifies, DriverInv, DriverOwnFiles
<1>6. ASSUME OtherDriver PROVE DriverInv'
  BY <1>1, <1>6 DEF OtherDriver, DriverInv, DriverOwnFiles
<1> QED BY <1>2, <1>3, <1>4, <1>5, <1>6 DEF DriverNext

-----------------------------------------------------------------------------
(* The inductive invariant, and the theorems. *)

\* The invariant holds before anything is recorded.
LEMMA TraceInvInit == TraceInit => TraceInv
<1> SUFFICES ASSUME TraceInit PROVE TraceInv OBVIOUS
<1>1. GatewayInv BY GatewayInvInit DEF TraceInit
<1>2. DriverInv BY DEF TraceInit, DriverInit, DriverInv, DriverOwnFiles
<1> QED BY <1>1, <1>2 DEF TraceInv

\* Every step, and every stutter, keeps it.
LEMMA TraceInvNext == TraceInv /\ [TraceNext]_traceVars => TraceInv'
<1> SUFFICES ASSUME GatewayInv, DriverInv, [TraceNext]_traceVars
             PROVE  GatewayInv' /\ DriverInv'
  BY DEF TraceInv
<1>1. CASE GatewayNext /\ UNCHANGED driverVars
  BY <1>1, GatewayStepKeeps, DriverUntouched
<1>2. CASE DriverNext /\ UNCHANGED <<vars, gatewayVars>>
  <2>1. UNCHANGED TraceState BY <1>2 DEF TraceState
  <2> QED BY <1>2, <2>1, GatewayKeeps, DriverStepKeeps
<1>3. CASE UNCHANGED traceVars
  <2>1. UNCHANGED TraceState /\ UNCHANGED driverVars BY <1>3 DEF traceVars, TraceState
  <2>2. DriverInv'
    BY <2>1 DEF TraceState, gatewayVars, driverVars, DriverInv, DriverOwnFiles
  <2> QED BY <2>1, <2>2, GatewayKeeps
<1> QED BY <1>1, <1>2, <1>3 DEF TraceNext

\* What the recording, the replays and the driver have in common in every
\* reachable state.
THEOREM TraceInvariance == TraceSpec => []TraceInv
<1> QED BY TraceInvInit, TraceInvNext, PTL DEF TraceSpec

\* The reconstruction and the driver are type correct.
THEOREM TraceTypeCorrect == TraceSpec => []TraceTypeOK
<1>1. TraceInv => TraceTypeOK BY DEF TraceInv, GatewayInv, DriverInv, TraceTypeOK
<1> QED BY <1>1, TraceInvariance, PTL

\* Whatever was edited in the store, what reconstruct accepts is an execution
\* of the stored program (gateway_trace.rs:117-122).
THEOREM ReconstructsRuns == TraceSpec => []ReconstructionIsRun
<1>1. TraceInv => ReconstructionIsRun
  BY DEF TraceInv, GatewayInv, Predicted, Execute, ReconstructionIsRun
<1> QED BY <1>1, TraceInvariance, PTL

\* The guest replay, which compares no call, makes the calls the strict replay
\* has compared, and reads the whole tape (gateway_trace.rs:217-232).
THEOREM GuestRepeatsStrict == TraceSpec => []GuestRepeatsStrictReplay
<1>1. TraceInv => GuestRepeatsStrictReplay
  BY DEF TraceInv, GatewayInv, GuestInStep, Predicted, GuestRepeatsStrictReplay
<1> QED BY <1>1, TraceInvariance, PTL

\* A trace as the gateway stored it is lost to the payload cap only.
THEOREM GenuineTracesKept == TraceSpec => []GenuineTraceReconstructs
<1>1. TraceInv => GenuineTraceReconstructs BY DEF TraceInv, GatewayInv
<1> QED BY <1>1, TraceInvariance, PTL

\* The proof that verifies reveals the public inputs of the reconstruction
\* (gateway_trace.rs:75-76), under its policy and with files of its own.
THEOREM PredictionHolds == TraceSpec => []PredictionIsRevealed
<1>1. TraceInv => PredictionIsRevealed
  BY DEF TraceInv, DriverInv, DriverOwnFiles, PredictionIsRevealed
<1> QED BY <1>1, TraceInvariance, PTL
=============================================================================
