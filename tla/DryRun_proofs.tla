---------------------------- MODULE DryRun_proofs ----------------------------
(***************************************************************************)
(* Facts about DryRun that the proofs of both replay paths rest on: what   *)
(* the program is, that a dry run keeps its types, that what it records is *)
(* a run of the program, and that its gate holds.                          *)
(***************************************************************************)
EXTENDS DryRun, TLAPS

\* The program is consulted about h and takes step s there; every step it was
\* seen to take before, it still takes.
LEMMA ProgramRemembers ==
  ASSUME NEW h, NEW s, Decides(h, s)
  PROVE  /\ h \in DOMAIN prog' /\ prog'[h] = s
         /\ \A g \in DOMAIN prog : g \in DOMAIN prog' /\ prog'[g] = prog[g]
         /\ DOMAIN prog' = DOMAIN prog \cup {h}
BY DEF Decides

\* A step is a call or a return and never both.
LEMMA CallIsNotReturn ==
  ASSUME NEW call, NEW caught, NEW value
  PROVE  CallStep(call, caught) # ReturnStep(value)
BY DEF CallStep, ReturnStep

\* A call step determines the call and whether it is protected.
LEMMA CallStepInjective ==
  ASSUME NEW c, NEW d, NEW k, NEW l, CallStep(c, k) = CallStep(d, l)
  PROVE  c = d /\ k = l
BY DEF CallStep

\* A return step determines the value.
LEMMA ReturnStepInjective ==
  ASSUME NEW v, NEW w, ReturnStep(v) = ReturnStep(w)
  PROVE  v = w
BY DEF ReturnStep

\* The prefixes of a sequence that has grown by one, below the new element.
LEMMA PrefixOfAppend ==
  ASSUME NEW S, NEW s \in Seq(S), NEW e \in S, NEW n \in 0..Len(s)
  PROVE  SubSeq(Append(s, e), 1, n) = SubSeq(s, 1, n)
OBVIOUS

\* A sequence is its own full prefix.
LEMMA FullPrefix ==
  ASSUME NEW S, NEW s \in Seq(S)
  PROVE  SubSeq(s, 1, Len(s)) = s
OBVIOUS

\* A prefix followed by the next element is the next prefix.
LEMMA PrefixStep ==
  ASSUME NEW S, NEW s \in Seq(S), NEW n \in Nat, n < Len(s)
  PROVE  Append(SubSeq(s, 1, n), s[n + 1]) = SubSeq(s, 1, n + 1)
OBVIOUS

\* p is part of q: the same program, of which q has seen more.
Extends(p, q) == \A g \in DOMAIN p : g \in DOMAIN q /\ q[g] = p[g]

\* A run stays a run as more of the program becomes known.
LEMMA RunSurvives ==
  ASSUME NEW p, NEW q, Extends(p, q), NEW calls, NEW seen, IsRunOf(p, calls, seen)
  PROVE  IsRunOf(q, calls, seen)
BY DEF Extends, IsRunOf

\* ... and so does a return.
LEMMA ReturnSurvives ==
  ASSUME NEW p, NEW q, Extends(p, q), NEW seen, NEW value, Returns(p, seen, value)
  PROVE  Returns(q, seen, value)
BY DEF Extends, Returns

\* A run that makes one more call and is not killed by the answer is a run.
LEMMA RunGrows ==
  ASSUME NEW p, NEW calls \in Seq(Calls), NEW seen \in Seq(Entries),
         IsRunOf(p, calls, seen),
         NEW call \in Calls, NEW caught \in BOOLEAN, NEW e \in Entries,
         seen \in DOMAIN p, p[seen] = CallStep(call, caught), e.ok \/ caught
  PROVE  IsRunOf(p, Append(calls, call), Append(seen, e))
<1> DEFINE c == Append(calls, call)
           s == Append(seen, e)
<1>1. Len(calls) = Len(seen) BY DEF IsRunOf
<1>2. Len(c) = Len(seen) + 1 /\ Len(s) = Len(seen) + 1 BY <1>1
<1>3. ASSUME NEW i \in 1..Len(s)
      PROVE  /\ SubSeq(s, 1, i - 1) \in DOMAIN p
             /\ \E k \in BOOLEAN :
                  p[SubSeq(s, 1, i - 1)] = CallStep(c[i], k) /\ (s[i].ok \/ k)
  <2>1. i - 1 \in 0..Len(seen) /\ Len(seen) \in Nat BY <1>2
  <2>2. SubSeq(s, 1, i - 1) = SubSeq(seen, 1, i - 1) BY <2>1, PrefixOfAppend
  <2>3. CASE i = Len(seen) + 1
    <3>1. SubSeq(seen, 1, i - 1) = seen BY <2>3, <2>1, FullPrefix
    <3>2. c[i] = call /\ s[i] = e BY <2>3, <1>1
    <3> QED BY <3>1, <3>2, <2>2
  <2>4. CASE i # Len(seen) + 1
    <3>1. i \in 1..Len(seen) BY <2>4, <1>2
    <3>2. c[i] = calls[i] /\ s[i] = seen[i] BY <3>1, <1>1
    <3> QED BY <3>1, <3>2, <2>2 DEF IsRunOf
  <2> QED BY <2>3, <2>4
<1> QED BY <1>2, <1>3 DEF IsRunOf

-----------------------------------------------------------------------------
(* A complete run replayed: calls and seen are the run, value what it returns. *)

\* Nothing known of p says that it does not take step s at h.
MayTake(p, h, s) == h \in DOMAIN p => p[h] = s

\* After the first n answers of a complete run the program makes its next call,
\* if it makes one, and gets past the recorded answer.
LEMMA PrefixCall ==
  ASSUME NEW p, NEW calls \in Seq(Calls), NEW seen \in Seq(Entries), NEW value,
         IsRunOf(p, calls, seen), Returns(p, seen, value),
         NEW n \in 0..Len(seen), NEW h, h = SubSeq(seen, 1, n),
         NEW call, NEW caught \in BOOLEAN,
         MayTake(p, h, CallStep(call, caught))
  PROVE  /\ n < Len(seen)
         /\ call = calls[n + 1]
         /\ seen[n + 1].ok \/ caught
<1>1. n # Len(seen)
  <2>1. SUFFICES ASSUME n = Len(seen) PROVE FALSE OBVIOUS
  <2>2. h = seen BY <2>1, FullPrefix
  <2> QED BY <2>2, CallIsNotReturn DEF Returns, MayTake
<1>2. n < Len(seen) /\ n + 1 \in 1..Len(seen) /\ SubSeq(seen, 1, (n + 1) - 1) = h
  BY <1>1
<1>3. h \in DOMAIN p BY <1>2 DEF IsRunOf
<1>4. PICK k \in BOOLEAN :
        /\ p[h] = CallStep(calls[n + 1], k)
        /\ seen[n + 1].ok \/ k
  BY <1>2 DEF IsRunOf
<1>5. call = calls[n + 1] /\ caught = k BY <1>3, <1>4, CallStepInjective DEF MayTake
<1> QED BY <1>2, <1>4, <1>5

\* ... and it returns only at the end, and what the run returned.
LEMMA PrefixReturn ==
  ASSUME NEW p, NEW calls \in Seq(Calls), NEW seen \in Seq(Entries), NEW value,
         IsRunOf(p, calls, seen), Returns(p, seen, value),
         NEW n \in 0..Len(seen), NEW h, h = SubSeq(seen, 1, n),
         NEW v, MayTake(p, h, ReturnStep(v))
  PROVE  h = seen /\ v = value
<1>1. n = Len(seen)
  <2>1. SUFFICES ASSUME n # Len(seen) PROVE FALSE OBVIOUS
  <2>2. n + 1 \in 1..Len(seen) /\ SubSeq(seen, 1, (n + 1) - 1) = h BY <2>1
  <2>3. PICK k \in BOOLEAN : p[h] = CallStep(calls[n + 1], k)
    BY <2>2 DEF IsRunOf
  <2>4. h \in DOMAIN p BY <2>2 DEF IsRunOf
  <2> QED BY <2>3, <2>4, CallIsNotReturn DEF MayTake
<1>2. h = seen BY <1>1, FullPrefix
<1> QED BY <1>2, ReturnStepInjective DEF Returns, MayTake

-----------------------------------------------------------------------------
(* The dry run on its own: types, what it records, and its gate. *)

\* The record is well formed: one entry and one attestation per call, no more than the Vm allows, and
\* until the run fails it is a run of the program; once recorded, a complete one.
DryInv ==
  /\ DryTypeOK
  /\ Len(tapeCalls) = Len(tape) /\ Len(tapeAtts) = Len(tape)
  /\ Len(tape) <= VmMaxToolCalls
  /\ dryPc # "failed" => IsRunOf(prog, tapeCalls, tape)
  /\ dryPc = "recorded" => Returns(prog, tape, dryReturn)

\* A refusal names the list that refused, and is an error a program can see.
LEMMA RefusalIsMessage ==
  ASSUME NEW policy, NEW call, CheckHttpCall(policy, call) # Permitted
  PROVE  CheckHttpCall(policy, call) \in {"method_denied", "domain_denied"}
BY DEF CheckHttpCall

\* check_http_call permits exactly the HTTP calls the policy document admits.
LEMMA PermittedIsAdmitted ==
  ASSUME NEW policy, NEW call, IsHttpTool(call.tool)
  PROVE  CheckHttpCall(policy, call) = Permitted <=> Admits(policy, call)
BY DEF CheckHttpCall, Admits, Permitted, IsHttpTool, HttpTools

\* Every call is answered with an entry.
LEMMA HostAnswerType ==
  ASSUME NEW call \in Calls, NEW live \in LiveAnswers(call)
  PROVE  live \in Entries /\ HostAnswer(call, live) \in Entries
<1>1. live \in Entries
  <2>1. ErrEntry("tool_failed") \in Entries
    BY DEF Entries, Bodies, Messages, ErrEntry
  <2>2. \A p \in Payloads : OkEntry(p) \in Entries
    BY DEF Entries, Bodies, OkEntry
  <2>3. live = ErrEntry("tool_failed") \/ \E p \in Payloads : live = OkEntry(p)
    BY DEF LiveAnswers
  <2> QED BY <2>1, <2>2, <2>3
<1>2. ASSUME ~ HostForwards(call)
      PROVE  ErrEntry(CheckHttpCall(dryPolicy, call)) \in Entries
  <2>1. CheckHttpCall(dryPolicy, call) \in Messages
    BY <1>2, RefusalIsMessage DEF HostForwards, Messages
  <2> QED BY <2>1 DEF ErrEntry, Entries, Bodies
<1>3. ErrEntry("schema_mismatch") \in Entries
  BY DEF Entries, Bodies, Messages, ErrEntry
<1> QED BY <1>1, <1>2, <1>3 DEF HostAnswer

\* The program's steps stay steps.
LEMMA ProgramTyped ==
  ASSUME NEW h \in Seq(Entries), NEW s \in CallSteps \cup ReturnSteps, DryTypeOK,
         Decides(h, s)
  PROVE  /\ (DOMAIN prog \subseteq Seq(Entries))'
         /\ (\A g \in DOMAIN prog : prog[g] \in CallSteps \cup ReturnSteps)'
         /\ Extends(prog, prog')
BY ProgramRemembers DEF DryTypeOK, Extends, Decides

\* A dry run starts well formed.
LEMMA DryInvInit == DryInit => DryInv
<1> SUFFICES ASSUME DryInit PROVE DryInv OBVIOUS
<1>1. DryTypeOK
  BY DryRunAssumption DEF DryInit, DryTypeOK
<1>2. /\ Len(tapeCalls) = Len(tape) /\ Len(tapeAtts) = Len(tape)
      /\ IsRunOf(prog, tapeCalls, tape)
  BY DEF DryInit, IsRunOf
<1>3. Len(tape) <= VmMaxToolCalls BY DryRunAssumption DEF DryInit
<1> QED BY <1>1, <1>2, <1>3 DEF DryInit, DryInv

\* Every step of a dry run keeps it well formed.
LEMMA DryInvNext == DryInv /\ DryNext => DryInv'
<1> SUFFICES ASSUME DryInv, DryNext PROVE DryInv' OBVIOUS
<1> USE DEF DryInv
<1>1. ASSUME NEW call \in Calls, NEW caught \in BOOLEAN, DryCall(call, caught)
      PROVE  DryInv'
  <2>1. CallStep(call, caught) \in CallSteps BY <1>1 DEF CallStep, CallSteps
  <2>2. tape \in Seq(Entries) /\ tapeCalls \in Seq(Calls) BY DEF DryTypeOK
  <2>3. Decides(tape, CallStep(call, caught)) BY <1>1 DEF DryCall
  <2>4. PICK live \in LiveAnswers(call), att \in Attestations \cup {NoAttestation} :
          /\ tapeCalls' = Append(tapeCalls, call)
          /\ tape' = Append(tape, HostAnswer(call, live))
          /\ tapeAtts' = Append(tapeAtts, att)
          /\ dryPc' = IF HostAnswer(call, live).ok \/ caught
                        THEN "running" ELSE "failed"
    BY <1>1 DEF DryCall
  <2>5. HostAnswer(call, live) \in Entries BY HostAnswerType
  <2>6. /\ (DOMAIN prog \subseteq Seq(Entries))'
        /\ (\A g \in DOMAIN prog : prog[g] \in CallSteps \cup ReturnSteps)'
        /\ Extends(prog, prog')
    BY <2>1, <2>2, <2>3, ProgramTyped
  <2>7. DryTypeOK'
    BY <1>1, <2>4, <2>5, <2>6 DEF DryTypeOK, DryCall
  <2>8. /\ Len(tapeCalls') = Len(tape') /\ Len(tapeAtts') = Len(tape')
        /\ Len(tape') <= VmMaxToolCalls
    BY <1>1, <2>2, <2>4, <2>5, DryRunAssumption DEF DryCall, DryTypeOK
  <2>9. ASSUME dryPc' # "failed" PROVE IsRunOf(prog', tapeCalls', tape')
    <3>1. IsRunOf(prog', tapeCalls, tape)
      BY <1>1, <2>6, RunSurvives DEF DryCall
    <3>2. tape \in DOMAIN prog' /\ prog'[tape] = CallStep(call, caught)
      BY <2>3, ProgramRemembers
    <3> QED BY <2>2, <2>4, <2>5, <2>9, <3>1, <3>2, RunGrows
  <2>10. dryPc' # "recorded" BY <2>4
  <2> QED BY <2>7, <2>8, <2>9, <2>10
<1>2. ASSUME NEW call \in Calls, NEW caught \in BOOLEAN, DryCallOverLimit(call, caught)
      PROVE  DryInv'
  <2>1. CallStep(call, caught) \in CallSteps BY DEF CallStep, CallSteps
  <2>2. tape \in Seq(Entries) BY DEF DryTypeOK
  <2>3. DryTypeOK'
    BY <1>2, <2>1, <2>2, ProgramTyped DEF DryTypeOK, DryCallOverLimit
  <2> QED BY <1>2, <2>3 DEF DryCallOverLimit
<1>3. ASSUME NEW value \in Values, DryReturn(value)
      PROVE  DryInv'
  <2>1. ReturnStep(value) \in ReturnSteps BY DEF ReturnStep, ReturnSteps
  <2>2. tape \in Seq(Entries) BY DEF DryTypeOK
  <2>3. Decides(tape, ReturnStep(value)) BY <1>3 DEF DryReturn
  <2>4. /\ (DOMAIN prog \subseteq Seq(Entries))'
        /\ (\A g \in DOMAIN prog : prog[g] \in CallSteps \cup ReturnSteps)'
        /\ Extends(prog, prog')
    BY <2>1, <2>2, <2>3, ProgramTyped
  <2>5. DryTypeOK' BY <1>3, <2>4 DEF DryTypeOK, DryReturn
  <2>6. IsRunOf(prog', tapeCalls, tape) BY <1>3, <2>4, RunSurvives DEF DryReturn
  <2>7. Returns(prog', tape, value) BY <2>3, ProgramRemembers DEF Returns
  <2> QED BY <1>3, <2>5, <2>6, <2>7 DEF DryReturn
<1> QED BY <1>1, <1>2, <1>3 DEF DryNext

\* A replay consults the program and leaves the record alone.
LEMMA DryInvReplay ==
  ASSUME DryInv, UNCHANGED dryVars,
         NEW h \in Seq(Entries), NEW s \in CallSteps \cup ReturnSteps, Decides(h, s)
  PROVE  DryInv'
<1>1. /\ (DOMAIN prog \subseteq Seq(Entries))'
      /\ (\A g \in DOMAIN prog : prog[g] \in CallSteps \cup ReturnSteps)'
      /\ Extends(prog, prog')
  BY ProgramTyped DEF DryInv
<1>2. DryTypeOK' BY <1>1 DEF DryInv, DryTypeOK, dryVars
<1> QED BY <1>1, <1>2, RunSurvives, ReturnSurvives DEF DryInv, dryVars

\* The gate holds before anything was called.
LEMMA GateInit == DryInit => DryRunGate
BY DEF DryInit, DryRunGate

\* Each call a dry run makes goes through the gate.
LEMMA GateNext == DryInv /\ DryRunGate /\ DryNext => DryRunGate'
<1> SUFFICES ASSUME DryInv, DryRunGate, DryNext PROVE DryRunGate' OBVIOUS
<1>1. ASSUME NEW call \in Calls, NEW caught \in BOOLEAN, DryCall(call, caught),
             dryPolicy # NoPolicy
      PROVE  DryRunGate'
  <2>1. PICK live \in LiveAnswers(call), att \in Attestations \cup {NoAttestation} :
          /\ tapeCalls' = Append(tapeCalls, call)
          /\ tape' = Append(tape, HostAnswer(call, live))
    BY <1>1 DEF DryCall
  <2> DEFINE entry == HostAnswer(call, live)
  <2>2. /\ tape \in Seq(Entries) /\ tapeCalls \in Seq(Calls)
        /\ Len(tapeCalls) = Len(tape) /\ entry \in Entries
    BY HostAnswerType DEF DryInv, DryTypeOK
  <2>3. dryPolicy' = dryPolicy BY <1>1 DEF DryCall
  <2>4. HostForwards(call) => Admits(dryPolicy, call)
    BY <1>1, PermittedIsAdmitted DEF HostForwards, Admits, IsHttpTool, HttpTools
  <2>5. \A c \in forwarded' : Admits(dryPolicy, c)
    BY <1>1, <2>4 DEF DryRunGate, DryCall
  <2>6. IsHttpTool(call.tool) =>
          /\ ~ Admits(dryPolicy, call) =>
               entry \in {ErrEntry("method_denied"), ErrEntry("domain_denied")}
          /\ entry.ok => entry.body \in dryPolicy.schema_versions[DomainOf(call)]
    <3>1. CASE HostForwards(call)
      <4>1. entry.ok /\ IsHttpTool(call.tool) =>
              entry.body \in dryPolicy.schema_versions[DomainOf(call)]
        BY <1>1, <3>1 DEF HostAnswer, ErrEntry, CheckResponseSchema
      <4> QED BY <2>4, <3>1, <4>1
    <3>2. CASE ~ HostForwards(call)
      <4>1. entry = ErrEntry(CheckHttpCall(dryPolicy, call)) BY <3>2 DEF HostAnswer
      <4>2. CheckHttpCall(dryPolicy, call) # Permitted BY <1>1, <3>2 DEF HostForwards
      <4>3. CheckHttpCall(dryPolicy, call) \in {"method_denied", "domain_denied"}
        BY <4>2 DEF CheckHttpCall
      <4>4. entry \in {ErrEntry("method_denied"), ErrEntry("domain_denied")}
        BY <4>1, <4>3
      <4>5. ~ entry.ok BY <4>1 DEF ErrEntry
      <4> QED BY <4>4, <4>5
    <3> QED BY <3>1, <3>2
  <2>7. ASSUME NEW i \in 1..Len(tape'), IsHttpTool(tapeCalls'[i].tool)
        PROVE  /\ ~ Admits(dryPolicy, tapeCalls'[i]) =>
                    tape'[i] \in {ErrEntry("method_denied"), ErrEntry("domain_denied")}
               /\ tape'[i].ok =>
                    tape'[i].body \in dryPolicy.schema_versions[DomainOf(tapeCalls'[i])]
    <3>1. CASE i = Len(tape) + 1
      <4>1. tape'[i] = entry /\ tapeCalls'[i] = call BY <2>1, <2>2, <3>1
      <4> QED BY <2>6, <2>7, <4>1
    <3>2. CASE i # Len(tape) + 1
      <4>1. i \in 1..Len(tape) BY <2>1, <2>2, <3>2
      <4>2. tape'[i] = tape[i] /\ tapeCalls'[i] = tapeCalls[i] BY <2>1, <2>2, <4>1
      <4> QED BY <1>1, <2>7, <4>1, <4>2 DEF DryRunGate
    <3> QED BY <3>1, <3>2
  <2> QED BY <2>3, <2>5, <2>7 DEF DryRunGate
<1>2. ASSUME NEW call \in Calls, NEW caught \in BOOLEAN, DryCallOverLimit(call, caught)
      PROVE  DryRunGate'
  BY <1>2 DEF DryCallOverLimit, DryRunGate
<1>3. ASSUME NEW value \in Values, DryReturn(value)
      PROVE  DryRunGate'
  BY <1>3 DEF DryReturn, DryRunGate
<1>4. CASE dryPolicy = NoPolicy
  BY <1>4 DEF DryRunGate, DryNext, DryCall, DryCallOverLimit, DryReturn
<1> QED BY <1>1, <1>2, <1>3, <1>4 DEF DryNext
=============================================================================
