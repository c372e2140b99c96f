-------------------------- MODULE NoirProver_proofs --------------------------
(***************************************************************************)
(* Serialised calls on one circuit directory implement ProvingService, for *)
(* every set of calls and witnesses, every history of edits, failed        *)
(* commands and crashes.                                                   *)
(*                                                                         *)
(* The invariant follows a call through the directory: what each file the  *)
(* call still depends on says at each stage.  Since only one call is       *)
(* active, no other call can disturb it.                                   *)
(***************************************************************************)
EXTENDS NoirProver, TLAPS

USE EditsAssumption, FilesAssumption

(* Only one call is on the way.                                            *)
OneActive == \A c, d \in Calls : Active(c) /\ Active(d) => c = d

(* p is a proof that call c may return.                                    *)
Fits(c, p) ==
  /\ p.gz.wit = asked[c].wit
  /\ Verifies(p, p.key)
  /\ p.ver \in asked[c].since..circuit

(* The bytecode was compiled during the call, the witness solved for it.   *)
Solution(c) ==
  /\ bytecode \in asked[c].since..circuit
  /\ gz = [ver |-> bytecode, wit |-> asked[c].wit]

Early(c) ==
  /\ pc[c] # "idle" => asked[c].since <= circuit
  /\ pc[c] \in {"begun", "ready"} => toml = asked[c].wit
  /\ pc[c] = "executing" => /\ held[c].ver \in asked[c].since..circuit
                            /\ held[c].gz = [ver |-> held[c].ver, wit |-> asked[c].wit]

Middle(c) ==
  /\ pc[c] \in {"executed", "refresh", "writing", "prove", "proving"} => Solution(c)
  /\ pc[c] = "writing" => held[c].ver = bytecode
  /\ pc[c] \in {"prove", "proving"} => vk # NoFile /\ ~vkOlder
  /\ pc[c] = "proving" => held[c] = [ver |-> bytecode, gz |-> gz, key |-> vk]

Late(c) ==
  /\ pc[c] \in {"read", "verify"} => Fits(c, proof) /\ vk = proof.key
  /\ pc[c] = "verify" => asked[c].verify
  /\ pc[c] = "verify" => held[c] = proof
  /\ pc[c] = "done" => Fits(c, held[c]) /\ verified[c] = asked[c].verify
  /\ pc[c] # "done" => verified[c] = FALSE

Track(c) == Early(c) /\ Middle(c) /\ Late(c)

IInv ==
  /\ TypeOK
  /\ OneActive
  /\ CachedKeyIsCurrent
  /\ \A c \in Calls : Track(c)

-----------------------------------------------------------------------------

(* The records the files start from, and are torn to.                      *)
LEMMA BlankType ==
  ASSUME NEW f \in {NoFile, Torn}
  PROVE  Blank(f) \in Proof /\ Blank(f).gz \in Solved
<1>1. 0 \in Versions
  BY DEF Versions
<1>2. Blank(f).gz = [ver |-> 0, wit |-> f]
  BY DEF Blank
<1>3. f \in File(Witnesses) /\ f \in File(Versions)
  BY DEF File
<1>4. Blank(f).gz \in Solved
  BY <1>1, <1>2, <1>3 DEF Solved
<1>5. QED
  BY <1>3, <1>4, <1>2 DEF Blank, Proof

LEMMA InitType == Init => TypeOK
<1> SUFFICES ASSUME Init PROVE TypeOK
  OBVIOUS
<1>1. 0 \in Versions
  BY DEF Versions
<1>2. gz \in Solved /\ proof \in Proof /\ held \in [Calls -> Proof]
  BY BlankType DEF Init
<1>3. QED
  BY <1>1, <1>2 DEF Init, TypeOK, File

(* What a stopped command leaves is of the kind it found or meant to write. *)
LEMMA SpoilType ==
  ASSUME TypeOK, NEW c \in Calls
  PROVE  /\ SpoilExecute(c) => /\ bytecode' \in File(Versions)
                                /\ vkOlder' \in BOOLEAN
                                /\ gz' \in Solved
         /\ SpoilWriteVk(c) => /\ vk' \in File(Versions)
                                /\ vkOlder' \in BOOLEAN
                                /\ UNCHANGED <<toml, bytecode, gz, proof>>
<1>1. held[c].ver \in File(Versions) /\ held[c].gz \in Solved
  BY DEF TypeOK, Proof
<1>2. Torn \in File(Versions) /\ Blank(Torn).gz \in Solved
  BY BlankType DEF File
<1>3. ASSUME SpoilExecute(c)
      PROVE  bytecode' \in File(Versions) /\ vkOlder' \in BOOLEAN /\ gz' \in Solved
  <2>1. bytecode' \in File(Versions)
    BY <1>1, <1>2, <1>3 DEF SpoilExecute, SaveBytecode, TypeOK
  <2>2. vkOlder' \in BOOLEAN
    BY <1>3 DEF SpoilExecute, SaveBytecode, TypeOK
  <2>3. gz' \in Solved
    BY <1>1, <1>2, <1>3 DEF SpoilExecute, TypeOK
  <2>4. QED
    BY <2>1, <2>2, <2>3
<1>4. ASSUME SpoilWriteVk(c)
      PROVE  vk' \in File(Versions) /\ vkOlder' \in BOOLEAN
  <2>1. vk' \in File(Versions)
    BY <1>1, <1>2, <1>4 DEF SpoilWriteVk, TypeOK
  <2>2. vkOlder' \in BOOLEAN
    BY <1>4 DEF SpoilWriteVk, TypeOK
  <2>3. QED
    BY <2>1, <2>2
<1>5. QED
  BY <1>3, <1>4 DEF SpoilWriteVk

LEMMA NextType ==
  ASSUME TypeOK, [Next]_vars PROVE TypeOK'
<1> USE DEF TypeOK, File, Versions, Solved, Proof, Blank, Step, Hold, Waiting, InCommand, Ended
<1>1. CASE UNCHANGED vars
  BY <1>1 DEF vars
<1>2. CASE Edit
  BY <1>2 DEF Edit, disk
<1>3. ASSUME NEW c \in Calls, Begin(c) PROVE TypeOK'
  <2>1. PICK w \in Witnesses, check \in BOOLEAN :
          /\ asked' = [asked EXCEPT ![c] = [wit |-> w, verify |-> check, since |-> circuit]]
          /\ toml' = w
    BY <1>3 DEF Begin
  <2>2. pc' = [pc EXCEPT ![c] = "begun"] /\ pc[c] = "idle"
    BY <1>3 DEF Begin
  <2>3. asked' \in [Calls -> Request \cup {NoFile}]
    BY <2>1 DEF Request
  <2>4. asked'[c] # NoFile
    <3>1. asked'[c] \in [wit : Witnesses, verify : BOOLEAN, since : Nat]
      BY <2>1
    <3>2. QED
      BY <3>1
  <2>5. \A d \in Calls : pc'[d] # "idle" => asked'[d] # NoFile
    BY <2>1, <2>2, <2>4
  <2>6. QED
    BY <1>3, <2>1, <2>2, <2>3, <2>5 DEF Begin
<1>4. ASSUME NEW c \in Calls, Rewrite(c) PROVE TypeOK'
  <2>1. asked[c] \in Request /\ asked[c].wit \in Witnesses
    BY <1>4 DEF Rewrite, Request
  <2>2. QED
    BY <1>4, <2>1 DEF Rewrite
<1>5. ASSUME NEW c \in Calls, StartExecute(c) PROVE TypeOK'
  BY <1>5 DEF StartExecute, disk
<1>6. ASSUME NEW c \in Calls, EndExecute(c) PROVE TypeOK'
  <2>1. CASE bytecode' = held[c].ver /\ vkOlder' = TRUE
    BY <1>6, <2>1 DEF EndExecute
  <2>2. CASE UNCHANGED <<bytecode, vkOlder>>
    BY <1>6, <2>2 DEF EndExecute
  <2>3. QED
    BY <1>6, <2>1, <2>2 DEF EndExecute, SaveBytecode
<1>7. ASSUME NEW c \in Calls, ExecuteFails(c) PROVE TypeOK'
  BY <1>7, SpoilType DEF ExecuteFails, SpoilExecute
<1>8. ASSUME NEW c \in Calls, CheckVk(c) PROVE TypeOK'
  BY <1>8 DEF CheckVk, disk
<1>9. ASSUME NEW c \in Calls, StartWriteVk(c) PROVE TypeOK'
  <2>1. [held[c] EXCEPT !.ver = bytecode] \in Proof
    BY DEF TypeOK, Proof
  <2>2. held' \in [Calls -> Proof]
    BY <1>9, <2>1 DEF StartWriteVk
  <2>3. QED
    BY <1>9, <2>2 DEF StartWriteVk, disk
<1>10. ASSUME NEW c \in Calls, EndWriteVk(c) PROVE TypeOK'
  BY <1>10 DEF EndWriteVk
<1>11. ASSUME NEW c \in Calls, WriteVkFails(c) PROVE TypeOK'
  BY <1>11, SpoilType DEF WriteVkFails
<1>12. ASSUME NEW c \in Calls, StartProve(c) PROVE TypeOK'
  BY <1>12 DEF StartProve, disk
<1>13. ASSUME NEW c \in Calls, EndProve(c) PROVE TypeOK'
  BY <1>13 DEF EndProve
<1>14. ASSUME NEW c \in Calls, ProveFails(c) PROVE TypeOK'
  BY <1>14 DEF ProveFails, SpoilProve
<1>15. ASSUME NEW c \in Calls, ReadProof(c) PROVE TypeOK'
  BY <1>15 DEF ReadProof, disk
<1>16. ASSUME NEW c \in Calls, Verify(c) PROVE TypeOK'
  BY <1>16 DEF Verify, disk, Verifies
<1>17. ASSUME NEW c \in Calls, StepFails(c) PROVE TypeOK'
  BY <1>17 DEF StepFails, disk
<1>18. ASSUME NEW c \in Calls, Crash(c) PROVE TypeOK'
  <2>1. CASE SpoilExecute(c)
    BY <1>18, <2>1, SpoilType DEF Crash, SpoilExecute, Active
  <2>2. CASE SpoilWriteVk(c)
    BY <1>18, <2>2, SpoilType DEF Crash, Active
  <2>3. CASE SpoilProve(c)
    BY <1>18, <2>3 DEF Crash, SpoilProve, Active
  <2>4. CASE UNCHANGED disk
    BY <1>18, <2>4 DEF Crash, disk, Active
  <2>5. QED
    BY <1>18, <2>1, <2>2, <2>3, <2>4 DEF Crash
<1>19. QED
  BY <1>1, <1>2, <1>3, <1>4, <1>5, <1>6, <1>7, <1>8, <1>9, <1>10, <1>11, <1>12,
     <1>13, <1>14, <1>15, <1>16, <1>17, <1>18 DEF Next

(* Every variable has its type, with or without the lock.                  *)
THEOREM TypeCorrect == Spec => []TypeOK
<1>1. TypeOK /\ [Next]_vars => TypeOK'
  BY NextType
<1>2. QED
  BY InitType, <1>1, PTL DEF Spec

-----------------------------------------------------------------------------

(* A step of call c while no other call is on the way.                     *)
Alone(c) ==
  /\ circuit' = circuit
  /\ \A d \in Calls \ {c} : /\ ~Active(d)
                            /\ pc'[d] = pc[d]
                            /\ asked'[d] = asked[d]
                            /\ held'[d] = held[d]
                            /\ verified'[d] = verified[d]

CallStep(c) ==
  \/ Begin(c) \/ Rewrite(c)
  \/ StartExecute(c) \/ EndExecute(c) \/ ExecuteFails(c)
  \/ CheckVk(c) \/ StartWriteVk(c) \/ EndWriteVk(c) \/ WriteVkFails(c)
  \/ StartProve(c) \/ EndProve(c) \/ ProveFails(c)
  \/ ReadProof(c) \/ Verify(c)
  \/ StepFails(c) \/ Crash(c)

LEMMA StepAlone ==
  ASSUME Exclusive, IInv, NEW c \in Calls, CallStep(c) PROVE Alone(c)
<1>1. circuit' = circuit
  BY DEF CallStep, Begin, Rewrite, StartExecute, EndExecute, ExecuteFails, CheckVk, StartWriteVk, EndWriteVk, WriteVkFails, StartProve, EndProve, ProveFails, ReadProof, Verify, StepFails, Crash
<1>2. \A d \in Calls \ {c} : pc'[d] = pc[d]
  BY DEF IInv, TypeOK, Step, CallStep, Begin, Rewrite, StartExecute, EndExecute, ExecuteFails, CheckVk, StartWriteVk, EndWriteVk, WriteVkFails, StartProve, EndProve, ProveFails, ReadProof, Verify, StepFails, Crash
<1>3. \A d \in Calls \ {c} : /\ asked'[d] = asked[d]
                             /\ held'[d] = held[d]
                             /\ verified'[d] = verified[d]
  BY DEF IInv, TypeOK, Hold, CallStep, Begin, Rewrite, StartExecute, EndExecute, ExecuteFails, CheckVk, StartWriteVk, EndWriteVk, WriteVkFails, StartProve, EndProve, ProveFails, ReadProof, Verify, StepFails, Crash
<1>4. Active(c) \/ \A d \in Calls : ~Active(d)
  BY DEF Active, Waiting, InCommand, Step, SpoilExecute, CallStep, Begin, Rewrite, StartExecute, EndExecute, ExecuteFails, CheckVk, StartWriteVk, EndWriteVk, WriteVkFails, StartProve, EndProve, ProveFails, ReadProof, Verify, StepFails, Crash
<1>5. \A d \in Calls \ {c} : ~Active(d)
  BY <1>4 DEF IInv, OneActive
<1>6. QED
  BY <1>1, <1>2, <1>3, <1>5 DEF Alone

(* The calls that wait their turn, or have ended, depend on no file.       *)
LEMMA OthersKeep ==
  ASSUME IInv, NEW c \in Calls, Alone(c)
  PROVE  OneActive' /\ \A d \in Calls \ {c} : Track(d)'
<1>1. OneActive'
  BY DEF Alone, OneActive, Active
<1>2. ASSUME NEW d \in Calls \ {c} PROVE Track(d)'
  <2>1. Track(d) /\ ~Active(d)
    BY DEF Alone, IInv
  <2>2. pc[d] \notin {"begun", "ready", "executing", "executed", "refresh", "writing",
                      "prove", "proving", "read", "verify"}
    BY <2>1 DEF Active, Waiting, InCommand
  <2>3. Early(d)'
    BY <2>1, <2>2 DEF Alone, Track, Early
  <2>4. Middle(d)'
    BY <2>2 DEF Alone, Middle
  <2>5. Late(d)'
    BY <2>1, <2>2 DEF Alone, Track, Late, Fits, Verifies
  <2>6. QED
    BY <2>3, <2>4, <2>5 DEF Track
<1>3. QED
  BY <1>1, <1>2

(* A command that is stopped leaves no key of another bytecode that looks   *)
(* newer than the bytecode.                                                 *)
LEMMA SpoilKeepsKey ==
  ASSUME IInv, NEW c \in Calls, SpoilExecute(c) \/ SpoilWriteVk(c) \/ SpoilProve(c)
  PROVE  CachedKeyIsCurrent'
<1>1. CachedKeyIsCurrent /\ (pc[c] = "writing" => held[c].ver = bytecode)
  BY DEF IInv, Track, Middle
<1>2. CASE SpoilExecute(c)
  <2>1. vk' = vk /\ (vkOlder' = TRUE \/ UNCHANGED <<bytecode, vkOlder>>)
    BY <1>2 DEF SpoilExecute, SaveBytecode
  <2>2. QED
    BY <1>1, <2>1 DEF CachedKeyIsCurrent
<1>3. CASE SpoilWriteVk(c)
  <2>1. bytecode' = bytecode /\ (vk' \in {bytecode, Torn} \/ UNCHANGED <<vk, vkOlder>>)
    BY <1>1, <1>3 DEF SpoilWriteVk
  <2>2. Torn \notin Versions
    BY DEF Versions
  <2>3. QED
    BY <1>1, <2>1, <2>2 DEF CachedKeyIsCurrent, Versions
<1>4. CASE SpoilProve(c)
  BY <1>1, <1>4 DEF SpoilProve, CachedKeyIsCurrent
<1>5. QED
  BY <1>2, <1>3, <1>4

(* What the call that makes the step keeps true of itself and of the cache. *)
LEMMA StepKeeps ==
  ASSUME IInv, TypeOK', NEW c \in Calls, CallStep(c)
  PROVE  CachedKeyIsCurrent' /\ Track(c)'
<1>0. /\ Track(c) /\ CachedKeyIsCurrent
      /\ c \in DOMAIN pc /\ c \in DOMAIN held /\ c \in DOMAIN asked /\ c \in DOMAIN verified
      /\ pc[c] # "done" => verified[c] = FALSE
      /\ pc[c] # "idle" => asked[c].since <= circuit
  BY DEF IInv, TypeOK, Track, Late, Early
<1> DEFINE Same == asked' = asked /\ circuit' = circuit
<1>1. CASE Begin(c)
  <2>1. PICK w \in Witnesses, check \in BOOLEAN :
          /\ asked' = [asked EXCEPT ![c] = [wit |-> w, verify |-> check, since |-> circuit]]
          /\ toml' = w
    BY <1>1 DEF Begin
  <2>2. asked'[c] = [wit |-> w, verify |-> check, since |-> circuit]
    BY <1>0, <2>1
  <2>3. pc[c] = "idle" /\ pc'[c] = "begun" /\ verified' = verified /\ circuit' = circuit
    BY <1>0, <1>1 DEF Begin, Step
  <2>4. circuit <= circuit
    BY DEF IInv, TypeOK, Versions
  <2>5. CachedKeyIsCurrent'
    BY <1>0, <1>1 DEF Begin, CachedKeyIsCurrent
  <2>6. QED
    BY <1>0, <2>1, <2>2, <2>3, <2>4, <2>5 DEF Track, Early, Middle, Late
<1>2. CASE Rewrite(c)
  <2>1. pc[c] = "begun" /\ pc'[c] = "ready" /\ verified' = verified /\ Same
    BY <1>0, <1>2 DEF Rewrite, Step
  <2>2. CachedKeyIsCurrent' /\ toml' = asked[c].wit
    BY <1>0, <1>2 DEF Rewrite, CachedKeyIsCurrent
  <2>3. QED
    BY <1>0, <2>1, <2>2 DEF Track, Early, Middle, Late
<1>3. CASE StartExecute(c)
  <2>1. pc[c] = "ready" /\ pc'[c] = "executing" /\ verified' = verified /\ Same
    BY <1>0, <1>3 DEF StartExecute, Step
  <2>2. CachedKeyIsCurrent'
    BY <1>0, <1>3 DEF StartExecute, disk, CachedKeyIsCurrent
  <2>3. /\ held'[c].ver = circuit
        /\ held'[c].gz = [ver |-> circuit, wit |-> asked[c].wit]
    BY <1>0, <1>3, <2>1 DEF StartExecute, Hold, Track, Early
  <2>4. circuit \in asked[c].since..circuit
    BY <1>0, <2>1 DEF IInv, TypeOK, Versions, Request
  <2>5. QED
    BY <1>0, <2>1, <2>2, <2>3, <2>4 DEF Track, Early, Middle, Late
<1>4. CASE EndExecute(c)
  <2>1. pc[c] = "executing" /\ pc'[c] = "executed" /\ verified' = verified /\ Same
    BY <1>0, <1>4 DEF EndExecute, Step
  <2>2. /\ held[c].ver \in asked[c].since..circuit
        /\ held[c].gz = [ver |-> held[c].ver, wit |-> asked[c].wit]
    BY <1>0, <2>1 DEF Track, Early
  <2>3. bytecode' = held[c].ver /\ gz' = held[c].gz /\ vk' = vk
    BY <1>4 DEF EndExecute, SaveBytecode
  <2>4. vkOlder' = TRUE \/ UNCHANGED <<bytecode, vkOlder>>
    BY <1>4 DEF EndExecute, SaveBytecode
  <2>5. CachedKeyIsCurrent'
    BY <1>0, <2>3, <2>4 DEF CachedKeyIsCurrent
  <2>6. Solution(c)'
    BY <2>1, <2>2, <2>3 DEF Solution
  <2>7. QED
    BY <1>0, <2>1, <2>5, <2>6 DEF Track, Early, Middle, Late
<1>5. CASE ExecuteFails(c)
  <2>1. pc[c] = "executing" /\ pc'[c] = "failed" /\ verified' = verified /\ Same
    BY <1>0, <1>5 DEF ExecuteFails, Step
  <2>2. CachedKeyIsCurrent'
    BY <1>5, SpoilKeepsKey DEF ExecuteFails
  <2>3. QED
    BY <1>0, <2>1, <2>2 DEF Track, Early, Middle, Late
<1>6. CASE CheckVk(c)
  <2>1. /\ pc[c] = "executed" /\ verified' = verified /\ Same
        /\ pc'[c] = IF vk_needs_refresh THEN "refresh" ELSE "prove"
    BY <1>0, <1>6 DEF CheckVk, Step
  <2>2. CachedKeyIsCurrent' /\ bytecode' = bytecode /\ gz' = gz /\ vk' = vk /\ vkOlder' = vkOlder
    BY <1>0, <1>6 DEF CheckVk, disk, CachedKeyIsCurrent
  <2>3. Solution(c)'
    BY <1>0, <2>1, <2>2 DEF Track, Middle, Solution
  <2>4. pc'[c] = "prove" => vk # NoFile /\ ~vkOlder
    BY <2>1 DEF vk_needs_refresh
  <2>5. QED
    BY <1>0, <2>1, <2>2, <2>3, <2>4 DEF Track, Early, Middle, Late
<1>7. CASE StartWriteVk(c)
  <2>1. pc[c] = "refresh" /\ pc'[c] = "writing" /\ verified' = verified /\ Same
    BY <1>0, <1>7 DEF StartWriteVk, Step
  <2>2. CachedKeyIsCurrent' /\ bytecode' = bytecode /\ gz' = gz
    BY <1>0, <1>7 DEF StartWriteVk, disk, CachedKeyIsCurrent
  <2>3. held'[c].ver = bytecode
    BY <1>0, <1>7 DEF StartWriteVk, Hold, IInv, TypeOK, Proof
  <2>4. Solution(c)'
    BY <1>0, <2>1, <2>2 DEF Track, Middle, Solution
  <2>5. QED
    BY <1>0, <2>1, <2>2, <2>3, <2>4 DEF Track, Early, Middle, Late
<1>8. CASE EndWriteVk(c)
  <2>1. pc[c] = "writing" /\ pc'[c] = "prove" /\ verified' = verified /\ Same
    BY <1>0, <1>8 DEF EndWriteVk, Step
  <2>2. Solution(c) /\ held[c].ver = bytecode
    BY <1>0, <2>1 DEF Track, Middle
  <2>3. /\ bytecode' = bytecode /\ gz' = gz
        /\ vk' = held[c].ver /\ vkOlder' = FALSE /\ held[c].ver \in Versions
    BY <1>8 DEF EndWriteVk
  <2>4. CachedKeyIsCurrent' /\ vk' # NoFile /\ Solution(c)'
    BY <2>1, <2>2, <2>3 DEF CachedKeyIsCurrent, Solution, Versions
  <2>5. QED
    BY <1>0, <2>1, <2>3, <2>4 DEF Track, Early, Middle, Late
<1>9. CASE WriteVkFails(c)
  <2>1. pc[c] = "writing" /\ pc'[c] = "failed" /\ verified' = verified /\ Same
    BY <1>0, <1>9 DEF WriteVkFails, Step
  <2>2. CachedKeyIsCurrent'
    BY <1>9, SpoilKeepsKey DEF WriteVkFails
  <2>3. QED
    BY <1>0, <2>1, <2>2 DEF Track, Early, Middle, Late
<1>10. CASE StartProve(c)
  <2>1. pc[c] = "prove" /\ pc'[c] = "proving" /\ verified' = verified /\ Same
    BY <1>0, <1>10 DEF StartProve, Step
  <2>2. /\ CachedKeyIsCurrent' /\ bytecode' = bytecode /\ gz' = gz
        /\ vk' = vk /\ vkOlder' = vkOlder
    BY <1>0, <1>10 DEF StartProve, disk, CachedKeyIsCurrent
  <2>3. held'[c] = [ver |-> bytecode, gz |-> gz, key |-> vk]
    BY <1>0, <1>10 DEF StartProve, Hold
  <2>4. Solution(c)' /\ vk # NoFile /\ ~vkOlder
    BY <1>0, <2>1, <2>2 DEF Track, Middle, Solution
  <2>5. QED
    BY <1>0, <2>1, <2>2, <2>3, <2>4 DEF Track, Early, Middle, Late
<1>11. CASE EndProve(c)
  <2>1. pc[c] = "proving" /\ pc'[c] = "read" /\ verified' = verified /\ Same
    BY <1>0, <1>11 DEF EndProve, Step
  <2>2. /\ Solution(c) /\ ~vkOlder
        /\ held[c] = [ver |-> bytecode, gz |-> gz, key |-> vk]
    BY <1>0, <2>1 DEF Track, Middle
  <2>3. proof' = held[c] /\ Readable(held[c]) /\ vk' = vk
    BY <1>11 DEF EndProve
  <2>4. CachedKeyIsCurrent'
    BY <1>0, <1>11 DEF EndProve, CachedKeyIsCurrent
  <2>5. vk = bytecode
    BY <1>0, <2>2, <2>3 DEF CachedKeyIsCurrent, Readable
  <2>6. Fits(c, proof)' /\ vk' = proof'.key
    BY <2>1, <2>2, <2>3, <2>5 DEF Fits, Verifies, Solution
  <2>7. QED
    BY <1>0, <2>1, <2>4, <2>6 DEF Track, Early, Middle, Late
<1>12. CASE ProveFails(c)
  <2>1. pc[c] = "proving" /\ pc'[c] = "failed" /\ verified' = verified /\ Same
    BY <1>0, <1>12 DEF ProveFails, Step
  <2>2. CachedKeyIsCurrent'
    BY <1>12, SpoilKeepsKey DEF ProveFails
  <2>3. QED
    BY <1>0, <2>1, <2>2 DEF Track, Early, Middle, Late
<1>13. CASE ReadProof(c)
  <2>1. /\ pc[c] = "read" /\ verified' = verified /\ Same
        /\ pc'[c] = IF asked[c].verify THEN "verify" ELSE "done"
    BY <1>0, <1>13 DEF ReadProof, Step
  <2>2. CachedKeyIsCurrent' /\ held'[c] = proof /\ proof' = proof /\ vk' = vk
    BY <1>0, <1>13 DEF ReadProof, Hold, disk, CachedKeyIsCurrent
  <2>3. Fits(c, proof) /\ vk = proof.key /\ verified[c] = FALSE
    BY <1>0, <2>1 DEF Track, Late
  <2>4. Fits(c, proof)' /\ Fits(c, held[c])'
    BY <2>1, <2>2, <2>3 DEF Fits
  <2>5. asked[c].verify \in BOOLEAN
    BY <2>1 DEF IInv, TypeOK, Request
  <2>6. CASE asked[c].verify = TRUE
    BY <1>0, <2>1, <2>2, <2>3, <2>4, <2>6 DEF Track, Early, Middle, Late
  <2>7. CASE asked[c].verify = FALSE
    BY <1>0, <2>1, <2>2, <2>3, <2>4, <2>7 DEF Track, Early, Middle, Late
  <2>8. QED
    BY <2>5, <2>6, <2>7
<1>14. CASE Verify(c)
  <2>1. pc[c] = "verify" /\ pc'[c] = "done" /\ Same
    BY <1>0, <1>14 DEF Verify, Step
  <2>2. /\ CachedKeyIsCurrent' /\ held' = held
        /\ verified'[c] = Verifies(proof, vk)
    BY <1>0, <1>14 DEF Verify, disk, CachedKeyIsCurrent
  <2>3. Fits(c, proof) /\ vk = proof.key /\ asked[c].verify /\ held[c] = proof
    BY <1>0, <2>1 DEF Track, Late
  <2>4. Verifies(proof, vk) = TRUE
    BY <2>3 DEF Fits, Verifies
  <2>5. asked[c].verify = TRUE
    BY <2>1, <2>3 DEF IInv, TypeOK, Request
  <2>6. Fits(c, held[c])'
    BY <2>1, <2>2, <2>3 DEF Fits
  <2>7. QED
    BY <1>0, <2>1, <2>2, <2>4, <2>5, <2>6 DEF Track, Early, Middle, Late
<1>15. CASE StepFails(c)
  <2>1. pc[c] \in Waiting /\ pc'[c] = "failed" /\ verified' = verified /\ Same
    BY <1>0, <1>15 DEF StepFails
  <2>2. CachedKeyIsCurrent' /\ pc[c] \notin {"idle", "done"}
    BY <1>0, <1>15, <2>1 DEF StepFails, disk, CachedKeyIsCurrent, Waiting
  <2>3. QED
    BY <1>0, <2>1, <2>2 DEF Track, Early, Middle, Late
<1>16. CASE Crash(c)
  <2>1. Active(c) /\ pc'[c] = "crashed" /\ verified' = verified /\ Same
    BY <1>0, <1>16 DEF Crash
  <2>2. pc[c] \notin {"idle", "done"}
    BY <2>1 DEF Active, Waiting, InCommand
  <2>3. CachedKeyIsCurrent'
    BY <1>0, <1>16, SpoilKeepsKey DEF Crash, disk, CachedKeyIsCurrent
  <2>4. QED
    BY <1>0, <2>1, <2>2, <2>3 DEF Track, Early, Middle, Late
<1>17. QED
  BY <1>1, <1>2, <1>3, <1>4, <1>5, <1>6, <1>7, <1>8, <1>9, <1>10, <1>11, <1>12,
     <1>13, <1>14, <1>15, <1>16 DEF CallStep

-----------------------------------------------------------------------------

LEMMA InitIInv == Init => IInv
<1> SUFFICES ASSUME Init PROVE IInv
  OBVIOUS
<1>1. TypeOK
  BY InitType
<1>2. \A c \in Calls : pc[c] = "idle" /\ verified[c] = FALSE
  BY DEF Init
<1>3. OneActive
  BY <1>2 DEF OneActive, Active, Waiting, InCommand
<1>4. CachedKeyIsCurrent
  BY DEF Init, CachedKeyIsCurrent, Versions
<1>5. \A c \in Calls : Track(c)
  BY <1>2 DEF Track, Early, Middle, Late
<1>6. QED
  BY <1>1, <1>3, <1>4, <1>5 DEF IInv

(* An edit moves the source on: what was compiled since a call began still *)
(* was.                                                                    *)
LEMMA EditKeeps ==
  ASSUME IInv, Edit PROVE OneActive' /\ CachedKeyIsCurrent' /\ \A c \in Calls : Track(c)'
<1>1. /\ circuit' = circuit + 1
      /\ UNCHANGED <<toml, bytecode, gz, vk, vkOlder, proof, pc, asked, held, verified>>
  BY DEF Edit, disk
<1>2. OneActive' /\ CachedKeyIsCurrent'
  BY <1>1 DEF IInv, OneActive, Active, CachedKeyIsCurrent
<1>3. ASSUME NEW c \in Calls PROVE Track(c)'
  <2>1. Track(c)
    BY DEF IInv
  <2>2. circuit \in Nat /\ (pc[c] # "idle" => asked[c].since \in Nat)
    BY DEF IInv, TypeOK, Request, Versions
  <2>3. pc[c] # "idle" => asked[c].since..circuit \subseteq asked[c].since..(circuit + 1)
    BY <2>2
  <2>4. Early(c)'
    BY <1>1, <2>1, <2>2, <2>3 DEF Track, Early
  <2>5. Middle(c)'
    BY <1>1, <2>1, <2>3 DEF Track, Middle, Solution
  <2>6. Late(c)'
    BY <1>1, <2>1, <2>3 DEF Track, Late, Fits
  <2>7. QED
    BY <2>4, <2>5, <2>6 DEF Track
<1>4. QED
  BY <1>2, <1>3

LEMMA NextIInv ==
  ASSUME Exclusive, IInv, [Next]_vars PROVE IInv'
<1>1. TypeOK'
  BY NextType DEF IInv
<1>2. CASE UNCHANGED vars
  <2>1. OneActive' /\ CachedKeyIsCurrent'
    BY <1>2 DEF vars, IInv, OneActive, Active, CachedKeyIsCurrent
  <2>2. \A c \in Calls : Track(c)'
    BY <1>2 DEF vars, IInv, Track, Early, Middle, Late, Solution, Fits
  <2>3. QED
    BY <1>1, <2>1, <2>2 DEF IInv
<1>3. CASE Edit
  BY <1>1, <1>3, EditKeeps DEF IInv
<1>4. ASSUME NEW c \in Calls, CallStep(c) PROVE IInv'
  <2>1. Alone(c)
    BY <1>4, StepAlone
  <2>2. OneActive' /\ \A d \in Calls \ {c} : Track(d)'
    BY <2>1, OthersKeep
  <2>3. CachedKeyIsCurrent' /\ Track(c)'
    BY <1>1, <1>4, StepKeeps
  <2>4. QED
    BY <1>1, <2>2, <2>3 DEF IInv
<1>5. QED
  BY <1>2, <1>3, <1>4 DEF Next, CallStep

THEOREM Invariance == ASSUME Exclusive PROVE Spec => []IInv
<1>1. IInv /\ [Next]_vars => IInv'
  BY NextIInv
<1>2. QED
  BY InitIInv, <1>1, PTL DEF Spec

(* "the generated proof, the witness used to produce it" (lib.rs:21) holds *)
(* whenever the callers take turns.                                        *)
THEOREM OwnProofHolds == ASSUME Exclusive PROVE Spec => []OwnProof
<1>1. IInv => OwnProof
  BY DEF IInv, Track, Late, Fits, OwnProof
<1>2. QED
  BY Invariance, <1>1, PTL

(* vk_needs_refresh never keeps a complete key of another bytecode.        *)
THEOREM CacheHolds == ASSUME Exclusive PROVE Spec => []CachedKeyIsCurrent
<1>1. IInv => CachedKeyIsCurrent
  BY DEF IInv
<1>2. QED
  BY Invariance, <1>1, PTL

-----------------------------------------------------------------------------

LEMMA InitRefines == Init => Service!Init
<1> SUFFICES ASSUME Init PROVE Service!Init
  OBVIOUS
<1>1. \A c \in Calls : pc[c] = "idle"
  BY DEF Init
<1>2. status = [c \in Calls |-> "idle"]
  BY <1>1 DEF status, Active, Waiting, InCommand
<1>3. output = [c \in Calls |-> NoFile]
  BY <1>1 DEF output
<1>4. QED
  BY <1>2, <1>3 DEF Init, Service!Init

(* How a call appears to its caller.                                       *)
Seen(p) ==
  IF p \in Waiting \cup InCommand THEN "pending" ELSE IF p = "done" THEN "returned" ELSE p

LEMMA StatusIsSeen ==
  /\ status = [c \in Calls |-> Seen(pc[c])]
  /\ status' = [c \in Calls |-> Seen(pc'[c])]
BY DEF status, Active, Seen

(* A step of one call moves its own status, and only returning moves output. *)
LEMMA StepSeen ==
  ASSUME IInv, IInv', NEW c \in Calls, Alone(c), pc'[c] # "idle"
  PROVE  /\ status' = [status EXCEPT ![c] = Seen(pc'[c])]
         /\ pc'[c] # "done" /\ pc[c] # "done" => output' = output
         /\ pc'[c] = "done" => output' = [output EXCEPT ![c] =
                                  [proof |-> held'[c], verified |-> verified'[c]]]
<1>1. \A d \in Calls \ {c} : pc'[d] = pc[d] /\ held'[d] = held[d] /\ verified'[d] = verified[d]
  BY DEF Alone
<1>2. status' = [status EXCEPT ![c] = Seen(pc'[c])]
  BY <1>1, StatusIsSeen
<1>3. pc'[c] # "done" /\ pc[c] # "done" => output' = output
  BY <1>1 DEF output
<1>4. pc'[c] = "done" => output' = [output EXCEPT ![c] =
                           [proof |-> held'[c], verified |-> verified'[c]]]
  BY <1>1 DEF output
<1>5. QED
  BY <1>2, <1>3, <1>4

(* Where a step may take a call.                                           *)
LEMMA StepPlace ==
  ASSUME IInv, NEW c \in Calls, CallStep(c)
  PROVE  \/ Begin(c) /\ pc[c] = "idle" /\ pc'[c] = "begun"
         \/ /\ asked' = asked /\ Active(c)
            /\ pc'[c] \in Waiting \cup InCommand \cup Ended
<1>0. pc \in [Calls -> {"idle"} \cup Waiting \cup InCommand \cup Ended]
  BY DEF IInv, TypeOK
<1>1. CASE Begin(c)
  BY <1>0, <1>1 DEF Begin, Step
<1>2. CASE Crash(c)
  BY <1>0, <1>2 DEF Crash, Ended
<1>3. CASE StepFails(c)
  BY <1>0, <1>3 DEF StepFails, Ended, Active
<1>4. CASE ~(Begin(c) \/ Crash(c) \/ StepFails(c))
  BY <1>0, <1>4 DEF CallStep, Step, Active, Waiting, InCommand, Ended, Rewrite, StartExecute,
       EndExecute, ExecuteFails, CheckVk, StartWriteVk, EndWriteVk, WriteVkFails,
       StartProve, EndProve, ProveFails, ReadProof, Verify
<1>5. QED
  BY <1>1, <1>2, <1>3, <1>4

(* A proof that fits is the proof ProvingService would return.             *)
LEMMA FitsIsProofOf ==
  ASSUME NEW p \in Proof, Verifies(p, p.key)
  PROVE  p = Service!ProofOf(p.gz.wit, p.ver)
<1>1. p = [ver |-> p.ver, gz |-> p.gz, key |-> p.key] /\ p.gz \in Solved
  BY DEF Proof
<1>2. p.gz = [ver |-> p.gz.ver, wit |-> p.gz.wit]
  BY <1>1 DEF Solved
<1>3. QED
  BY <1>1, <1>2 DEF Verifies, Service!ProofOf

LEMMA CallStepRefines ==
  ASSUME IInv, IInv', NEW c \in Calls, CallStep(c), Alone(c)
  PROVE  [Service!Next]_(Service!vars)
<1>0. circuit' = circuit
  BY DEF Alone
<1>1. CASE Begin(c) /\ pc[c] = "idle" /\ pc'[c] = "begun"
  <2>1. status[c] = "idle"
    BY <1>1 DEF status, Active, Waiting, InCommand
  <2>2. status' = [status EXCEPT ![c] = "pending"] /\ output' = output
    BY <1>1, StepSeen DEF Seen, Waiting
  <2>3. Service!Call(c)
    BY <1>0, <1>1, <2>1, <2>2 DEF Begin, Service!Call
  <2>4. QED
    BY <2>3 DEF Service!Next
<1>2. CASE asked' = asked /\ Active(c) /\ pc'[c] \in Waiting \cup InCommand
  <2>1. pc[c] # "done" /\ pc'[c] # "done" /\ pc'[c] # "idle"
    BY <1>2 DEF Active, Waiting, InCommand
  <2>2. status[c] = "pending" /\ status' = [status EXCEPT ![c] = "pending"] /\ output' = output
    BY <1>2, <2>1, StepSeen DEF status, Seen
  <2>3. status' = status
    BY <2>2 DEF status
  <2>4. QED
    BY <1>0, <1>2, <2>2, <2>3 DEF Service!vars
<1>3. CASE asked' = asked /\ Active(c) /\ pc'[c] = "done"
  <2>1. status[c] = "pending"
    BY <1>3 DEF status
  <2>2. /\ status' = [status EXCEPT ![c] = "returned"]
        /\ output' = [output EXCEPT ![c] = [proof |-> held'[c], verified |-> verified'[c]]]
    BY <1>3, StepSeen DEF Seen, Waiting, InCommand
  <2>3. Fits(c, held[c])' /\ verified'[c] = asked[c].verify
    BY <1>3 DEF IInv, Track, Late
  <2>4. held'[c] = Service!ProofOf(asked[c].wit, held'[c].ver)
    <3>1. held'[c] \in Proof
      BY DEF IInv, TypeOK
    <3>2. Verifies(held'[c], held'[c].key) /\ held'[c].gz.wit = asked[c].wit
      BY <1>3, <2>3 DEF Fits
    <3>3. QED
      BY <3>1, <3>2, FitsIsProofOf
  <2>5. held'[c].ver \in asked[c].since..circuit
    BY <1>0, <1>3, <2>3 DEF Fits
  <2>6. Service!Return(c)
    BY <1>0, <1>3, <2>1, <2>2, <2>3, <2>4, <2>5 DEF Service!Return
  <2>7. QED
    BY <2>6 DEF Service!Next
<1>4. CASE asked' = asked /\ Active(c) /\ pc'[c] \in {"failed", "crashed"}
  <2>1. status[c] = "pending" /\ pc[c] # "done"
    BY <1>4 DEF status, Active, Waiting, InCommand
  <2>2. status' = [status EXCEPT ![c] = pc'[c]] /\ output' = output
    BY <1>4, <2>1, StepSeen DEF Seen, Waiting, InCommand
  <2>3. Service!GiveUp(c)
    BY <1>0, <1>4, <2>1, <2>2 DEF Service!GiveUp
  <2>4. QED
    BY <2>3 DEF Service!Next
<1>5. QED
  BY <1>1, <1>2, <1>3, <1>4, StepPlace DEF Ended

LEMMA NextRefines ==
  ASSUME Exclusive, IInv, IInv', [Next]_vars PROVE [Service!Next]_(Service!vars)
<1>1. CASE UNCHANGED vars
  BY <1>1 DEF vars, Service!vars, status, output, Active
<1>2. CASE Edit
  <2>1. UNCHANGED <<pc, asked, held, verified>>
    BY <1>2 DEF Edit
  <2>2. status' = status /\ output' = output
    BY <2>1 DEF status, output, Active
  <2>3. Service!Edit
    BY <1>2, <2>1, <2>2 DEF Edit, Service!Edit
  <2>4. QED
    BY <2>3 DEF Service!Next
<1>3. ASSUME NEW c \in Calls, CallStep(c) PROVE [Service!Next]_(Service!vars)
  BY <1>3, StepAlone, CallStepRefines
<1>4. QED
  BY <1>1, <1>2, <1>3 DEF Next, CallStep

(* Serialised calls keep every promise of ProvingService: own witness,     *)
(* circuit current during the call, its key, verified if asked.            *)
THEOREM Refinement == ASSUME Exclusive PROVE Spec => ImplementsService
<1>1. IInv /\ IInv' /\ [Next]_vars => [Service!Next]_(Service!vars)
  BY NextRefines
<1>2. QED
  BY Invariance, InitRefines, <1>1, PTL DEF Spec, ImplementsService, Service!Spec
=============================================================================
