----------------------------- MODULE NoirProver -----------------------------
(***************************************************************************)
(* proveno-noir's prove_from_artifacts (lib.rs) and NoirProver (prover.rs) *)
(* at work in a circuit directory.  A call writes Prover.toml, runs nargo  *)
(* and bb, and reads the proof back; everything passes through files that  *)
(* all calls on the directory share and that outlive a call.  Witnesses    *)
(* are opaque: what is in them is the subject of NoirReplay.               *)
(*                                                                         *)
(* A command reads its inputs when it starts and writes its outputs when   *)
(* it ends.  One that fails or is killed leaves each output as it was, in  *)
(* full, or torn.  nargo and bb are external: nargo recompiles when the    *)
(* source differs from the bytecode on disk (and is free to rewrite the    *)
(* same bytecode); bb refuses files that are missing or torn and otherwise *)
(* proves with whatever it is given.  A crash takes the running command    *)
(* down with the call.  File times enter through vkOlder alone.            *)
(***************************************************************************)
EXTENDS Naturals

CONSTANTS
  Calls,       \* calls of prove_from_artifacts, each made at most once
  Witnesses,   \* the witnesses that calls are made with
  MaxEdits,    \* bound on the edits of the circuit's source
  Exclusive,   \* the callers serialise the calls on a directory
  NoFile,      \* a file that does not exist, or nothing read yet
  Torn         \* a file whose writer was stopped half way

ASSUME EditsAssumption == MaxEdits \in Nat
ASSUME ExclusiveAssumption == Exclusive \in BOOLEAN
ASSUME FilesAssumption ==
  /\ NoFile # Torn
  /\ {NoFile, Torn} \cap Nat = {}
  /\ {NoFile, Torn} \cap Witnesses = {}
  /\ NoFile \notin [wit : Witnesses, verify : BOOLEAN, since : Nat]

VARIABLES
  circuit,     \* version of noir/src/main.nr
  toml,        \* Prover.toml: the witness in it
  bytecode,    \* target/trace_verifier.json: the version it was compiled from
  gz,          \* target/trace_verifier.gz: a witness solved for a version
  vk,          \* target/vk: the version whose key it is
  vkOlder,     \* the time of target/vk is before that of the bytecode
  proof,       \* target/proof and target/public_inputs
  pc,          \* where each call is
  asked,       \* the arguments of each call, and the circuit it started from
  held,        \* what the call's current command, or the call, has read
  verified     \* ProveOutput.verified

disk == <<toml, bytecode, gz, vk, vkOlder, proof>>
vars == <<circuit, toml, bytecode, gz, vk, vkOlder, proof, pc, asked, held, verified>>

Versions == 0..MaxEdits
File(S) == S \cup {NoFile, Torn}

Solved == [ver : Versions, wit : File(Witnesses)]
(* A proof is what bb prove was given: bytecode, solved witness and key.   *)
Proof == [ver : File(Versions), gz : Solved, key : File(Versions)]

Request == [wit : Witnesses, verify : BOOLEAN, since : Versions]

Blank(f) == [ver |-> f, gz |-> [ver |-> 0, wit |-> f], key |-> f]

Waiting == {"begun", "ready", "executed", "refresh", "prove", "read", "verify"}
InCommand == {"executing", "writing", "proving"}
Ended == {"done", "failed", "crashed"}
Active(c) == pc[c] \in Waiting \cup InCommand

TypeOK ==
  /\ circuit \in Versions
  /\ toml \in File(Witnesses)
  /\ bytecode \in File(Versions)
  /\ gz \in Solved
  /\ vk \in File(Versions)
  /\ vkOlder \in BOOLEAN
  /\ proof \in Proof
  /\ pc \in [Calls -> {"idle"} \cup Waiting \cup InCommand \cup Ended]
  /\ asked \in [Calls -> Request \cup {NoFile}]
  /\ held \in [Calls -> Proof]
  /\ verified \in [Calls -> BOOLEAN]
  /\ \A c \in Calls : pc[c] # "idle" => asked[c] # NoFile

(* A fresh checkout: no Prover.toml and no target directory.               *)
Init ==
  /\ circuit = 0
  /\ toml = NoFile
  /\ bytecode = NoFile
  /\ gz = Blank(NoFile).gz
  /\ vk = NoFile
  /\ vkOlder = FALSE
  /\ proof = Blank(NoFile)
  /\ pc = [c \in Calls |-> "idle"]
  /\ asked = [c \in Calls |-> NoFile]
  /\ held = [c \in Calls |-> Blank(NoFile)]
  /\ verified = [c \in Calls |-> FALSE]

Step(c, from, to) == pc[c] = from /\ pc' = [pc EXCEPT ![c] = to]
Hold(c, p) == held' = [held EXCEPT ![c] = p]

(* Fault: nobody takes turns.                                              *)
BeginUnlocked(c) ==
  /\ Step(c, "idle", "begun")
  /\ \E w \in Witnesses, check \in BOOLEAN :
       /\ asked' = [asked EXCEPT ![c] = [wit |-> w, verify |-> check, since |-> circuit]]
       /\ toml' = w
  /\ UNCHANGED <<circuit, bytecode, gz, vk, vkOlder, proof, held, verified>>

(* prove_from_artifacts up to its own write of Prover.toml.                *)
Begin(c) ==
  /\ Exclusive => \A d \in Calls : ~Active(d)
  /\ Step(c, "idle", "begun")
  /\ \E w \in Witnesses, check \in BOOLEAN :
       /\ asked' = [asked EXCEPT ![c] = [wit |-> w, verify |-> check, since |-> circuit]]
       /\ toml' = w
  /\ UNCHANGED <<circuit, bytecode, gz, vk, vkOlder, proof, held, verified>>

(* Fault: Prover.toml is taken for the record of what was asked.           *)
RewriteUnnamed(c) ==
  /\ Step(c, "begun", "ready")
  /\ asked' = [asked EXCEPT ![c] = NoFile]
  /\ UNCHANGED <<circuit, disk, held, verified>>

(* prove: the tools are there, and Prover.toml is written once more.       *)
Rewrite(c) ==
  /\ Step(c, "begun", "ready")
  /\ toml' = asked[c].wit
  /\ UNCHANGED <<circuit, bytecode, gz, vk, vkOlder, proof, asked, held, verified>>

StartExecute(c) ==
  /\ Step(c, "ready", "executing")
  /\ Hold(c, [ver |-> circuit, gz |-> [ver |-> circuit, wit |-> toml], key |-> NoFile])
  /\ UNCHANGED <<circuit, disk, asked, verified>>

(* nargo leaves the bytecode alone if it is what it would write.           *)
SaveBytecode(v) ==
  \/ bytecode' = v /\ vkOlder' = TRUE
  \/ bytecode = v /\ UNCHANGED <<bytecode, vkOlder>>

EndExecute(c) ==
  /\ Step(c, "executing", "executed")
  /\ SaveBytecode(held[c].ver)
  /\ gz' = held[c].gz
  /\ UNCHANGED <<circuit, toml, vk, proof, asked, held, verified>>

(* nargo stopped: perhaps compiled, perhaps solved, perhaps neither.       *)
SpoilExecute(c) ==
  /\ pc[c] = "executing"
  /\ \/ SaveBytecode(held[c].ver)
     \/ bytecode' = Torn /\ vkOlder' = TRUE
     \/ UNCHANGED <<bytecode, vkOlder>>
  /\ gz' \in {gz, held[c].gz, Blank(Torn).gz}
  /\ UNCHANGED <<toml, vk, proof>>

ExecuteFails(c) ==
  /\ Step(c, "executing", "failed")
  /\ SpoilExecute(c)
  /\ UNCHANGED <<circuit, asked, held, verified>>

(* Fault: a key that is there is used, however old.                        *)
VkMissing == vk = NoFile

vk_needs_refresh == vk = NoFile \/ vkOlder

CheckVk(c) ==
  /\ Step(c, "executed", IF vk_needs_refresh THEN "refresh" ELSE "prove")
  /\ UNCHANGED <<circuit, disk, asked, held, verified>>

StartWriteVk(c) ==
  /\ Step(c, "refresh", "writing")
  /\ Hold(c, [held[c] EXCEPT !.ver = bytecode])
  /\ UNCHANGED <<circuit, disk, asked, verified>>

EndWriteVk(c) ==
  /\ Step(c, "writing", "prove")
  /\ held[c].ver \in Versions
  /\ vk' = held[c].ver
  /\ vkOlder' = FALSE
  /\ UNCHANGED <<circuit, toml, bytecode, gz, proof, asked, held, verified>>

SpoilWriteVk(c) ==
  /\ pc[c] = "writing"
  /\ \/ vk' \in {held[c].ver, Torn} /\ vkOlder' = FALSE
     \/ UNCHANGED <<vk, vkOlder>>
  /\ UNCHANGED <<toml, bytecode, gz, proof>>

WriteVkFails(c) ==
  /\ Step(c, "writing", "failed")
  /\ SpoilWriteVk(c)
  /\ UNCHANGED <<circuit, asked, held, verified>>

StartProve(c) ==
  /\ Step(c, "prove", "proving")
  /\ Hold(c, [ver |-> bytecode, gz |-> gz, key |-> vk])
  /\ UNCHANGED <<circuit, disk, asked, verified>>

(* bb can read all of it; whether the parts fit is another matter.         *)
Readable(p) == p.ver \in Versions /\ p.gz.wit \in Witnesses /\ p.key \in Versions

EndProve(c) ==
  /\ Step(c, "proving", "read")
  /\ Readable(held[c])
  /\ proof' = held[c]
  /\ UNCHANGED <<circuit, toml, bytecode, gz, vk, vkOlder, asked, held, verified>>

SpoilProve(c) ==
  /\ pc[c] = "proving"
  /\ proof' \in {proof, Blank(Torn)} \cup {p \in {held[c]} : Readable(p)}
  /\ UNCHANGED <<toml, bytecode, gz, vk, vkOlder>>

(* Fault: the exit status of bb prove is not looked at.                    *)
ProveFailsUnnoticed(c) ==
  /\ Step(c, "proving", "read")
  /\ SpoilProve(c)
  /\ UNCHANGED <<circuit, asked, held, verified>>

ProveFails(c) ==
  /\ Step(c, "proving", "failed")
  /\ SpoilProve(c)
  /\ UNCHANGED <<circuit, asked, held, verified>>

(* The proof is read from target/proof; without do_verify the call is over. *)
ReadProof(c) ==
  /\ Step(c, "read", IF asked[c].verify THEN "verify" ELSE "done")
  /\ Hold(c, proof)
  /\ UNCHANGED <<circuit, disk, asked, verified>>

(* A proof verifies under a key if it was made with that key, for the      *)
(* circuit of that key, from a witness solved for that circuit.            *)
Verifies(p, k) == p.key = k /\ p.ver = k /\ p.gz.ver = k

(* bb verify looks at the files in target, not at the proof of the call.   *)
Verify(c) ==
  /\ Step(c, "verify", "done")
  /\ Readable(proof) /\ vk \in Versions
  /\ verified' = [verified EXCEPT ![c] = Verifies(proof, vk)]
  /\ UNCHANGED <<circuit, disk, asked, held>>

(* A tool is missing or cannot be started, or a file cannot be read.       *)
StepFails(c) ==
  /\ pc[c] \in Waiting
  /\ pc' = [pc EXCEPT ![c] = "failed"]
  /\ UNCHANGED <<circuit, disk, asked, held, verified>>

Crash(c) ==
  /\ Active(c)
  /\ pc' = [pc EXCEPT ![c] = "crashed"]
  /\ \/ SpoilExecute(c)
     \/ SpoilWriteVk(c)
     \/ SpoilProve(c)
     \/ pc[c] \in Waiting /\ UNCHANGED disk
  /\ UNCHANGED <<circuit, asked, held, verified>>

(* Somebody edits the circuit, whatever is running.                        *)
Edit ==
  /\ circuit < MaxEdits
  /\ circuit' = circuit + 1
  /\ UNCHANGED <<disk, pc, asked, held, verified>>

Next ==
  \/ Edit
  \/ \E c \in Calls :
       \/ Begin(c) \/ Rewrite(c)
       \/ StartExecute(c) \/ EndExecute(c) \/ ExecuteFails(c)
       \/ CheckVk(c) \/ StartWriteVk(c) \/ EndWriteVk(c) \/ WriteVkFails(c)
       \/ StartProve(c) \/ EndProve(c) \/ ProveFails(c)
       \/ ReadProof(c) \/ Verify(c)
       \/ StepFails(c) \/ Crash(c)

Spec == Init /\ [][Next]_vars

-----------------------------------------------------------------------------

(* "the generated proof, the witness used to produce it": the bytes that a *)
(* call returns prove the witness it returns with them, whatever earlier   *)
(* calls, failed commands and crashes left in the directory.  Needs the    *)
(* callers to take turns: nothing in NoirProver makes them.                *)
OwnProof == \A c \in Calls : pc[c] = "done" => held[c].gz.wit = asked[c].wit

(* The cached key: a complete target/vk that vk_needs_refresh would keep   *)
(* is the key of the bytecode beside it, after any history of edits,       *)
(* failed commands and crashes.                                            *)
CachedKeyIsCurrent == vk \in Versions /\ ~vkOlder => vk = bytecode

(* The directory, the commands and the cache implement ProvingService: a   *)
(* call returns a proof of its witness for a circuit that was current      *)
(* while it ran, under that circuit's key, verified if that was asked.     *)
status ==
  [c \in Calls |-> IF Active(c) THEN "pending"
                   ELSE IF pc[c] = "done" THEN "returned" ELSE pc[c]]
output ==
  [c \in Calls |-> IF pc[c] = "done"
                   THEN [proof |-> held[c], verified |-> verified[c]] ELSE NoFile]
Service == INSTANCE ProvingService WITH NoOutput <- NoFile
ImplementsService == Service!Spec
=============================================================================
