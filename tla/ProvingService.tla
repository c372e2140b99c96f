--------------------------- MODULE ProvingService ---------------------------
(***************************************************************************)
(* What a caller of prove_from_artifacts is promised, with no directory,   *)
(* no files and no commands in sight: a call ends in an error, dies, or    *)
(* returns in one step a proof of the witness it was given, made for a     *)
(* version of the circuit that was in the source while the call ran, under *)
(* the verification key of that version, and verified if the call asked.   *)
(* NoirProver implements it when calls on a directory are serialised.      *)
(***************************************************************************)
EXTENDS Naturals

CONSTANTS Calls, Witnesses, MaxEdits, NoOutput

VARIABLES
  circuit,    \* version of the circuit's source
  asked,      \* what each call was given, and the version it started from
  status,     \* idle, pending, returned, failed or crashed
  output      \* the ProveOutput of the calls that returned

vars == <<circuit, asked, status, output>>

(* A proof of witness w, made for version v of the circuit and its key.    *)
ProofOf(w, v) == [ver |-> v, gz |-> [ver |-> v, wit |-> w], key |-> v]

Init ==
  /\ circuit = 0
  /\ asked = [c \in Calls |-> NoOutput]
  /\ status = [c \in Calls |-> "idle"]
  /\ output = [c \in Calls |-> NoOutput]

Edit ==
  /\ circuit < MaxEdits
  /\ circuit' = circuit + 1
  /\ UNCHANGED <<asked, status, output>>

Call(c) ==
  /\ status[c] = "idle"
  /\ status' = [status EXCEPT ![c] = "pending"]
  /\ \E w \in Witnesses, check \in BOOLEAN :
       asked' = [asked EXCEPT ![c] = [wit |-> w, verify |-> check, since |-> circuit]]
  /\ UNCHANGED <<circuit, output>>

Return(c) ==
  /\ status[c] = "pending"
  /\ status' = [status EXCEPT ![c] = "returned"]
  /\ \E v \in asked[c].since..circuit :
       output' = [output EXCEPT ![c] = [proof    |-> ProofOf(asked[c].wit, v),
                                        verified |-> asked[c].verify]]
  /\ UNCHANGED <<circuit, asked>>

GiveUp(c) ==
  /\ status[c] = "pending"
  /\ \E s \in {"failed", "crashed"} : status' = [status EXCEPT ![c] = s]
  /\ UNCHANGED <<circuit, asked, output>>

Next == Edit \/ \E c \in Calls : Call(c) \/ Return(c) \/ GiveUp(c)

Spec == Init /\ [][Next]_vars
=============================================================================
