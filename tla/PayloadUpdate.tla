---------------------------- MODULE PayloadUpdate ----------------------------
(* The scheme of README.rst:286 that replaces a payload by means of two    *)
(* partitions, with the choice that boot_blockdev makes at every boot.     *)
(* The updater is not part of the repository.  It writes the unused        *)
(* partition, which takes several steps, and then changes the type of the  *)
(* used one, which is one write of a sector.  The power fails at any step; *)
(* the updater then starts again from the partition table.                 *)
EXTENDS PayloadChoice, Integers

CONSTANTS
  MaxVersion     \* bound: the number of updates

ASSUME MaxVersionAssumption == MaxVersion \in Nat

Part == {1, 2}

VARIABLES
  type,          \* [Part -> PayloadType]
  content,       \* [Part -> version, or Torn while it is being written]
  version,       \* of the newest payload that was written completely
  step           \* of the updater: "idle", "writing", "written"

updvars == <<type, content, version, step>>

Torn == -1

\* boot_blockdev with the types f: each type is present at most once here
Mask(f) == {f[p] : p \in Part}
BootedOf(f) == CHOOSE p \in Part : f[p] = UsedIndex(Mask(f))

Missing(f) == CHOOSE t \in PayloadType : t \notin Mask(f)

Booted == BootedOf(type)
Unused == CHOOSE p \in Part : p # Booted

\* a disk with one good payload; the other partition was never written
UpdateInit ==
  /\ type \in {f \in [Part -> PayloadType] : f[1] # f[2]}
  /\ content = [p \in Part |-> IF p = Booted THEN 0 ELSE Torn]
  /\ version = 0 /\ step = "idle"

\* "write the new payload to the partition that is currently unused"
BeginWrite ==
  /\ step = "idle" /\ version < MaxVersion
  /\ content' = [content EXCEPT ![Unused] = Torn]
  /\ step' = "writing"
  /\ UNCHANGED <<type, version>>

EndWrite ==
  /\ step = "writing"
  /\ content' = [content EXCEPT ![Unused] = version + 1]
  /\ version' = version + 1
  /\ step' = "written"
  /\ UNCHANGED type

\* mutant: the type is changed before the write has ended
Retype_Early ==
  /\ step \in {"writing", "written"}
  /\ type' = [type EXCEPT ![Booted] = Missing(type)]
  /\ step' = "idle"
  /\ UNCHANGED <<content, version>>

\* "change the type of the old payload partition to the type that was not
\* present before"
Retype ==
  /\ step = "written"
  /\ type' = [type EXCEPT ![Booted] = Missing(type)]
  /\ step' = "idle"
  /\ UNCHANGED <<content, version>>

\* the power fails and the machine boots
Crash == step' = "idle" /\ UNCHANGED <<type, content, version>>

UpdateNext == BeginWrite \/ EndWrite \/ Retype \/ Crash

UpdateSpec == UpdateInit /\ [][UpdateNext]_updvars

-----------------------------------------------------------------------------
(* Types.                                                                  *)
UpdateTypeOK ==
  /\ type \in [Part -> PayloadType]
  /\ content \in [Part -> Nat \union {Torn}]
  /\ version \in Nat
  /\ step \in {"idle", "writing", "written"}

(* Whenever the machine boots, the payload that boot_blockdev chooses is   *)
(* one that was written completely (README.rst:286, "atomically").         *)
BootsComplete == content[Booted] # Torn

(* The type change of the old partition makes boot_blockdev choose the new *)
(* payload, and nothing else does: before it the old payload is booted.    *)
SwitchesPayload ==
  /\ content'[Booted'] # content[Booted] => step = "written" /\ content'[Booted'] = version
  /\ step = "written" /\ type' # type => content'[Booted'] = version
RetypeSwitches == [][SwitchesPayload]_updvars
=============================================================================
