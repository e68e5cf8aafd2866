----------------------------- MODULE SecretsVault -----------------------------
(***************************************************************************)
(* The age vault: the identity files and the encrypted vault on disk, and  *)
(* the processes that read it once into memory and write it whole: the     *)
(* server, for as long as it lives, and every `spark secrets` command, for *)
(* one operation.  Nothing locks the files.                                *)
(*                                                                         *)
(* A process that finds no vault creates one; `init-age-vault --force`     *)
(* deletes the one there is first, `rotate-vault-key` re-encrypts it to a  *)
(* new identity.  Each does so file by file.                               *)
(*                                                                         *)
(* An identity is a number; NoKey is a file that does not exist.  A vault  *)
(* is the identity it is encrypted to and the secrets in it.               *)
(***************************************************************************)
EXTENDS Naturals, FiniteSets

CONSTANTS
    Server, Clis,   \* the processes
    Names,          \* names of secrets
    Values, None,   \* values of secrets; None is a name that is not stored
    MaxKeys,        \* bound: identities ever generated
    MaxFailures     \* bound: writes that fail

Identity == "identity"

ASSUME VaultConstants ==
    /\ Server \notin Clis /\ None \notin Values /\ Identity \notin Names
    /\ MaxKeys \in Nat \ {0} /\ MaxFailures \in Nat

VARIABLES
    plain, wrapped, \* the identity file, and the passphrase-wrapped one
    vault,          \* the vault file
    keys,           \* identities generated so far
    mem,            \* each process's copy of identity and secrets, once unlocked
    rot,            \* the rotation, deletion or creation a process is in
    failures,       \* writes that failed so far
    acked,          \* history: what each name was last acknowledged to hold
    behind,         \* history: names (and identity) others wrote since a process unlocked
    excused,        \* history: names with a lost update or a failed write
    torn            \* history: one of those was cut short, or met a writer or another

vaultVars == <<plain, wrapped, vault, keys, mem, rot, failures, acked, behind, excused, torn>>

Procs == {Server} \cup Clis
NoKey == 0
Stored == [Names -> Values \cup {None}]
Locked == [key |-> NoKey]
NoRotation == [step |-> "none"]
Empty == [n \in Names |-> None]
NoVault == [to |-> NoKey, data |-> Empty]

Unlocked(p) == mem[p] # Locked /\ rot[p] = NoRotation

\* The identity that unlock loads: the wrapped file wins.
KeyOnDisk == IF wrapped # NoKey THEN wrapped ELSE plain

\* is_initialized: the vault, and one of the identity files.
Initialized == vault # NoVault /\ KeyOnDisk # NoKey

\* The vault and the identity on disk belong together, or neither is there.
Opens == vault.to = KeyOnDisk

\* Process p has some of the files changed and others not yet.  One that is about
\* to create ("new") has changed nothing, or has deleted them all.
Rewriting(p) == rot[p].step \notin {"none", "new"}
Rekeying == \E p \in Procs : Rewriting(p)

\* A command ends with its operation; the server keeps its copy.
Keep(p, m) == IF p = Server THEN m ELSE Locked

VaultInit ==
    /\ plain = NoKey /\ wrapped = NoKey /\ vault = NoVault
    /\ keys = 0
    /\ mem = [p \in Procs |-> Locked]
    /\ rot = [p \in Procs |-> NoRotation]
    /\ failures = 0
    /\ acked = Empty
    /\ behind = [p \in Procs |-> {}]
    /\ excused = {}
    /\ torn = FALSE

-----------------------------------------------------------------------------
(* Reading the vault, once for each process.                               *)

Unlock(p) ==
    /\ mem[p] = Locked /\ rot[p] = NoRotation /\ Initialized /\ Opens
    /\ mem' = [mem EXCEPT ![p] = [key |-> KeyOnDisk, data |-> vault.data]]
    /\ behind' = [behind EXCEPT ![p] = {}]
    /\ UNCHANGED <<plain, wrapped, vault, keys, rot, failures, acked, excused, torn>>

\* The process ends: the server stops or dies, a command is interrupted at its
\* prompt or between two files, or finds the vault already created.
Exit(p) ==
    /\ mem[p] # Locked \/ rot[p] # NoRotation
    /\ mem' = [mem EXCEPT ![p] = Locked]
    /\ rot' = [rot EXCEPT ![p] = NoRotation]
    /\ torn' = (torn \/ Rewriting(p))
    /\ behind' = [behind EXCEPT ![p] = {}]
    /\ UNCHANGED <<plain, wrapped, vault, keys, failures, acked, excused>>

-----------------------------------------------------------------------------
(* Writing it, whole.                                                      *)

\* A process that neither holds a copy nor is about to write an empty vault.
Idle(p) == mem[p] = Locked /\ rot[p].step # "fill"

\* Process p has written the file: what others wrote since p unlocked is lost,
\* and every other process is now behind.
Overtakes(p, names) ==
    /\ excused' = excused \cup (behind[p] \ ({Identity} \cup names))
    /\ torn' = (torn \/ Identity \in behind[p])
    /\ behind' = [q \in Procs |-> IF q = p \/ Idle(q) THEN {}
                                  ELSE behind[q] \cup names \cup (behind[p] \ {Identity})]

\* Mutant: only the copy in memory is changed.
Flush_MemoryOnly(p, n, v) ==
    /\ mem' = [mem EXCEPT ![p] = Keep(p, [@ EXCEPT !.data[n] = v])]
    /\ UNCHANGED vault
    /\ Overtakes(p, {n})

\* AgeFileVault.set and delete: the copy in memory is changed, then encrypted to
\* the identity in memory and written over the file.
Flush(p, n, v) ==
    /\ mem' = [mem EXCEPT ![p] = Keep(p, [@ EXCEPT !.data[n] = v])]
    /\ vault' = [to |-> mem[p].key, data |-> [mem[p].data EXCEPT ![n] = v]]
    /\ Overtakes(p, {n})

\* The file cannot be written: the caller is told, the copy in memory stays changed.
FlushFails(p, n, v) ==
    /\ failures < MaxFailures
    /\ failures' = failures + 1
    /\ mem' = [mem EXCEPT ![p] = Keep(p, [@ EXCEPT !.data[n] = v])]
    /\ excused' = excused \cup {n}
    /\ UNCHANGED <<plain, wrapped, vault, keys, rot, acked, behind, torn>>

Store(p, n, v) ==
    /\ Unlocked(p)
    /\ Flush(p, n, v)
    /\ acked' = [acked EXCEPT ![n] = v]
    /\ UNCHANGED <<plain, wrapped, keys, rot, failures>>

StoreFails(p, n, v) == Unlocked(p) /\ FlushFails(p, n, v)

\* A name that is not in memory is a no-op, whatever the file holds.
Remove(p, n) ==
    /\ Unlocked(p)
    /\ acked' = [acked EXCEPT ![n] = None]
    /\ \/ mem[p].data[n] # None /\ Flush(p, n, None)
       \/ /\ mem[p].data[n] = None
          /\ mem' = [mem EXCEPT ![p] = Keep(p, @)]
          /\ excused' = IF n \in behind[p] THEN excused \cup {n} ELSE excused
          /\ UNCHANGED <<vault, behind, torn>>
    /\ UNCHANGED <<plain, wrapped, keys, rot, failures>>

RemoveFails(p, n) == Unlocked(p) /\ mem[p].data[n] # None /\ FlushFails(p, n, None)

-----------------------------------------------------------------------------
(* `spark secrets rotate-vault-key`: three files, one after the other.      *)

RotateIdentity(p, passphrase) ==
    /\ Unlocked(p) /\ p \in Clis /\ keys < MaxKeys
    /\ keys' = keys + 1
    /\ wrapped' = IF passphrase THEN keys + 1 ELSE wrapped
    /\ plain' = IF passphrase THEN plain ELSE keys + 1
    /\ rot' = [rot EXCEPT ![p] = [step |-> "vault", key |-> keys + 1, passphrase |-> passphrase]]
    /\ torn' = (torn \/ Rekeying)
    /\ UNCHANGED <<vault, mem, failures, acked, behind, excused>>

\* Whoever has unlocked before now holds an identity that no longer opens the file.
RotateVault(p) ==
    /\ rot[p].step = "vault"
    /\ vault' = [to |-> rot[p].key, data |-> mem[p].data]
    /\ rot' = [rot EXCEPT ![p].step = "clean"]
    /\ excused' = excused \cup (behind[p] \ {Identity})
    /\ torn' = (torn \/ Identity \in behind[p])
    /\ behind' = [q \in Procs |-> IF q = p \/ Idle(q) THEN {}
                                  ELSE behind[q] \cup behind[p] \cup {Identity}]
    /\ UNCHANGED <<plain, wrapped, keys, mem, failures, acked>>

\* Mutant: the wrapped file of the old identity stays.
RotateClean_NoUnlink(p) ==
    /\ rot[p].step = "clean"
    /\ mem' = [mem EXCEPT ![p] = Locked]
    /\ rot' = [rot EXCEPT ![p] = NoRotation]
    /\ torn' = (torn \/ Identity \in behind[p])
    /\ UNCHANGED <<plain, wrapped, vault, keys, failures, acked, behind, excused>>

RotateClean(p) ==
    /\ rot[p].step = "clean"
    /\ plain' = IF rot[p].passphrase THEN NoKey ELSE plain
    /\ wrapped' = IF rot[p].passphrase THEN wrapped ELSE NoKey
    /\ mem' = [mem EXCEPT ![p] = Locked]
    /\ rot' = [rot EXCEPT ![p] = NoRotation]
    /\ torn' = (torn \/ Identity \in behind[p])
    /\ UNCHANGED <<vault, keys, failures, acked, behind, excused>>

Rotate(p) == (\E passphrase \in BOOLEAN : RotateIdentity(p, passphrase)) \/ RotateVault(p) \/ RotateClean(p)

-----------------------------------------------------------------------------
(* `spark secrets init-age-vault`, and the bootstrap of every process.      *)

\* --force: the vault goes first, and with it every secret.
EraseVault(p) ==
    /\ mem[p] = Locked /\ rot[p] = NoRotation /\ p \in Clis /\ Initialized
    /\ vault' = NoVault
    /\ rot' = [rot EXCEPT ![p] = [step |-> "plain"]]
    /\ acked' = Empty
    /\ behind' = [q \in Procs |-> IF mem[q] = Locked THEN {} ELSE Names \cup {Identity}]
    /\ torn' = (torn \/ Rekeying)
    /\ UNCHANGED <<plain, wrapped, keys, mem, failures, excused>>

EraseIdentity(p) ==
    /\ \/ /\ rot[p].step = "plain"
          /\ plain' = NoKey /\ rot' = [rot EXCEPT ![p] = [step |-> "wrapped"]]
          /\ UNCHANGED wrapped
       \/ /\ rot[p].step = "wrapped"
          /\ wrapped' = NoKey /\ rot' = [rot EXCEPT ![p] = [step |-> "new"]]
          /\ UNCHANGED plain
    /\ UNCHANGED <<vault, keys, mem, failures, acked, behind, excused, torn>>

\* No --force, or the auto_init of a process that starts: only where a file is
\* missing.
FindNone(p) ==
    /\ mem[p] = Locked /\ rot[p] = NoRotation /\ ~Initialized
    /\ rot' = [rot EXCEPT ![p] = [step |-> "new"]]
    /\ UNCHANGED <<plain, wrapped, vault, keys, mem, failures, acked, behind, excused, torn>>

\* AgeFileVault.init looks again, after the command's prompt for a passphrase.
CreateIdentity(p, passphrase) ==
    /\ rot[p].step = "new" /\ ~Initialized /\ keys < MaxKeys
    /\ keys' = keys + 1
    /\ wrapped' = IF passphrase THEN keys + 1 ELSE wrapped
    /\ plain' = IF passphrase THEN plain ELSE keys + 1
    /\ rot' = [rot EXCEPT ![p] = [step |-> "fill", key |-> keys + 1]]
    /\ behind' = [behind EXCEPT ![p] = {n \in Names : vault.data[n] # None}]
    /\ torn' = (torn \/ Rekeying)
    /\ UNCHANGED <<vault, mem, failures, acked, excused>>

\* The server's own object has created it and keeps the empty copy.
CreateVault(p) ==
    /\ rot[p].step = "fill"
    /\ vault' = [to |-> rot[p].key, data |-> Empty]
    /\ mem' = [mem EXCEPT ![p] = Keep(p, [key |-> rot[p].key, data |-> Empty])]
    /\ rot' = [rot EXCEPT ![p] = NoRotation]
    /\ excused' = excused \cup (behind[p] \ {Identity})
    /\ behind' = [q \in Procs |-> IF q = p \/ Idle(q) THEN {}
                                  ELSE behind[q] \cup behind[p] \cup {Identity}]
    /\ UNCHANGED <<plain, wrapped, keys, failures, acked, torn>>

Create(p) ==
    \/ EraseVault(p) \/ EraseIdentity(p) \/ FindNone(p) \/ CreateVault(p)
    \/ \E passphrase \in BOOLEAN : CreateIdentity(p, passphrase)

VaultNext ==
    \E p \in Procs :
        \/ Unlock(p) \/ Exit(p) \/ Rotate(p) \/ Create(p)
        \/ \E n \in Names : Remove(p, n) \/ RemoveFails(p, n)
        \/ \E n \in Names, v \in Values : Store(p, n, v) \/ StoreFails(p, n, v)

VaultSpec == VaultInit /\ [][VaultNext]_vaultVars

-----------------------------------------------------------------------------
VaultTypeOK ==
    /\ plain \in 0..MaxKeys /\ wrapped \in 0..MaxKeys /\ keys \in 0..MaxKeys
    /\ vault \in [to : 0..MaxKeys, data : Stored]
    /\ mem \in [Procs -> [key : 1..MaxKeys, data : Stored] \cup {Locked}]
    /\ rot \in [Procs -> [step : {"vault", "clean"}, key : 1..MaxKeys, passphrase : BOOLEAN]
                          \cup [step : {"plain", "wrapped", "new"}]
                          \cup [step : {"fill"}, key : 1..MaxKeys] \cup {NoRotation}]
    /\ failures \in 0..MaxFailures /\ acked \in Stored /\ excused \subseteq Names /\ torn \in BOOLEAN
    /\ behind \in [Procs -> SUBSET (Names \cup {Identity})]

\* The vault on disk opens with the identity on disk, or neither is there, so that
\* a restart finds its secrets, unless the vault is being rotated or created anew,
\* or that was cut short, or met another doing the same, or a process that goes on
\* writing with the identity it had read before.
OpensUnlessRekeyed == Rekeying \/ torn \/ Opens

\* A secret is on disk as it was last acknowledged to be, unless a process that had
\* read the vault before wrote it back, or a write of that very name failed.  A
\* vault created anew with --force has acknowledged the loss of every secret.
AcknowledgedIsKept == \A n \in Names \ excused : vault.data[n] = acked[n]
=============================================================================
