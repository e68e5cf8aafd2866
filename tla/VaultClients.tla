----------------------------- MODULE VaultClients -----------------------------
(***************************************************************************)
(* What the server keeps in its vault beside the operator's credentials:   *)
(* the key of every forensic capture, whose removal shreds the capture,    *)
(* and the OAuth token of a cloud drive, which a health probe reads before *)
(* it runs rclone and writes back when rclone has refreshed it.  A capture *)
(* also has its rows in the database, written in transactions of their own.*)
(*                                                                         *)
(* A token, refreshed or not, is the operator's paste that it comes from.  *)
(***************************************************************************)
EXTENDS SecretsVault

CONSTANTS
    Runs,         \* runs with forensic capture
    Probes,       \* health probes of the cloud drive
    Token, Key,   \* the name of the token; the value of a capture's key
    MaxPastes     \* bound: tokens the operator enters

Tokens == 1..MaxPastes

ASSUME ClientConstants ==
    /\ MaxPastes \in Nat /\ Token \notin Runs /\ Names = Runs \cup {Token}
    /\ Values = {Key} \cup Tokens /\ Key \notin Tokens

VARIABLES
    capture,  \* the ForensicCaptureRow of each run
    snaps,    \* runs with ForensicSnapshotRows
    writer,   \* the ForensicWriter of each run, in the server
    wiping,   \* runs whose key has been removed by a wipe that has not committed
    probe,    \* the token each probe in flight has given to rclone
    pastes,   \* tokens the operator has entered
    overlap   \* history: a token was entered while a probe, or the server, held another

clientVars == <<capture, snaps, writer, wiping, probe, pastes, overlap>>
vars == <<plain, wrapped, vault, keys, mem, rot, failures, acked, behind, excused, torn,
          capture, snaps, writer, wiping, probe, pastes, overlap>>

Init ==
    /\ VaultInit
    /\ capture = [r \in Runs |-> "none"]
    /\ snaps = {}
    /\ writer = [r \in Runs |-> "none"]
    /\ wiping = {}
    /\ probe = [i \in Probes |-> None]
    /\ pastes = 0
    /\ overlap = FALSE

-----------------------------------------------------------------------------
(* ForensicWriter, in the run.                                             *)

\* start: the key goes into the vault first; a vault that refuses it leaves the
\* run without capture.
StartKey(r) ==
    /\ writer[r] = "none" /\ capture[r] = "none"
    /\ \/ Store(Server, r, Key) /\ writer' = [writer EXCEPT ![r] = "keyed"]
       \/ StoreFails(Server, r, Key) /\ writer' = [writer EXCEPT ![r] = "off"]
    /\ UNCHANGED <<capture, snaps, wiping, probe, pastes, overlap>>

\* The insert, which may fail.
StartRow(r) ==
    /\ writer[r] = "keyed"
    /\ \/ /\ capture' = [capture EXCEPT ![r] = "live"]
          /\ writer' = [writer EXCEPT ![r] = "started"]
       \/ /\ writer' = [writer EXCEPT ![r] = "off"]
          /\ UNCHANGED capture
    /\ UNCHANGED <<snaps, wiping, probe, pastes, overlap>>
    /\ UNCHANGED vaultVars

\* One of the record_* calls: the public key in memory is all it needs, so it
\* goes on after a wipe.
Record(r) ==
    /\ writer[r] = "started"
    /\ snaps' = snaps \cup {r}
    /\ UNCHANGED <<capture, writer, wiping, probe, pastes, overlap>>
    /\ UNCHANGED vaultVars

-----------------------------------------------------------------------------
(* ForensicRepository.wipe: an administrator's, or the nightly sweep's.    *)

\* Mutant: the rows go first.
WipeKey_Later(r) ==
    /\ capture[r] # "none" /\ r \notin wiping
    /\ wiping' = wiping \cup {r}
    /\ UNCHANGED <<capture, snaps, writer, probe, pastes, overlap>>
    /\ UNCHANGED vaultVars

\* The key goes first; an exception is logged and passed over.
WipeKey(r) ==
    /\ capture[r] # "none" /\ r \notin wiping
    /\ Remove(Server, r) \/ RemoveFails(Server, r)
    /\ wiping' = wiping \cup {r}
    /\ UNCHANGED <<capture, snaps, writer, probe, pastes, overlap>>

\* The snapshots are deleted and the capture is marked, in one transaction.
WipeRows(r) ==
    /\ r \in wiping
    /\ wiping' = wiping \ {r}
    /\ \/ /\ capture' = [capture EXCEPT ![r] = "wiped"]
          /\ snaps' = snaps \ {r}
       \/ UNCHANGED <<capture, snaps>>
    /\ UNCHANGED <<writer, probe, pastes, overlap>>
    /\ UNCHANGED vaultVars

-----------------------------------------------------------------------------
(* The token of the cloud drive.                                           *)

\* PUT /secrets in the server, or `spark secrets set`.
Paste(p) ==
    /\ pastes < MaxPastes
    /\ Store(p, Token, pastes + 1) \/ StoreFails(p, Token, pastes + 1)
    /\ pastes' = pastes + 1
    /\ overlap' = (overlap \/ (\E i \in Probes : probe[i] # None)
                           \/ (p # Server /\ mem[Server] # Locked))
    /\ UNCHANGED <<capture, snaps, writer, wiping, probe>>

\* DELETE /secrets, or `spark secrets delete`.
Discard(p) ==
    /\ Remove(p, Token) \/ RemoveFails(p, Token)
    /\ UNCHANGED clientVars

\* Mutant: the token of the first probe is used again.
ProbeReads_Cached(i) ==
    /\ probe[i] = None /\ Unlocked(Server) /\ mem[Server].data[Token] # None
    /\ probe' = [probe EXCEPT ![i] = 1]
    /\ UNCHANGED <<capture, snaps, writer, wiping, pastes, overlap>>
    /\ UNCHANGED vaultVars

\* The discover endpoint reads the token and starts rclone.
ProbeReads(i) ==
    /\ probe[i] = None /\ Unlocked(Server) /\ mem[Server].data[Token] # None
    /\ probe' = [probe EXCEPT ![i] = mem[Server].data[Token]]
    /\ UNCHANGED <<capture, snaps, writer, wiping, pastes, overlap>>
    /\ UNCHANGED vaultVars

\* rclone has refreshed it: the new token goes back, whatever is there by now.
\* A write that fails is passed over.
ProbePersists(i) ==
    /\ probe[i] # None
    /\ Store(Server, Token, probe[i]) \/ StoreFails(Server, Token, probe[i])
    /\ probe' = [probe EXCEPT ![i] = None]
    /\ UNCHANGED <<capture, snaps, writer, wiping, pastes, overlap>>

\* No refresh, or a timeout, after which the refreshed token is not looked at.
ProbeEnds(i) ==
    /\ probe[i] # None
    /\ probe' = [probe EXCEPT ![i] = None]
    /\ UNCHANGED <<capture, snaps, writer, wiping, pastes, overlap>>
    /\ UNCHANGED vaultVars

-----------------------------------------------------------------------------
(* Processes start and end.                                                *)

Reads(p) == Unlock(p) /\ UNCHANGED clientVars

\* The server takes its writers, wipes and probes with it.
Stops(p) ==
    /\ Exit(p)
    /\ IF p = Server
       THEN /\ writer' = [r \in Runs |-> IF writer[r] = "none" THEN "none" ELSE "off"]
            /\ wiping' = {}
            /\ probe' = [i \in Probes |-> None]
       ELSE UNCHANGED <<writer, wiping, probe>>
    /\ UNCHANGED <<capture, snaps, pastes, overlap>>

Rotates(p) == Rotate(p) /\ UNCHANGED clientVars

Creates(p) == Create(p) /\ UNCHANGED clientVars

Next ==
    \/ \E r \in Runs : StartKey(r) \/ StartRow(r) \/ Record(r) \/ WipeKey(r) \/ WipeRows(r)
    \/ \E i \in Probes : ProbeReads(i) \/ ProbePersists(i) \/ ProbeEnds(i)
    \/ \E p \in Procs : Paste(p) \/ Discard(p) \/ Reads(p) \/ Stops(p) \/ Rotates(p)
                        \/ Creates(p)

Spec == Init /\ [][Next]_vars

-----------------------------------------------------------------------------
TypeOK ==
    /\ VaultTypeOK
    /\ capture \in [Runs -> {"none", "live", "wiped"}]
    /\ snaps \subseteq Runs /\ wiping \subseteq Runs
    /\ writer \in [Runs -> {"none", "keyed", "started", "off"}]
    /\ probe \in [Probes -> Values \cup {None}]
    /\ pastes \in 0..MaxPastes /\ overlap \in BOOLEAN

\* A capture that says it is wiped cannot be read, from the file or in the server,
\* however late its run records, unless the removal of its key failed or another
\* process wrote the vault back.
WipedIsShredded ==
    \A r \in Runs \ excused : capture[r] = "wiped" =>
        vault.data[r] = None /\ (mem[Server] # Locked => mem[Server].data[r] = None)

\* The vault holds a token of the operator's last paste, unless that was entered
\* beside a probe in flight, or beside a running server, which never reads it, or a
\* write failed.
LastPasteStands ==
    (Token \notin excused /\ ~overlap /\ vault.data[Token] # None)
    => vault.data[Token] = pastes

-----------------------------------------------------------------------------
(* The inductive invariant behind the theorems of VaultClients_proofs.     *)

\* A process holds what was acknowledged, but for what others wrote since; one that
\* is about to write an empty vault has nothing to lose by it.
Carried ==
    \A p \in Procs, n \in Names : n \notin behind[p] \cup excused =>
        /\ mem[p] # Locked => mem[p].data[n] = acked[n]
        /\ rot[p].step = "fill" => acked[n] = None

Rotators == \A p \in Procs :
    /\ rot[p].step \in {"vault", "clean"} => mem[p] # Locked
    /\ rot[p].step \in {"plain", "wrapped", "new", "fill"} => mem[p] = Locked

\* Until a rotation or a creation is torn there is one at most, and but for a
\* process that is behind the identities in the files, in memory and in the vault
\* agree.
Keyed == ~torn =>
    /\ ~Rekeying => Opens
    /\ \A p, q \in Procs : Rewriting(p) /\ Rewriting(q) => p = q
    /\ \A p \in Procs :
          /\ rot[p].step \in {"vault", "clean"} =>
                (IF rot[p].passphrase THEN wrapped ELSE plain) = rot[p].key
          /\ (rot[p].step = "clean" /\ Identity \notin behind[p]) => vault.to = rot[p].key
          /\ rot[p].step \in {"plain", "wrapped", "fill"} =>
                vault.to = NoKey /\ \A q \in Procs : mem[q] # Locked => Identity \in behind[q]
          /\ rot[p].step = "wrapped" => plain = NoKey
          /\ rot[p].step = "fill" => KeyOnDisk = rot[p].key
          /\ (mem[p] # Locked /\ Identity \notin behind[p] /\ rot[p].step # "clean")
                => mem[p].key = vault.to

\* The server does not hold the key of a capture that it has removed.
ServerForgets ==
    \A r \in Runs \ excused :
        ((r \in wiping \/ capture[r] = "wiped") /\ mem[Server] # Locked)
            => mem[Server].data[r] = None

\* From the removal of its key on, a capture's key is not written again.
KeysStayAway ==
    \A r \in Runs : (r \in wiping \/ capture[r] = "wiped") =>
        capture[r] # "none" /\ (acked[r] = None \/ r \in excused)

\* Every token about is the last paste's.
OnePaste == (Token \notin excused /\ ~overlap) =>
    /\ acked[Token] \in {None, pastes}
    /\ mem[Server] # Locked => mem[Server].data[Token] \in {None, pastes}
    /\ \A i \in Probes : probe[i] \in {None, pastes}

IInv ==
    /\ TypeOK /\ AcknowledgedIsKept
    /\ Carried /\ Rotators /\ Keyed /\ ServerForgets /\ KeysStayAway /\ OnePaste
=============================================================================
